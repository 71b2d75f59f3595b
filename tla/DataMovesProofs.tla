-------------------------- MODULE DataMovesProofs --------------------------
(***************************************************************************)
(* Proofs about ManifestSeeding, for any manifests, administrators and     *)
(* number of runs: repeating a run creates nothing, however runs overlap;  *)
(* files match their rows until two runs have been under way at once; and  *)
(* reported conflicts are conflicts.  Proofs about SchemaUpgrade, for any  *)
(* tables: migrations fit what is stored and lose none of it.  Proofs      *)
(* about SeedImport, for any texts, entries and members: what a source     *)
(* becomes is sound, and keeps its keys when the source grows.             *)
(***************************************************************************)
EXTENDS ManifestSeeding, SchemaUpgrade, SeedImport, FiniteSetTheorems, SequenceTheorems, TLAPS

-----------------------------------------------------------------------------
(* ManifestSeeding.                                                        *)

\* What a run has written belongs to records of its manifest, and clashes
\* with nothing that is stored or that another run has flushed.
Fenced ==
    /\ \A r \in Runs : \A row \in pending[r] \union flushed[r] :
           \E rec \in manifest[r] : rec.key = row.key
    /\ \A r \in Runs : ~Clashes(flushed[r], table)
    /\ \A r, q \in Runs : r # q => ~Clashes(flushed[r], flushed[q])

\* A run that is not under way has written nothing.
Resting ==
    \A r \in Runs : IF pc[r] = "ready" THEN pending[r] = {} /\ flushed[r] = {}
                                      ELSE manifest[r] \in Manifests

\* What was applied is found by its keys.
Remembered == \A m \in settled : FoundByKeys(m, table)

SeedingIInv == TypeOK /\ Fenced /\ Resting /\ Remembered

\* A record becomes a row.
LEMMA NewRowType ==
  ASSUME NEW r \in Runs, NEW rec \in Record
  PROVE  NewRow(r, rec) \in Row /\ NewRow(r, rec).key = rec.key
         /\ NewRow(r, rec).file = rec.file
  BY DEF NewRow, Record, Row

\* Rows that do not clash do not clash the other way round either.
LEMMA ClashIsSymmetric ==
  ASSUME NEW S, NEW T, ~Clashes(S, T)
  PROVE  ~Clashes(T, S)
  BY DEF Clashes, Clash

\* Nothing clashes with the union of what it does not clash with.
LEMMA ClashOfUnion ==
  ASSUME NEW S, NEW T, NEW U, ~Clashes(S, U), ~Clashes(T, U)
  PROVE  ~Clashes(S \union T, U)
  BY DEF Clashes

\* An empty database satisfies the invariant.
LEMMA SeedingInitIInv == Init => SeedingIInv
  <1> SUFFICES ASSUME Init PROVE SeedingIInv
    OBVIOUS
  <1>1. TypeOK
    <2>1. crowded \in BOOLEAN
      BY Zenon DEF Init
    <2> QED
      BY <2>1, SeedingAssumption DEF Init, TypeOK
  <1> QED
    BY <1>1 DEF Init, SeedingIInv, Fenced, Resting, Remembered, Clashes

\* A run begins with a manifest and nothing written.
LEMMA BeginPreserves ==
  ASSUME SeedingIInv, crowded' \in BOOLEAN, NEW r \in Runs, NEW m \in Manifests, Begin(r, m)
  PROVE  SeedingIInv'
  <1>1. TypeOK'
    BY SeedingAssumption DEF Begin, SeedingIInv, TypeOK
  <1>2. Fenced'
    BY DEF Begin, SeedingIInv, TypeOK, Fenced, Resting, Clashes
  <1> QED
    BY <1>1, <1>2 DEF Begin, SeedingIInv, TypeOK, Resting, Remembered, FoundByKeys

\* A record that is skipped leaves what was written as it is.
LEMMA SkipPreserves ==
  ASSUME SeedingIInv, crowded' \in BOOLEAN, NEW r \in Runs, NEW rec \in todo[r], Skip(r, rec)
  PROVE  SeedingIInv'
  <1>1. rec \in Record
    BY DEF SeedingIInv, TypeOK
  <1>2. TypeOK'
    BY <1>1 DEF Skip, Done, SeedingIInv, TypeOK, Record
  <1> QED
    BY <1>2 DEF Skip, Done, SeedingIInv, Fenced, Resting, Remembered, Clashes, FoundByKeys

\* A record that is created becomes a pending row with its key.
LEMMA CreatePreserves ==
  ASSUME SeedingIInv, crowded' \in BOOLEAN, NEW r \in Runs, NEW rec \in todo[r], Create(r, rec)
  PROVE  SeedingIInv'
  <1>1. rec \in Record /\ rec \in manifest[r]
    BY DEF SeedingIInv, TypeOK
  <1> DEFINE new == NewRow(r, rec)
  <1>2. new \in Row /\ new.key = rec.key
    BY <1>1, NewRowType
  <1>3. /\ pending' = [pending EXCEPT ![r] = @ \union {new}]
        /\ pc[r] = "seeding"
        /\ UNCHANGED <<table, pc, manifest, group, flushed, settled>>
    BY DEF Create, Done, Takes
  <1> HIDE DEF new
  <1>4. TypeOK'
    <2>1. files' \in [Keys -> Contents \union {None}]
      BY <1>1 DEF Create, SeedingIInv, TypeOK, Record
    <2> QED
      BY <1>1, <1>2, <1>3, <2>1 DEF Create, Done, SeedingIInv, TypeOK, Record
  <1>5. Fenced'
    BY <1>1, <1>2, <1>3 DEF SeedingIInv, TypeOK, Fenced, Clashes
  <1> QED
    BY <1>3, <1>4, <1>5 DEF SeedingIInv, TypeOK, Resting, Remembered, FoundByKeys

\* Rows are flushed only if they clash with nothing.
LEMMA FlushPreserves ==
  ASSUME SeedingIInv, crowded' \in BOOLEAN, NEW r \in Runs, Flush(r)
  PROVE  SeedingIInv'
  <1>1. /\ flushed' = [flushed EXCEPT ![r] = @ \union pending[r]]
        /\ pending' = [pending EXCEPT ![r] = {}]
        /\ pc[r] = "seeding"
        /\ UNCHANGED <<table, pc, manifest, settled>>
    BY DEF Flush, EndOfGroup
  <1>2. TypeOK'
    BY SeedingAssumption DEF Flush, EndOfGroup, SeedingIInv, TypeOK
  <1>3. /\ ~Clashes(pending[r], table)
        /\ \A q \in Runs \ {r} : ~Clashes(pending[r], flushed[q])
    BY DEF Flush, EndOfGroup, Refused, Visible, Clashes
  <1>4. ~Clashes(flushed'[r], table)
    BY <1>1, <1>3, ClashOfUnion DEF SeedingIInv, TypeOK, Fenced
  <1>5. ASSUME NEW q \in Runs \ {r}
        PROVE  ~Clashes(flushed'[r], flushed[q]) /\ ~Clashes(flushed[q], flushed'[r])
    BY <1>1, <1>3, ClashOfUnion, ClashIsSymmetric DEF SeedingIInv, TypeOK, Fenced
  <1>6. Fenced'
    <2>1. \A p \in Runs : ~Clashes(flushed'[p], table)
      BY <1>1, <1>4 DEF SeedingIInv, TypeOK, Fenced
    <2>2. \A p, q \in Runs : p # q => ~Clashes(flushed'[p], flushed'[q])
      BY <1>1, <1>5 DEF SeedingIInv, TypeOK, Fenced
    <2>3. \A p \in Runs : pending'[p] \union flushed'[p] \subseteq pending[p] \union flushed[p]
      BY <1>1 DEF SeedingIInv, TypeOK
    <2> QED
      BY <1>1, <2>1, <2>2, <2>3 DEF SeedingIInv, Fenced, Clashes
  <1> QED
    BY <1>1, <1>2, <1>6 DEF SeedingIInv, TypeOK, Resting, Remembered, FoundByKeys

\* A run that ends forgets what it has not committed.
LEMMA EndForgets ==
  ASSUME SeedingIInv, crowded' \in BOOLEAN, NEW r \in Runs, End(r), table' \subseteq Row, settled' \subseteq Manifests
  PROVE  /\ TypeOK' /\ Resting'
         /\ pending'[r] = {} /\ flushed'[r] = {}
         /\ \A q \in Runs \ {r} :
                manifest'[q] = manifest[q] /\ pending'[q] = pending[q] /\ flushed'[q] = flushed[q]
  BY SeedingAssumption DEF End, SeedingIInv, TypeOK, Resting

\* A run that comes to nothing leaves the table as it was.
LEMMA FailurePreserves ==
  ASSUME SeedingIInv, crowded' \in BOOLEAN, NEW r \in Runs, Conflict(r) \/ Abort(r)
  PROVE  SeedingIInv'
  <1>1. End(r) /\ UNCHANGED <<table, settled>>
    BY DEF Conflict, Abort
  <1>2. /\ TypeOK' /\ Resting'
        /\ pending'[r] = {} /\ flushed'[r] = {}
        /\ \A q \in Runs \ {r} :
               manifest'[q] = manifest[q] /\ pending'[q] = pending[q] /\ flushed'[q] = flushed[q]
    BY <1>1, EndForgets DEF SeedingIInv, TypeOK
  <1>3. Fenced'
    BY <1>1, <1>2 DEF SeedingIInv, Fenced, Clashes
  <1> QED
    BY <1>1, <1>2, <1>3 DEF SeedingIInv, Remembered, FoundByKeys

\* What a run commits clashes with nothing that others have flushed.
LEMMA CommitPreserves ==
  ASSUME SeedingIInv, crowded' \in BOOLEAN, NEW r \in Runs, Commit(r)
  PROVE  SeedingIInv'
  <1>1. End(r) /\ table' = table \union flushed[r]
    BY DEF Commit
  <1>2. \/ settled' = settled
        \/ settled' = settled \union {manifest[r]} /\ FoundByKeys(manifest[r], table')
    BY DEF Commit
  <1>3. manifest[r] \in Manifests
    BY DEF Commit, SeedingIInv, Resting
  <1>4. /\ TypeOK' /\ Resting'
        /\ pending'[r] = {} /\ flushed'[r] = {}
        /\ \A q \in Runs \ {r} :
               manifest'[q] = manifest[q] /\ pending'[q] = pending[q] /\ flushed'[q] = flushed[q]
    <2>1. table' \subseteq Row /\ settled' \subseteq Manifests
      BY <1>1, <1>2, <1>3 DEF SeedingIInv, TypeOK
    <2> QED
      BY <1>1, <2>1, EndForgets
  <1>5. ASSUME NEW q \in Runs \ {r} PROVE ~Clashes(flushed[q], table')
    <2>1. ~Clashes(table, flushed[q]) /\ ~Clashes(flushed[r], flushed[q])
      BY ClashIsSymmetric DEF SeedingIInv, Fenced
    <2> QED
      BY <1>1, <2>1, ClashOfUnion, ClashIsSymmetric
  <1>6. Fenced'
    <2>1. \A p \in Runs : ~Clashes(flushed'[p], table')
      BY <1>4, <1>5 DEF Clashes
    <2>2. \A p, q \in Runs : p # q => ~Clashes(flushed'[p], flushed'[q])
      BY <1>4 DEF SeedingIInv, Fenced, Clashes
    <2> QED
      BY <1>4, <2>1, <2>2 DEF SeedingIInv, Fenced
  <1>7. Remembered'
    BY <1>1, <1>2 DEF SeedingIInv, Remembered, FoundByKeys
  <1> QED
    BY <1>4, <1>6, <1>7 DEF SeedingIInv

\* A change by an administrator clashes with nothing that runs have flushed.
LEMMA ChangePreserves ==
  ASSUME SeedingIInv, crowded' \in BOOLEAN, NEW old \in SUBSET Row, NEW new \in SUBSET Row, Change(old, new)
  PROVE  SeedingIInv'
  <1>1. /\ table' = (table \ old) \union new
        /\ settled' = {m \in settled : FoundByKeys(m, table')}
        /\ UNCHANGED <<files, pc, manifest, todo, group, known, pending, flushed>>
    BY DEF Change, run
  <1>2. TypeOK'
    BY <1>1 DEF SeedingIInv, TypeOK
  <1>3. ASSUME NEW r \in Runs PROVE ~Clashes(flushed[r], table')
    <2>1. ~Clashes(new, flushed[r])
      BY DEF Change, Clashes
    <2>2. ~Clashes(table \ old, flushed[r])
      BY ClashIsSymmetric DEF SeedingIInv, Fenced, Clashes
    <2> QED
      BY <1>1, <2>1, <2>2, ClashOfUnion, ClashIsSymmetric
  <1>4. Fenced'
    BY <1>1, <1>3 DEF SeedingIInv, Fenced
  <1> QED
    BY <1>1, <1>2, <1>4 DEF SeedingIInv, Resting, Remembered, FoundByKeys

\* What a run may do next.
RunStep(r) ==
    \/ \E m \in Manifests : Begin(r, m)
    \/ \E rec \in todo[r] : Skip(r, rec) \/ Create(r, rec)
    \/ Flush(r) \/ Conflict(r) \/ Commit(r) \/ Abort(r)

\* What administrators may do next.
Administration ==
    \/ \E name \in Names : Author(name)
    \/ \E row \in table :
        \/ \E name \in Names \union {None}, rank \in Ranks \union {None},
              selected \in BOOLEAN : Edit(row, name, rank, selected)
        \/ Delete(row)

\* Every step is one of a run or an administrator's.
LEMMA NextCases ==
  [Next]_vars => UNCHANGED vars \/ (Next /\ \E r \in Runs : RunStep(r)) \/ (Next /\ Administration)
  BY DEF Next, RunStep, Administration

\* What administrators may do is a change of rows.
LEMMA AdministrationChanges ==
  ASSUME SeedingIInv, Administration
  PROVE  \E old, new \in SUBSET Row :
             /\ Change(old, new)
             /\ old \subseteq table
             /\ \A row \in new : row.file # None =>
                    \E was \in old : was.key = row.key /\ was.file = row.file
  <1>1. CASE \E name \in Names : Author(name)
    <2> PICK name \in Names : Author(name)
      BY <1>1
    <2> DEFINE row == [key |-> None, name |-> name, rank |-> None, file |-> None,
                       selected |-> FALSE]
    <2>1. row \in Row /\ row.file = None
      BY DEF Row
    <2>2. Change({}, {row})
      BY DEF Author
    <2> HIDE DEF row
    <2> QED
      BY <2>1, <2>2
  <1>2. ASSUME NEW row \in table, NEW name \in Names \union {None},
               NEW rank \in Ranks \union {None}, NEW selected \in BOOLEAN,
               Edit(row, name, rank, selected)
        PROVE  \E old, new \in SUBSET Row :
                   /\ Change(old, new)
                   /\ old \subseteq table
                   /\ \A row2 \in new : row2.file # None =>
                          \E was \in old : was.key = row2.key /\ was.file = row2.file
    <2> DEFINE edited == [row EXCEPT !.name = name, !.rank = rank, !.selected = selected]
    <2>1. row \in Row
      BY DEF SeedingIInv, TypeOK
    <2>2. edited \in Row /\ edited.key = row.key /\ edited.file = row.file
      BY <2>1 DEF Row
    <2>3. Change({row}, {edited})
      BY <1>2 DEF Edit
    <2> HIDE DEF edited
    <2> QED
      BY <2>1, <2>2, <2>3
  <1>3. ASSUME NEW row \in table, Delete(row)
        PROVE  \E old, new \in SUBSET Row :
                   /\ Change(old, new)
                   /\ old \subseteq table
                   /\ \A row2 \in new : row2.file # None =>
                          \E was \in old : was.key = row2.key /\ was.file = row2.file
    <2>1. Change({row}, {}) /\ row \in Row
      BY <1>3 DEF Delete, SeedingIInv, TypeOK
    <2> QED
      BY <2>1
  <1> QED
    BY <1>1, <1>2, <1>3 DEF Administration

-----------------------------------------------------------------------------

\* The invariant is inductive.
LEMMA SeedingNextPreserves == SeedingIInv /\ [Next]_vars => SeedingIInv'
  <1> SUFFICES ASSUME SeedingIInv, [Next]_vars PROVE SeedingIInv'
    OBVIOUS
  <1>1. CASE UNCHANGED vars
    BY <1>1 DEF vars, SeedingIInv, TypeOK, Fenced, Resting, Remembered, FoundByKeys, Clashes
  <1>2. ASSUME Next PROVE crowded' \in BOOLEAN
    BY <1>2, Zenon DEF Next
  <1>3. CASE Next /\ \E r \in Runs : RunStep(r)
    BY <1>2, <1>3, BeginPreserves, SkipPreserves, CreatePreserves, FlushPreserves,
       FailurePreserves, CommitPreserves DEF RunStep
  <1>4. CASE Next /\ \E old, new \in SUBSET Row : Change(old, new)
    BY <1>2, <1>4, ChangePreserves
  <1> QED
    BY <1>1, <1>3, <1>4, NextCases, AdministrationChanges

\* The invariant holds in every state of every behaviour.
LEMMA SeedingInvariance == Spec => []SeedingIInv
  BY SeedingInitIInv, SeedingNextPreserves, PTL DEF Spec

\* Rows, files and what every run has in hand keep their types (TypeOK).
THEOREM SeedingTypeCorrect == Spec => []TypeOK
  <1>1. SeedingIInv => TypeOK
    BY DEF SeedingIInv
  <1> QED
    BY <1>1, SeedingInvariance, PTL

\* Applying a manifest again creates nothing, whatever administrators edited
\* and whichever runs overlap (RepeatsCreateNothing): what a run that came too
\* late has in hand clashes with what is stored.
THEOREM SeedingIsIdempotent == Spec => RepeatsCreateNothing
  <1>1. ASSUME SeedingIInv, NEW r \in Runs, Commit(r), manifest[r] \in settled
        PROVE  flushed[r] = {}
    <2> SUFFICES ASSUME NEW row \in flushed[r] PROVE FALSE
      OBVIOUS
    <2>1. PICK rec \in manifest[r] : rec.key = row.key
      BY <1>1 DEF SeedingIInv, Fenced
    <2>2. PICK stored \in table : stored.key = rec.key
      BY <1>1 DEF SeedingIInv, Remembered, FoundByKeys
    <2>3. row.key # None
      BY <1>1, <2>1, SeedingAssumption DEF SeedingIInv, TypeOK, Record
    <2> QED
      BY <1>1, <2>1, <2>2, <2>3 DEF SeedingIInv, Fenced, Clashes, Clash
  <1>2. SeedingIInv => \A r \in Runs : Commit(r) /\ manifest[r] \in settled => flushed[r] = {}
    BY <1>1
  <1> QED
    BY <1>2, SeedingInvariance, PTL DEF Spec, RepeatsCreateNothing

-----------------------------------------------------------------------------

\* One run is under way, whose records not reached have keys of their own.
Alone ==
    /\ \A r, q \in Runs : pc[r] = "seeding" /\ pc[q] = "seeding" => r = q
    /\ \A r \in Runs : Valid(manifest[r])
    /\ \A r \in Runs : \A rec \in todo[r], row \in pending[r] : rec.key # row.key

\* The file is as the row describes it.
Holds(row) == row.file # None => row.key \in Keys /\ files[row.key] = row.file

SeedingFInv ==
    /\ Alone
    /\ \A row \in table : Holds(row)
    /\ \A r \in Runs : \A row \in pending[r] \union flushed[r] : Holds(row)

\* With no files and nothing under way the files match.
LEMMA InitFInv == Init => SeedingFInv
  BY DEF Init, SeedingFInv, Alone, Valid

\* A new file replaces none that a row describes.
LEMMA CreateKeepsFiles ==
  ASSUME SeedingIInv, SeedingFInv, NEW r \in Runs, NEW rec \in todo[r], Create(r, rec)
  PROVE  SeedingFInv'
  <1>1. rec \in manifest[r] /\ rec \in Record /\ todo[r] \subseteq manifest[r]
    BY DEF SeedingIInv, TypeOK
  <1> DEFINE new == NewRow(r, rec)
  <1>2. new.key = rec.key /\ new.file = rec.file
    BY <1>1, NewRowType
  <1>3. /\ pending' = [pending EXCEPT ![r] = @ \union {new}]
        /\ todo' = [todo EXCEPT ![r] = @ \ {rec}]
        /\ files' = IF rec.file = None THEN files ELSE [files EXCEPT ![rec.key] = rec.file]
        /\ pc[r] = "seeding"
        /\ UNCHANGED <<table, pc, manifest, flushed>>
    BY DEF Create, Done, Takes
  <1> HIDE DEF new
  <1>4. \A row \in table \union flushed[r] \union pending[r] : row.key # rec.key
    BY DEF Create, Found, Visible, SeedingFInv, Alone
  <1>5. \A row : row.key # rec.key /\ Holds(row) => Holds(row)'
    <2> SUFFICES ASSUME NEW row, row.key # rec.key, Holds(row), row.file # None
                 PROVE  files'[row.key] = row.file
      BY DEF Holds
    <2> row.key \in Keys /\ files[row.key] = row.file
      BY DEF Holds
    <2>1. CASE rec.file = None
      BY <1>3, <2>1
    <2>2. CASE rec.file # None
      BY <1>3, <2>2 DEF SeedingIInv, TypeOK
    <2> QED
      BY <2>1, <2>2
  <1>6. \A row : row = new => Holds(row)'
    BY <1>1, <1>2, <1>3 DEF Holds, SeedingIInv, TypeOK, Record
  <1>7. \A q \in Runs \ {r} : pending'[q] = {} /\ flushed'[q] = {}
    BY <1>3 DEF SeedingFInv, Alone, SeedingIInv, TypeOK, Resting
  <1>8. pending'[r] = pending[r] \union {new} /\ flushed'[r] = flushed[r]
    BY <1>3 DEF SeedingIInv, TypeOK
  <1>9. \A q \in Runs : \A row \in pending'[q] \union flushed'[q] : Holds(row)'
    BY <1>4, <1>5, <1>6, <1>7, <1>8 DEF SeedingFInv
  <1>10. \A row \in table' : Holds(row)'
    BY <1>3, <1>4, <1>5 DEF SeedingFInv
  <1>11. Alone'
    <2>1. \A other \in todo'[r] : other.key # rec.key /\ other \in todo[r]
      BY <1>1, <1>3 DEF SeedingFInv, Alone, Valid, SeedingIInv, TypeOK
    <2>2. \A q \in Runs : \A other \in todo'[q], row \in pending'[q] : other.key # row.key
      BY <1>2, <1>7, <1>8, <2>1 DEF SeedingFInv, Alone
    <2> QED
      BY <1>3, <2>2 DEF SeedingFInv, Alone, Valid
  <1> QED
    BY <1>9, <1>10, <1>11 DEF SeedingFInv

\* Every other step of a run writes no file.
LEMMA RunKeepsFiles ==
  ASSUME SeedingIInv, SeedingFInv, ~Meeting, NEW r \in Runs,
         \/ \E m \in Manifests : Begin(r, m)
         \/ \E rec \in todo[r] : Skip(r, rec)
         \/ Flush(r) \/ Conflict(r) \/ Commit(r) \/ Abort(r)
  PROVE  SeedingFInv'
  <1>1. CASE \E m \in Manifests : Begin(r, m)
    <2> PICK m \in Manifests : Begin(r, m)
      BY <1>1
    <2>1. pending[r] = {} /\ pc' = [pc EXCEPT ![r] = "seeding"]
      BY DEF Begin, SeedingIInv, Resting
    <2>2. \A p, q \in Runs : pc'[p] = "seeding" /\ pc'[q] = "seeding" => p = q
      BY DEF Meeting
    <2>3. Alone'
      BY <2>1, <2>2 DEF Begin, SeedingFInv, Alone, Valid, SeedingIInv, TypeOK
    <2> QED
      BY <2>3 DEF Begin, SeedingFInv, Holds
  <1>2. CASE \E rec \in todo[r] : Skip(r, rec)
    <2> PICK rec \in todo[r] : Skip(r, rec)
      BY <1>2
    <2>1. /\ todo' = [todo EXCEPT ![r] = @ \ {rec}]
          /\ UNCHANGED <<table, files, pc, manifest, pending, flushed>>
      BY DEF Skip, Done
    <2>2. Alone'
      BY <2>1 DEF SeedingFInv, Alone, Valid, SeedingIInv, TypeOK
    <2> QED
      BY <2>1, <2>2 DEF SeedingFInv, Holds
  <1>3. CASE Flush(r)
    <2>1. /\ flushed' = [flushed EXCEPT ![r] = @ \union pending[r]]
          /\ pending' = [pending EXCEPT ![r] = {}]
          /\ UNCHANGED <<table, files, pc, manifest, todo>>
      BY <1>3 DEF Flush
    <2>2. Alone'
      BY <2>1 DEF SeedingFInv, Alone, Valid, SeedingIInv, TypeOK
    <2>3. \A q \in Runs : pending'[q] \union flushed'[q] \subseteq pending[q] \union flushed[q]
      BY <2>1 DEF SeedingIInv, TypeOK
    <2> QED
      BY <2>1, <2>2, <2>3 DEF SeedingFInv, Holds
  <1>4. ASSUME End(r), table' \subseteq table \union flushed[r] PROVE SeedingFInv'
    <2>1. /\ UNCHANGED files
          /\ \A q \in Runs : pending'[q] \subseteq pending[q] /\ flushed'[q] \subseteq flushed[q]
          /\ \A q \in Runs : todo'[q] \subseteq todo[q] /\ manifest'[q] \subseteq manifest[q]
          /\ \A q \in Runs : pc'[q] = "seeding" => pc[q] = "seeding"
      BY <1>4 DEF End, SeedingIInv, TypeOK
    <2>2. Alone'
      BY <2>1 DEF SeedingFInv, Alone, Valid
    <2> QED
      BY <1>4, <2>1, <2>2 DEF SeedingFInv, Holds
  <1> QED
    BY <1>1, <1>2, <1>3, <1>4 DEF Conflict, Commit, Abort

\* An administrator's change gives no row another file.
LEMMA ChangeKeepsFiles ==
  ASSUME SeedingFInv, NEW old \in SUBSET table, NEW new, Change(old, new),
         \A row \in new : row.file # None =>
             \E was \in old : was.key = row.key /\ was.file = row.file
  PROVE  SeedingFInv'
  <1>1. /\ table' = (table \ old) \union new
        /\ UNCHANGED <<files, pc, manifest, todo, pending, flushed>>
    BY DEF Change, run
  <1>2. \A row \in table' : Holds(row)
    BY <1>1 DEF SeedingFInv, Holds
  <1> QED
    BY <1>1, <1>2 DEF SeedingFInv, Holds, Alone, Valid

\* Until two runs have been under way at once, the file of every stored
\* record is the one its row describes (FilesMatchRows), although runs that
\* come to nothing leave their files behind and administrators edit meanwhile.
THEOREM SeedingKeepsFiles == Spec => []FilesMatchRows
  <1> DEFINE Inv == crowded \/ SeedingFInv
  <1>1. SeedingIInv /\ Inv /\ [Next]_vars => Inv'
    <2> SUFFICES ASSUME SeedingIInv, Inv, [Next]_vars, ~crowded' PROVE SeedingFInv'
      OBVIOUS
    <2>1. CASE UNCHANGED vars
      BY <2>1 DEF vars, SeedingFInv, Holds, Alone, Valid
    <2>2. ASSUME Next PROVE ~crowded /\ ~Meeting
      BY <2>2, Zenon DEF Next
    <2>3. CASE Next /\ \E r \in Runs : RunStep(r)
      BY <2>2, <2>3, CreateKeepsFiles, RunKeepsFiles DEF RunStep
    <2>4. CASE Next /\ Administration
      BY <2>2, <2>4, AdministrationChanges, ChangeKeepsFiles
    <2> QED
      BY <2>1, <2>3, <2>4, NextCases
  <1>2. Init => Inv
    BY InitFInv
  <1>3. Inv => FilesMatchRows
    BY DEF SeedingFInv, FilesMatchRows, Holds
  <1> QED
    BY <1>1, <1>2, <1>3, SeedingInvariance, PTL DEF Spec

-----------------------------------------------------------------------------

\* A row that was made of a record has its key, name and rank.
MadeOf(row, rec) == row.key = rec.key /\ row.name = rec.name /\ row.rank = rec.rank

\* The rows of a run differ as the records of its manifest do that it is done
\* with; and a row is selected only if none was that the run had flushed.
RowsApart(records, left, new, old) ==
    /\ Valid(records) /\ left \subseteq records
    /\ \A row \in new \union old : \E rec \in records \ left : MadeOf(row, rec)
    /\ \A a, b \in new : a # b => a.key # b.key
    /\ \A a \in new, b \in old : a.key # b.key /\ ~(a.selected /\ b.selected)

RowsDiffer == \A r \in Runs : RowsApart(manifest[r], todo[r], pending[r], flushed[r])

\* Creating a row keeps it apart from those of the same run.
LEMMA CreateKeepsApart ==
  ASSUME SeedingIInv, RowsDiffer, NEW r \in Runs, NEW rec \in todo[r], Create(r, rec)
  PROVE  RowsDiffer'
  <1> DEFINE row == NewRow(r, rec)
  <1>1. MadeOf(row, rec)
    BY DEF NewRow, MadeOf
  <1>2. \A b \in flushed[r] : ~(row.selected /\ b.selected)
    BY DEF NewRow, Visible
  <1> HIDE DEF row
  <1>3. /\ manifest' = manifest /\ flushed' = flushed
        /\ todo' = [todo EXCEPT ![r] = @ \ {rec}]
        /\ pending' = [pending EXCEPT ![r] = @ \union {row}]
    BY DEF Create, Done, row
  <1>4. \A x \in manifest[r] \ todo[r] : x.key # rec.key
    BY DEF RowsDiffer, RowsApart, Valid
  <1>5. \A b \in pending[r] \union flushed[r] : b.key # row.key
    BY <1>1, <1>4 DEF RowsDiffer, RowsApart, MadeOf
  <1>6. RowsApart(manifest[r], todo[r] \ {rec}, pending[r] \union {row}, flushed[r])
    <2>1. \A a \in pending[r] \union {row} \union flushed[r] :
             \E x \in manifest[r] \ (todo[r] \ {rec}) : MadeOf(a, x)
      BY <1>1 DEF RowsDiffer, RowsApart
    <2>2. QED
      BY <1>2, <1>5, <2>1 DEF RowsDiffer, RowsApart
  <1>7. QED
    BY <1>3, <1>6 DEF RowsDiffer, SeedingIInv, TypeOK

\* Every step of the runs and of the administrators keeps rows apart.
LEMMA NextKeepsApart == SeedingIInv /\ RowsDiffer /\ [Next]_vars => RowsDiffer'
  <1> SUFFICES ASSUME SeedingIInv, RowsDiffer, [Next]_vars PROVE RowsDiffer'
    OBVIOUS
  <1>1. ASSUME UNCHANGED <<manifest, todo, pending, flushed>> PROVE RowsDiffer'
    BY <1>1 DEF RowsDiffer
  <1>2. ASSUME NEW r \in Runs, NEW m \in Manifests, Begin(r, m) PROVE RowsDiffer'
    <2>1. RowsApart(m, m, {}, {})
      BY <1>2 DEF Begin, RowsApart
    <2>2. pending[r] = {} /\ flushed[r] = {}
      BY <1>2 DEF Begin, SeedingIInv, Resting
    <2>3. QED
      BY <1>2, <2>1, <2>2 DEF Begin, RowsDiffer, SeedingIInv, TypeOK
  <1>3. ASSUME NEW r \in Runs, NEW rec \in todo[r], Skip(r, rec) PROVE RowsDiffer'
    <2>1. RowsApart(manifest[r], todo[r] \ {rec}, pending[r], flushed[r])
      BY DEF RowsDiffer, RowsApart
    <2>2. QED
      BY <1>3, <2>1 DEF Skip, Done, RowsDiffer, SeedingIInv, TypeOK
  <1>4. ASSUME NEW r \in Runs, Flush(r) PROVE RowsDiffer'
    <2>1. RowsApart(manifest[r], todo[r], {}, flushed[r] \union pending[r])
      BY DEF RowsDiffer, RowsApart
    <2>2. QED
      BY <1>4, <2>1 DEF Flush, RowsDiffer, SeedingIInv, TypeOK
  <1>5. ASSUME NEW r \in Runs, End(r) PROVE RowsDiffer'
    <2>1. RowsApart({}, {}, {}, {})
      BY DEF RowsApart, Valid
    <2>2. QED
      BY <1>5, <2>1 DEF End, RowsDiffer, SeedingIInv, TypeOK
  <1>6. ASSUME NEW r \in Runs, RunStep(r) PROVE RowsDiffer'
    BY <1>2, <1>3, <1>4, <1>5, <1>6, CreateKeepsApart DEF RunStep, Conflict, Commit, Abort
  <1>7. CASE Administration
    BY <1>1, <1>7, AdministrationChanges DEF Change, run
  <1>8. CASE UNCHANGED vars
    BY <1>1, <1>8 DEF vars
  <1>9. QED
    BY <1>6, <1>7, <1>8, NextCases

\* A run that is refused conflicts with a stored record, or with another one of
\* its own that also asked to be selected: keys, names and ranks that repeat
\* are found in the manifest (ConflictIsWithStored).
THEOREM ConflictsAreWithStored == Spec => ConflictIsWithStored
  <1>1. ASSUME RowsDiffer, NEW r \in Runs, Conflict(r), ~Clashes(pending[r], table)
        PROVE  BothSelected(pending[r])
    <2>1. PICK a \in pending[r], b \in flushed[r] \union pending[r] :
             Clash(a, b) /\ (b \in flushed[r] \/ a # b)
      <3>1. CASE Clashes(pending[r], Visible(r))
        BY <1>1, <3>1 DEF Visible, Clashes
      <3>2. CASE \E a \in pending[r] : Clashes({a}, pending[r] \ {a})
        BY <3>2 DEF Clashes
      <3>3. QED
        BY <1>1, <3>1, <3>2 DEF Conflict, Refused
    <2>2. a.key # b.key
      BY <1>1, <2>1 DEF RowsDiffer, RowsApart
    <2>3. PICK x \in manifest[r], y \in manifest[r] : MadeOf(a, x) /\ MadeOf(b, y)
      BY <1>1, <2>1 DEF RowsDiffer, RowsApart
    <2>4. x # y
      BY <2>2, <2>3 DEF MadeOf
    <2>5. a.selected /\ b.selected
      BY <1>1, <2>1, <2>2, <2>3, <2>4 DEF RowsDiffer, RowsApart, Valid, MadeOf, Clash
    <2>6. b \in pending[r]
      BY <1>1, <2>1, <2>5 DEF RowsDiffer, RowsApart
    <2>7. QED
      BY <2>2, <2>5, <2>6 DEF BothSelected
  <1>2. RowsDiffer =>
          \A r \in Runs : Conflict(r) => Clashes(pending[r], table) \/ BothSelected(pending[r])
    BY <1>1
  <1>3. Init => RowsDiffer
    BY DEF Init, RowsDiffer, RowsApart, Valid
  <1>4. Spec => []RowsDiffer
    BY <1>3, SeedingInvariance, NextKeepsApart, PTL DEF Spec
  <1>5. QED
    BY <1>2, <1>4, PTL DEF Spec, ConflictIsWithStored

-----------------------------------------------------------------------------
(* SchemaUpgrade.                                                          *)

\* Every row is one that the application of this revision stores, or one that
\* a migration made of such a row: more than the constraints ask.
SchemaIInv ==
    /\ SchemaTypeOK
    /\ MigrationsFit
    /\ \A c \in Contacts : ContactStored(revision, contacts[c])
    /\ \A m \in Metrics : MetricStored(revision, metrics[m])

\* 0005 makes of each submission one that the application of revision 5 stores.
LEMMA ContactUpIsStored ==
  ASSUME NEW row \in Contact, ContactStored(4, row)
  PROVE  /\ ContactUp(row) \in Contact
         /\ ContactStored(5, ContactUp(row))
  <1>1. row.outbox = Null /\ row.notice \in {"pending", "disabled", "sent", "failed"}
    BY DEF ContactStored, ContactFits
  <1>2. ASSUME NEW o \in Outbox PROVE o # Null
    BY SchemaAssumption
  <1>3. CASE row.notice = "pending"
    <2>1. [status |-> "pending", attempts |-> 0] \in Outbox
      BY DEF Outbox
    <2>2. ContactUp(row) = [notice |-> "pending", outbox |-> [status |-> "pending", attempts |-> 0]]
      BY <1>3 DEF ContactUp, Contact
    <2>3. QED
      BY <1>2, <2>1, <2>2 DEF Contact, ContactStored, ContactFits, Due
  <1>4. CASE row.notice = "failed"
    <2>1. [status |-> "retrying", attempts |-> 1] \in Outbox
      BY DEF Outbox
    <2>2. ContactUp(row) = [notice |-> "retrying", outbox |-> [status |-> "retrying", attempts |-> 1]]
      BY <1>4 DEF ContactUp
    <2>3. QED
      BY <1>2, <2>1, <2>2 DEF Contact, ContactStored, ContactFits, Due
  <1>5. CASE row.notice \in {"disabled", "sent"}
    <2>1. ContactUp(row) = row
      BY <1>5 DEF ContactUp
    <2>2. QED
      BY <1>1, <1>5, <2>1 DEF ContactStored, ContactFits
  <1>6. QED
    BY <1>1, <1>3, <1>4, <1>5

\* Taking 0005 down makes of each submission one of revision 4.
LEMMA ContactDownIsStored ==
  ASSUME NEW row \in Contact, ContactStored(5, row)
  PROVE  /\ ContactDown(row) \in Contact
         /\ ContactStored(4, ContactDown(row))
  BY DEF ContactDown, Contact, ContactStored, ContactFits

\* The same for the metrics: what 0005 makes of a row.
LEMMA MetricUpIsStored ==
  ASSUME NEW row \in Metric
  PROVE  /\ MetricUp(row) \in Metric
         /\ MetricStored(5, MetricUp(row))
  <1> DEFINE evidence == [kind |-> "document_reference", url |-> Null, media |-> Null,
                          text |-> "text", public |-> FALSE, label |-> Null]
  <1>1. evidence \in Evidence /\ evidence # Null
    <2>1. evidence \in Evidence
      BY DEF Evidence, Text
    <2> HIDE DEF evidence
    <2>2. QED
      BY <2>1, SchemaAssumption
  <1>2. Null # "text" /\ Null # "blank"
    BY SchemaAssumption
  <1>3. /\ EvidenceFits(evidence)
        /\ {evidence.url, evidence.media, evidence.text} \subseteq {Null, "text"}
        /\ evidence.label \in {Null, "text"}
    BY <1>2 DEF EvidenceFits
  <1> DEFINE after == MetricUp(row)
  <1>4. /\ after.approved = FALSE /\ after.hash = Null /\ after.approver = Null
        /\ after.reference = Null /\ after.evidence \in {evidence, Null}
        /\ after \in Metric
    BY <1>1 DEF MetricUp, Metric, Text
  <1> HIDE DEF after, evidence
  <1>5. MetricFits(5, after)
    BY <1>3, <1>4 DEF MetricFits
  <1>6. MetricStored(5, after)
    BY <1>2, <1>3, <1>4, <1>5 DEF MetricStored
  <1>7. QED
    BY <1>4, <1>6 DEF after

\* And what taking 0005 down makes of it.
LEMMA MetricDownIsStored ==
  ASSUME NEW row \in Metric, MetricStored(5, row)
  PROVE  /\ MetricDown(row) \in Metric
         /\ MetricStored(4, MetricDown(row))
  <1> DEFINE after == MetricDown(row)
  <1>1. /\ after.approved = row.approved /\ after.hash = Null /\ after.approver = Null
        /\ after.evidence = Null
        /\ after.reference = IF row.evidence = Null THEN Null ELSE "text"
        /\ after \in Metric
    BY DEF MetricDown, Metric, Text
  <1>2. row.approved => row.evidence # Null
    BY DEF MetricStored
  <1> HIDE DEF after
  <1>3. MetricFits(4, after)
    BY <1>1, <1>2 DEF MetricFits
  <1>4. MetricStored(4, after)
    BY <1>1, <1>3, SchemaAssumption DEF MetricStored
  <1>5. QED
    BY <1>1, <1>4 DEF after

\* What the application of one revision stores, that of the next one stores
\* too, and back, between 5 and 6.
LEMMA StoredOfFiveAndSix ==
  ASSUME NEW row
  PROVE  /\ ContactStored(5, row) <=> ContactStored(6, row)
         /\ MetricStored(5, row) <=> MetricStored(6, row)
  BY DEF ContactStored, ContactFits, MetricStored, MetricFits

\* A button that 0006 has repaired has a label if and only if it has an address.
LEMMA ButtonUpFits ==
  ASSUME NEW row \in Button
  PROVE  ButtonUp(row) \in Button /\ ButtonFits(6, ButtonUp(row))
  BY SchemaAssumption DEF Button, ButtonUp, ButtonFits, Text

\* With one keeper of each rank, ranks are unique.
LEMMA RanksDownFit ==
  ASSUME SchemaTypeOK, NEW K \in Keepers
  PROVE  /\ RanksDown(K) \in [Projects -> Project]
         /\ ProjectsFit(4, RanksDown(K))
  <1>1. ASSUME NEW p \in Projects
        PROVE  /\ RanksDown(K)[p] \in Project
               /\ p \in K => RanksDown(K)[p].rank = projects[p].rank
               /\ p \notin K => RanksDown(K)[p].rank = 0
    BY SchemaAssumption DEF RanksDown, Project, SchemaTypeOK
  <1>2. RanksDown(K) \in [Projects -> Project]
    BY <1>1 DEF RanksDown
  <1>3. ProjectsFit(4, RanksDown(K))
    BY <1>1 DEF ProjectsFit, Keepers
  <1>4. QED
    BY <1>2, <1>3

\* Every migration leaves what its revision asks.
LEMMA MigratePreserves == SchemaIInv /\ Migrate => SchemaIInv'
  <1> SUFFICES ASSUME SchemaIInv, Migrate PROVE SchemaIInv'
    OBVIOUS
  <1>1. CASE Upgrade5
    <2>1. /\ \A c \in Contacts : contacts'[c] \in Contact /\ ContactStored(5, contacts'[c])
          /\ \A m \in Metrics : metrics'[m] \in Metric /\ MetricStored(5, metrics'[m])
      BY <1>1, ContactUpIsStored, MetricUpIsStored DEF Upgrade5, SchemaIInv, SchemaTypeOK
    <2>2. /\ menu' \in [Items -> Locations] /\ \A i \in Items : ItemFits(5, menu'[i])
          /\ ProjectsFit(5, projects) /\ \A b \in Buttons : ButtonFits(5, buttons[b])
      BY <1>1
      DEF Upgrade5, ItemUp, ItemFits, Locations, ProjectsFit, ButtonFits, SchemaIInv, MigrationsFit,
          SchemaTypeOK
    <2>3. QED
      BY <1>1, <2>1, <2>2
      DEF Upgrade5, SchemaIInv, SchemaTypeOK, MigrationsFit, ContactStored, MetricStored
  <1>2. CASE Downgrade5
    <2>1. /\ \A c \in Contacts : contacts'[c] \in Contact /\ ContactStored(4, contacts'[c])
          /\ \A m \in Metrics : metrics'[m] \in Metric /\ MetricStored(4, metrics'[m])
      BY <1>2, ContactDownIsStored, MetricDownIsStored DEF Downgrade5, SchemaIInv, SchemaTypeOK
    <2>2. projects' \in [Projects -> Project] /\ ProjectsFit(4, projects')
      BY <1>2, RanksDownFit DEF Downgrade5, SchemaIInv
    <2>3. QED
      BY <1>2, <2>1, <2>2
      DEF Downgrade5, SchemaIInv, SchemaTypeOK, MigrationsFit, ContactStored, MetricStored,
          ButtonFits, ItemFits
  <1>3. CASE Upgrade6
    <2>1. \A b \in Buttons : buttons'[b] \in Button /\ ButtonFits(6, buttons'[b])
      BY <1>3, ButtonUpFits DEF Upgrade6, SchemaIInv, SchemaTypeOK
    <2>2. QED
      BY <1>3, <2>1, StoredOfFiveAndSix
      DEF Upgrade6, SchemaIInv, SchemaTypeOK, MigrationsFit, ContactStored, MetricStored,
          ProjectsFit, ItemFits
  <1>4. CASE Downgrade6
    BY <1>4, StoredOfFiveAndSix
    DEF Downgrade6, tables, SchemaIInv, SchemaTypeOK, MigrationsFit, ContactStored, MetricStored,
        ProjectsFit, ButtonFits, ItemFits
  <1>5. QED
    BY <1>1, <1>2, <1>3, <1>4 DEF Migrate

\* What the application stores meets the constraints.
LEMMA StorePreserves == SchemaIInv /\ Store => SchemaIInv'
  <1> SUFFICES ASSUME SchemaIInv, Store PROVE SchemaIInv'
    OBVIOUS
  <1> USE DEF SchemaIInv, SchemaTypeOK, MigrationsFit
  <1>1. ASSUME NEW c \in Contacts, NEW row \in Contact, StoreContact(c, row) PROVE SchemaIInv'
    <2>1. \A d \in Contacts : contacts'[d] \in {row, contacts[d]}
      BY <1>1 DEF StoreContact
    <2>2. QED
      BY <1>1, <2>1 DEF StoreContact, ContactStored
  <1>2. ASSUME NEW m \in Metrics, NEW row \in Metric, StoreMetric(m, row) PROVE SchemaIInv'
    <2>1. \A n \in Metrics : metrics'[n] \in {row, metrics[n]}
      BY <1>2 DEF StoreMetric
    <2>2. QED
      BY <1>2, <2>1 DEF StoreMetric, MetricStored
  <1>3. ASSUME NEW p \in Projects, NEW row \in Project, StoreProject(p, row) PROVE SchemaIInv'
    BY <1>3 DEF StoreProject
  <1>4. ASSUME NEW b \in Buttons, NEW row \in Button, StoreButton(b, row) PROVE SchemaIInv'
    <2>1. \A d \in Buttons : buttons'[d] \in {row, buttons[d]}
      BY <1>4 DEF StoreButton
    <2>2. QED
      BY <1>4, <2>1 DEF StoreButton
  <1>5. ASSUME NEW i \in Items, NEW location \in Locations, StoreItem(i, location)
        PROVE  SchemaIInv'
    <2>1. \A j \in Items : menu'[j] = menu[j] \/ menu'[j] = location
      BY <1>5 DEF StoreItem
    <2>2. QED
      BY <1>5, <2>1 DEF StoreItem
  <1>6. QED
    BY <1>1, <1>2, <1>3, <1>4, <1>5 DEF Store

\* Between migrations and writes every table stays as its revision has it.
LEMMA SchemaInvariance == SchemaSpec => []SchemaIInv
  <1>1. SchemaInit => SchemaIInv
    <2> SUFFICES ASSUME SchemaInit PROVE SchemaIInv
      OBVIOUS
    <2>1. SchemaTypeOK
      BY SchemaAssumption
      DEF SchemaInit, SchemaTypeOK, Contact, Metric, Project, Button, Locations, Text
    <2>2. MigrationsFit
      BY DEF SchemaInit, MigrationsFit, ContactFits, MetricFits, ProjectsFit, ButtonFits, ItemFits
    <2>3. \A c \in Contacts : ContactStored(4, contacts[c])
      BY DEF SchemaInit, ContactStored, ContactFits
    <2>4. \A m \in Metrics : MetricStored(4, metrics[m])
      BY SchemaAssumption DEF SchemaInit, MetricStored, MetricFits
    <2>5. QED
      BY <2>1, <2>2, <2>3, <2>4 DEF SchemaInit, SchemaIInv
  <1>2. SchemaIInv /\ UNCHANGED schemaVars => SchemaIInv'
    BY DEF schemaVars, tables, SchemaIInv, SchemaTypeOK, MigrationsFit
  <1>3. QED
    BY <1>1, <1>2, MigratePreserves, StorePreserves, PTL DEF SchemaSpec, SchemaNext

\* No migration, up or down, fails on what the application has stored, and the
\* worker of the outbox finds what the submissions say is to be sent.
THEOREM SchemaAlwaysFits == SchemaSpec => []SchemaFits
  <1>1. SchemaIInv => DeliveryAgrees
    <2> SUFFICES ASSUME SchemaIInv, revision > 4, NEW c \in Contacts
                 PROVE  Due(contacts[c]) <=> contacts[c].notice \in {"pending", "failed", "retrying"}
      BY DEF DeliveryAgrees
    <2>1. QED
      BY DEF SchemaIInv, ContactStored, Due
  <1>2. QED
    BY <1>1, SchemaInvariance, PTL DEF SchemaIInv, SchemaFits

\* Migrations keep the notifications that are to be sent or were, whatever an
\* approval rested on, and the rank of every project that visitors see.
THEOREM MigrationsKeepData == SchemaSpec => MigrationsLoseNothing
  <1> DEFINE Pending(row) == row.notice \in {"pending", "failed", "retrying"}
             Named(row) == row.reference = "text" \/ row.evidence # Null
             Notices == Migrate => \A c \in Contacts :
                            /\ Pending(contacts[c]) => Pending(contacts'[c])
                            /\ contacts[c].notice \in {"sent", "disabled"} =>
                                  contacts'[c].notice = contacts[c].notice
             References == Migrate => \A m \in Metrics : Named(metrics[m]) => Named(metrics'[m])
             Shown == Migrate => \A p \in Projects :
                            projects[p].active => projects'[p].rank = projects[p].rank
  <1>1. ASSUME SchemaIInv, Migrate, NEW c \in Contacts
        PROVE  /\ Pending(contacts[c]) => Pending(contacts'[c])
               /\ contacts[c].notice \in {"sent", "disabled"} =>
                     contacts'[c].notice = contacts[c].notice
    <2>1. CASE Upgrade5
      BY <2>1 DEF Upgrade5, ContactUp
    <2>2. CASE Downgrade5
      BY <2>2 DEF Downgrade5, ContactDown
    <2>3. QED
      BY <1>1, <2>1, <2>2 DEF Migrate, Upgrade6, Downgrade6, tables
  <1>2. ASSUME SchemaIInv, Migrate, NEW m \in Metrics, Named(metrics[m])
        PROVE  Named(metrics'[m])
    <2>1. CASE Upgrade5
      <3>1. metrics[m].reference = "text"
        BY <1>2, <2>1 DEF Upgrade5, SchemaIInv, MetricStored, MetricFits
      <3>2. metrics'[m].evidence = [kind |-> "document_reference", url |-> Null, media |-> Null,
                                    text |-> "text", public |-> FALSE, label |-> Null]
        BY <2>1, <3>1 DEF Upgrade5, MetricUp
      <3>3. metrics'[m].evidence \in Evidence
        BY <3>2 DEF Evidence, Text
      <3>4. QED
        BY <3>3, SchemaAssumption
    <2>2. CASE Downgrade5
      <3>1. metrics[m].evidence # Null /\ metrics[m] \in Metric
        BY <1>2, <2>2, SchemaAssumption
        DEF Downgrade5, SchemaIInv, SchemaTypeOK, MetricStored, MetricFits
      <3>2. metrics'[m].reference = "text"
        BY <2>2, <3>1 DEF Downgrade5, MetricDown, Metric
      <3>3. QED
        BY <3>2
    <2>3. QED
      BY <1>2, <2>1, <2>2 DEF Migrate, Upgrade6, Downgrade6, tables
  <1>3. ASSUME SchemaIInv, Migrate, NEW p \in Projects, projects[p].active
        PROVE  projects'[p].rank = projects[p].rank
    <2>1. CASE Downgrade5
      <3>1. PICK K \in Keepers : projects' = RanksDown(K)
        BY <2>1 DEF Downgrade5
      <3>2. projects[p] \in Project
        BY <1>3 DEF SchemaIInv, SchemaTypeOK
      <3>3. CASE p \in K
        BY <3>1, <3>3 DEF RanksDown
      <3>4. CASE p \notin K
        <4>1. projects'[p].rank = 0
          BY <3>1, <3>2, <3>4 DEF RanksDown, Project
        <4>2. PICK q \in K : projects[p].rank = projects[q].rank /\ ~Outranks(p, q)
          BY DEF Keepers
        <4>3. q \in Projects /\ projects[q].active
          BY <1>3, <4>2 DEF Keepers, Outranks
        <4>4. projects[p].rank = 0
          BY <1>3, <2>1, <3>2, <3>4, <4>2, <4>3, SchemaAssumption
          DEF Downgrade5, SchemaIInv, MigrationsFit, ProjectsFit, Project
        <4>5. QED
          BY <4>1, <4>4
      <3>5. QED
        BY <3>3, <3>4
    <2>2. QED
      BY <1>3, <2>1 DEF Migrate, Upgrade5, Upgrade6, Downgrade6, tables
  <1> HIDE DEF Pending, Named
  <1>4. SchemaIInv => Notices /\ References /\ Shown
    BY <1>1, <1>2, <1>3
  <1> HIDE DEF Notices, References, Shown
  <1>5. SchemaSpec => [][Notices]_schemaVars /\ [][References]_schemaVars /\ [][Shown]_schemaVars
    BY <1>4, SchemaInvariance, PTL
  <1>6. QED
    BY <1>5
    DEF MigrationsLoseNothing, NoticesSurvive, ReferencesSurvive, ActiveKeepsRank,
        Notices, References, Shown, Pending, Named

-----------------------------------------------------------------------------
(* SeedImport: dates.                                                      *)

DateTexts == Nat \X Nat \X Nat

\* The last day of a month exists, and no month is longer than December.
LEMMA MonthLengths ==
  ASSUME NEW y \in Nat, NEW m \in 1..12
  PROVE  MonthLength(y, m) \in 28..31 /\ MonthLength(y, 12) = 31
  BY DEF MonthLength

\* What a readable text means is a day of the calendar.
LEMMA DatesAreReadable ==
  ASSUME NEW text \in DateTexts, Readable(text), NEW end \in BOOLEAN
  PROVE  Readable(Date(text, end)) /\ Date(text, end) \in DateTexts
  <1>1. CASE text = NoDate \/ text[3] > 0
    BY <1>1 DEF Date
  <1>2. CASE ~(text = NoDate \/ text[3] > 0)
    <2> DEFINE month == IF text[2] > 0 THEN text[2] ELSE IF end THEN 12 ELSE 1
               day == IF end THEN MonthLength(text[1], month) ELSE 1
    <2>1. /\ text[1] \in Nat /\ text[1] > 0 /\ text[2] \in 0..12 /\ text[3] = 0
      BY <1>2 DEF Readable, DateTexts
    <2>2. month \in 1..12
      BY <2>1
    <2>3. MonthLength(text[1], month) \in 28..31
      <3> HIDE DEF month
      <3> QED BY <2>1, <2>2, MonthLengths
    <2>4. day \in 1..31 /\ day \in 0..MonthLength(text[1], month)
      BY <2>3
    <2>5. Date(text, end) = <<text[1], month, day>>
      BY <1>2 DEF Date
    <2> HIDE DEF month, day
    <2>6. <<text[1], month, day>> \in DateTexts
      BY <2>1, <2>2, <2>4 DEF DateTexts
    <2> QED BY <2>1, <2>2, <2>4, <2>5, <2>6 DEF Readable
  <1> QED BY <1>1, <1>2

\* Days are ordered.
LEMMA PrecedesIsTransitive ==
  ASSUME NEW a \in DateTexts, NEW b \in DateTexts, NEW c \in DateTexts
  PROVE  /\ ~Precedes(b, a) /\ Precedes(b, c) => Precedes(a, c)
         /\ Precedes(a, b) /\ ~Precedes(c, b) => Precedes(a, c)
  BY DEF Precedes, DateTexts

\* The first and the last day that a text can mean.
LEMMA DatesAreExtreme ==
  ASSUME NEW text \in DateTexts, Readable(text), text # NoDate, NEW day \in Days(text)
  PROVE  /\ day \in DateTexts
         /\ ~Precedes(day, Date(text, FALSE)) /\ ~Precedes(Date(text, TRUE), day)
  <1>1. PICK y \in Nat, m \in Nat, n \in Nat : text = <<y, m, n>>
    BY DEF DateTexts
  <1>2. /\ m \in 0..12 /\ (m = 0 => n = 0)
        /\ text[1] = y /\ text[2] = m /\ text[3] = n
    BY <1>1 DEF Readable
  <1>3. PICK e \in 1..12, f \in 1..31 :
          /\ day = <<y, e, f>> /\ m \in {0, e} /\ n \in {0, f} /\ f <= MonthLength(y, e)
    BY <1>1 DEF Days
  <1>4. MonthLength(y, e) \in 28..31 /\ MonthLength(y, 12) = 31
    BY MonthLengths
  <1>5. day \in DateTexts
    BY <1>3 DEF DateTexts
  <1>6. CASE n > 0
    <2>1. Date(text, FALSE) = day /\ Date(text, TRUE) = day
      BY <1>1, <1>2, <1>3, <1>6 DEF Date
    <2>2. ~Precedes(day, day)
      BY <1>3 DEF Precedes
    <2> QED BY <1>5, <2>1, <2>2
  <1>7. CASE n = 0 /\ m = 0
    <2>1. Date(text, FALSE) = <<y, 1, 1>> /\ Date(text, TRUE) = <<y, 12, 31>>
      BY <1>1, <1>2, <1>4, <1>7 DEF Date
    <2>2. ~Precedes(<<y, e, f>>, <<y, 1, 1>>) /\ ~Precedes(<<y, 12, 31>>, <<y, e, f>>)
      BY DEF Precedes
    <2> QED BY <1>3, <1>5, <2>1, <2>2
  <1>8. CASE n = 0 /\ m = e
    <2> DEFINE length == MonthLength(y, e)
    <2>1. Date(text, FALSE) = <<y, e, 1>> /\ Date(text, TRUE) = <<y, e, length>>
      BY <1>1, <1>2, <1>8 DEF Date
    <2>2. f <= length /\ length \in 28..31
      BY <1>3, <1>4
    <2> HIDE DEF length
    <2>3. ~Precedes(<<y, e, f>>, <<y, e, 1>>) /\ ~Precedes(<<y, e, length>>, <<y, e, f>>)
      BY <2>2 DEF Precedes
    <2> QED BY <1>3, <1>5, <2>1, <2>3
  <1>9. n > 0 \/ (n = 0 /\ m = 0) \/ (n = 0 /\ m = e)
    BY <1>3
  <1> QED BY <1>6, <1>7, <1>8, <1>9

\* A period that is in order in some reading of its texts is in order.
LEMMA PeriodStaysInOrder ==
  ASSUME NEW start \in DateTexts, NEW end \in DateTexts, Readable(start), Readable(end)
  PROVE  \/ InOrder(Date(start, FALSE), Date(end, TRUE))
         \/ \A d \in Days(start), e \in Days(end) : Precedes(e, d)
  <1>1. CASE start = NoDate \/ end = NoDate
    BY <1>1 DEF InOrder, Date
  <1>2. CASE start # NoDate /\ end # NoDate
    <2> SUFFICES ASSUME Precedes(Date(end, TRUE), Date(start, FALSE)),
                        NEW d \in Days(start), NEW e \in Days(end)
                 PROVE  Precedes(e, d)
      BY DEF InOrder
    <2>1. d \in DateTexts /\ ~Precedes(d, Date(start, FALSE))
      BY <1>2, DatesAreExtreme
    <2>2. e \in DateTexts /\ ~Precedes(Date(end, TRUE), e)
      BY <1>2, DatesAreExtreme
    <2>3. Date(start, FALSE) \in DateTexts /\ Date(end, TRUE) \in DateTexts
      BY DatesAreReadable
    <2>4. Precedes(e, Date(start, FALSE))
      BY <2>2, <2>3, PrecedesIsTransitive
    <2> QED BY <2>1, <2>2, <2>3, <2>4, PrecedesIsTransitive
  <1> QED BY <1>1, <1>2

-----------------------------------------------------------------------------
(* SeedImport: places.                                                     *)

LEMMA OfIsFinite ==
  ASSUME NEW d \in Seq(Entry), NEW lists
  PROVE  Of(d, lists) \subseteq 1..Len(d) /\ IsFiniteSet(Of(d, lists)) /\ Cardinality(Of(d, lists)) \in Nat
  <1>1. Of(d, lists) \subseteq 1..Len(d) /\ Len(d) \in Nat
    BY DEF Of
  <1>2. IsFiniteSet(1..Len(d))
    BY <1>1, FS_Interval
  <1> QED BY <1>1, <1>2, FS_Subset, FS_CardinalityType

LEMMA CountedType ==
  ASSUME NEW d \in Seq(Entry), NEW i \in DOMAIN d
  PROVE  /\ Counted(d, i) \in Nat /\ Counted(d, i) > 0
         /\ Counted(d, i) <= Cardinality(Of(d, {d[i].list}))
  <1> DEFINE own == {j \in Of(d, {d[i].list}) : j <= i}
  <1>1. IsFiniteSet(own) /\ Cardinality(own) <= Cardinality(Of(d, {d[i].list}))
    BY OfIsFinite, FS_Subset
  <1>2. Cardinality(own) \in Nat
    BY <1>1, FS_CardinalityType
  <1>3. i \in own
    BY DEF Of
  <1> HIDE DEF own
  <1>4. Cardinality(own) # 0
    BY <1>1, <1>3, FS_EmptySet
  <1> QED BY <1>1, <1>2, <1>4 DEF Counted, own

\* Entries of a list are counted one by one.
LEMMA CountedGrows ==
  ASSUME NEW d \in Seq(Entry), NEW i \in DOMAIN d, NEW j \in DOMAIN d,
         d[i].list = d[j].list, i < j
  PROVE  Counted(d, i) # Counted(d, j)
  <1> DEFINE fewer == {k \in Of(d, {d[i].list}) : k <= i}
             more == {k \in Of(d, {d[i].list}) : k <= j}
  <1>1. IsFiniteSet(more)
    BY OfIsFinite, FS_Subset
  <1>2. fewer \subseteq more /\ j \in more /\ j \notin fewer
    BY DEF Of
  <1>3. Counted(d, i) = Cardinality(fewer) /\ Counted(d, j) = Cardinality(more)
    BY DEF Counted
  <1> HIDE DEF fewer, more
  <1> QED BY <1>1, <1>2, <1>3, FS_Subset

LEMMA PlaceType ==
  ASSUME NEW d \in Seq(Entry), NEW i \in DOMAIN d
  PROVE  Place(d, i) \in Nat
  <1>1. Counted(d, i) \in Nat
    BY CountedType
  <1>2. Cardinality(Of(d, {"work"})) \in Nat
    BY OfIsFinite
  <1> QED BY <1>1, <1>2 DEF Place

\* The entries of a list have places of their own, and voluntary work has
\* others than work.
LEMMA PlacesDiffer ==
  ASSUME NEW d \in Seq(Entry), NEW i \in DOMAIN d, NEW j \in DOMAIN d, Place(d, i) = Place(d, j),
         d[i].list = d[j].list \/ {d[i].list, d[j].list} = {"work", "volunteer"}
  PROVE  i = j
  <1>1. CASE d[i].list = d[j].list
    <2>1. Counted(d, i) = Counted(d, j)
      <3>1. Counted(d, i) \in Nat /\ Counted(d, j) \in Nat
        BY CountedType
      <3>2. Cardinality(Of(d, {"work"})) \in Nat
        BY OfIsFinite
      <3> QED BY <1>1, <3>1, <3>2 DEF Place
    <2>2. i \in Int /\ j \in Int
      OBVIOUS
    <2> QED BY <1>1, <2>1, <2>2, CountedGrows
  <1>2. ASSUME NEW k \in DOMAIN d, NEW l \in DOMAIN d, d[k].list = "work", d[l].list = "volunteer"
        PROVE  Place(d, k) # Place(d, l)
    <2>1. /\ Counted(d, k) \in Nat /\ Counted(d, l) \in Nat /\ Counted(d, l) > 0
          /\ Counted(d, k) <= Cardinality(Of(d, {"work"}))
      BY <1>2, CountedType
    <2>2. Cardinality(Of(d, {"work"})) \in Nat
      BY OfIsFinite
    <2>3. Place(d, k) = Counted(d, k) /\ Place(d, l) = Cardinality(Of(d, {"work"})) + Counted(d, l)
      BY <1>2 DEF Place
    <2> QED BY <2>1, <2>2, <2>3
  <1>3. CASE d[i].list # d[j].list
    <2>1. \/ d[i].list = "work" /\ d[j].list = "volunteer"
          \/ d[j].list = "work" /\ d[i].list = "volunteer"
      BY <1>3
    <2> QED BY <2>1, <1>2
  <1> QED BY <1>1, <1>3

\* What a list holds.
LEMMA ListingShape ==
  ASSUME NEW d \in Seq(Entry), NEW lists, NEW o \in Listing(d, lists)
  PROVE  /\ o.entry \in Entry /\ o.place \in Nat /\ ~SkippedEntry(o.entry) /\ o.entry.list \in lists
         /\ \E i \in DOMAIN d : o = Listed(d[i], Place(d, i)) /\ o.entry = d[i] /\ o.place = Place(d, i)
  <1>1. PICK i \in Of(d, lists) : ~SkippedEntry(d[i]) /\ o = Listed(d[i], Place(d, i))
    BY DEF Listing
  <1>2. o.entry = d[i] /\ o.place = Place(d, i)
    BY <1>1 DEF Listed
  <1>3. i \in DOMAIN d /\ d[i] \in Entry /\ d[i].list \in lists
    BY DEF Of
  <1> QED BY <1>1, <1>2, <1>3, PlaceType

LEMMA ListingPlacesDiffer ==
  ASSUME NEW d \in Seq(Entry), NEW lists,
         \A k, l \in lists : k = l \/ {k, l} = {"work", "volunteer"},
         NEW o \in Listing(d, lists), NEW p \in Listing(d, lists), o.place = p.place
  PROVE  o = p
  <1>1. PICK i \in DOMAIN d : o = Listed(d[i], Place(d, i)) /\ o.entry = d[i] /\ o.place = Place(d, i)
    BY ListingShape
  <1>2. PICK j \in DOMAIN d : p = Listed(d[j], Place(d, j)) /\ p.entry = d[j] /\ p.place = Place(d, j)
    BY ListingShape
  <1>3. d[i].list \in lists /\ d[j].list \in lists
    BY <1>1, <1>2, ListingShape
  <1>4. i = j
    BY <1>1, <1>2, <1>3, PlacesDiffer
  <1> QED BY <1>1, <1>2, <1>4

-----------------------------------------------------------------------------
(* SeedImport: skills.                                                     *)

LEMMA MentionShape ==
  ASSUME NEW d \in Seq(Entry), NEW m \in Mentions(d)
  PROVE  \E i \in DOMAIN d, k \in Nat :
           /\ m = <<i, k>> /\ m[1] = i /\ m[2] = k
           /\ d[i].list \in {"skills", "projects"}
           /\ \/ k > 0 /\ k \in DOMAIN d[i].keywords
              \/ k = 0 /\ d[i].list = "skills" /\ d[i].keywords = <<>>
  <1>1. ASSUME NEW i \in Of(d, {"skills", "projects"}), NEW k \in DOMAIN d[i].keywords
        PROVE  k \in Nat /\ k > 0 /\ i \in DOMAIN d /\ d[i].list \in {"skills", "projects"}
    <2>1. i \in DOMAIN d /\ d[i] \in Entry /\ d[i].list \in {"skills", "projects"}
      BY DEF Of
    <2>2. d[i].keywords \in Seq(Texts)
      BY <2>1 DEF Entry
    <2> QED BY <2>1, <2>2
  <1>2. CASE \E i \in Of(d, {"skills", "projects"}) : \E k \in DOMAIN d[i].keywords : m = <<i, k>>
    BY <1>1, <1>2
  <1>3. CASE \E i \in Of(d, {"skills"}) : d[i].keywords = <<>> /\ m = <<i, 0>>
    BY <1>3 DEF Of
  <1> QED BY <1>2, <1>3 DEF Mentions

\* Of two mentions one is earlier.
LEMMA MentionsAreOrdered ==
  ASSUME NEW d \in Seq(Entry), NEW m \in Mentions(d), NEW n \in Mentions(d), m # n
  PROVE  Earlier(d, m, n) \/ Earlier(d, n, m)
  <1>1. PICK i \in DOMAIN d, k \in Nat :
          m = <<i, k>> /\ m[1] = i /\ m[2] = k /\ d[i].list \in {"skills", "projects"}
    BY MentionShape
  <1>2. PICK j \in DOMAIN d, l \in Nat :
          n = <<j, l>> /\ n[1] = j /\ n[2] = l /\ d[j].list \in {"skills", "projects"}
    BY MentionShape
  <1>3. i # j \/ k # l
    BY <1>1, <1>2
  <1>4. i \in Int /\ j \in Int
    OBVIOUS
  <1>5. /\ Earlier(d, m, n) <=> \/ (d[i].list = "skills" /\ d[j].list = "projects")
                               \/ (d[i].list = d[j].list /\ (i < j \/ (i = j /\ k < l)))
        /\ Earlier(d, n, m) <=> \/ (d[j].list = "skills" /\ d[i].list = "projects")
                               \/ (d[i].list = d[j].list /\ (j < i \/ (i = j /\ l < k)))
    BY <1>1, <1>2 DEF Earlier
  <1> QED BY <1>1, <1>2, <1>3, <1>4, <1>5

\* No two skills have names that fold to the same.
LEMMA SkillsDiffer ==
  ASSUME NEW d \in Seq(Entry), NEW m \in NewSkills(d), NEW n \in NewSkills(d),
         Folded[Said(d, m)] = Folded[Said(d, n)]
  PROVE  m = n
  BY MentionsAreOrdered DEF NewSkills

LEMMA IndexesAreFinite ==
  ASSUME NEW S, NEW s \in Seq(S)
  PROVE  IsFiniteSet(DOMAIN s)
  <1> DEFINE n == Len(s)
  <1>1. DOMAIN s = 1..n /\ n \in Nat
    OBVIOUS
  <1> HIDE DEF n
  <1>2. IsFiniteSet(1..n)
    BY <1>1, FS_Interval
  <1> QED BY <1>1, <1>2

LEMMA MentionsAreFinite ==
  ASSUME NEW d \in Seq(Entry)
  PROVE  IsFiniteSet(Mentions(d))
  <1> DEFINE words(i) == {<<i, k>> : k \in DOMAIN d[i].keywords}
             sources == Of(d, {"skills", "projects"})
             bare == {j \in Of(d, {"skills"}) : d[j].keywords = <<>>}
             all == {words(i) : i \in sources}
             names == {<<i, 0>> : i \in bare}
  <1>1. ASSUME NEW i \in sources PROVE IsFiniteSet(words(i))
    <2>1. d[i].keywords \in Seq(Texts)
      <3>1. d[i] \in Entry
        BY DEF Of
      <3> QED BY <3>1 DEF Entry
    <2>3. IsFiniteSet(DOMAIN d[i].keywords)
      BY <2>1, IndexesAreFinite
    <2>4. [k \in DOMAIN d[i].keywords |-> <<i, k>>] \in Surjection(DOMAIN d[i].keywords, words(i))
      BY DEF Surjection
    <2> QED BY <2>3, <2>4, FS_Surjection
  <1>2. IsFiniteSet(all)
    <2>1. [i \in sources |-> words(i)] \in Surjection(sources, all)
      BY DEF Surjection
    <2>2. IsFiniteSet(sources)
      BY OfIsFinite
    <2> HIDE DEF all, sources
    <2> QED BY <2>1, <2>2, FS_Surjection
  <1>3. IsFiniteSet(names)
    <2>1. [i \in bare |-> <<i, 0>>] \in Surjection(bare, names)
      BY DEF Surjection
    <2>2. IsFiniteSet(bare)
      BY OfIsFinite, FS_Subset
    <2> HIDE DEF names, bare
    <2> QED BY <2>1, <2>2, FS_Surjection
  <1>4. IsFiniteSet(UNION all)
    <2>1. \A T \in all : IsFiniteSet(T)
      <3> HIDE DEF words, sources
      <3> QED BY <1>1
    <2> HIDE DEF all
    <2> QED BY <1>2, <2>1, FS_UNION
  <1>5. Mentions(d) = (UNION all) \union names
    BY DEF Mentions
  <1> HIDE DEF all, names
  <1> QED BY <1>3, <1>4, <1>5, FS_Union

LEMMA SkillPlaceType ==
  ASSUME NEW d \in Seq(Entry), NEW m
  PROVE  SkillPlace(d, m) \in Nat
  <1> DEFINE before == {n \in NewSkills(d) : n = m \/ Earlier(d, n, m)}
  <1>1. before \subseteq Mentions(d)
    BY DEF NewSkills
  <1>2. IsFiniteSet(before)
    BY <1>1, MentionsAreFinite, FS_Subset
  <1> QED BY <1>2, FS_CardinalityType DEF SkillPlace

-----------------------------------------------------------------------------
(* SeedImport: records.                                                    *)

\* A record of drafts, with a place in its key and days of the calendar.
RecordOK(x) ==
  /\ x.key[3] \in Nat /\ x.status = "draft"
  /\ Readable(x.start) /\ Readable(x.end)

WellMade(records) == \A o \in DOMAIN records : RecordOK(records[o])

\* The entries of a list can be read.
ListingOK(listing) ==
  \A o \in listing :
      /\ o.place \in Nat
      /\ o.entry.start \in DateTexts /\ Readable(o.entry.start)
      /\ o.entry.end \in DateTexts /\ Readable(o.entry.end)

\* Nothing but a place or a value tells the entries of a list apart.
Apart(listing) ==
  \A o, p \in listing : o.place = p.place /\ Value(o.entry) = Value(p.entry) => o = p

PeriodInOrder(x) == InOrder(Date(x.start, FALSE), Date(x.end, TRUE))

Ordered(listing) == \A o \in listing : PeriodInOrder(o.entry)

\* What validation asks of every group.
Proper(records) ==
  /\ Distinct(records, "key")
  /\ \A o \in DOMAIN records : records[o].status = "draft" /\ InOrder(records[o].start, records[o].end)

LEMMA UndatedRecord ==
  ASSUME NEW key, NEW slug, NEW refs, key[3] \in Nat,
         NEW made, made = SeedRecord(key, slug, refs, NoPeriod)
  PROVE  /\ made.key = key /\ made.slug = slug /\ made.refs = refs
         /\ RecordOK(made) /\ InOrder(made.start, made.end)
  <1>1. Date(NoPeriod.start, FALSE) = NoDate /\ Date(NoPeriod.end, TRUE) = NoDate
    BY DEF NoPeriod, Date
  <1>2. /\ made.key = key /\ made.slug = slug /\ made.refs = refs /\ made.status = "draft"
        /\ made.start = NoDate /\ made.end = NoDate
    BY <1>1 DEF SeedRecord
  <1> QED BY <1>2 DEF RecordOK, Readable, InOrder

\* What a record of a list is, whatever its slug and references.
RecordOf(made, prefix, o) ==
  /\ made.key = <<prefix, Value(o.entry), o.place>> /\ RecordOK(made)
  /\ PeriodInOrder(o.entry) => InOrder(made.start, made.end)

LEMMA ListedRecord ==
  ASSUME NEW listing, ListingOK(listing), NEW o \in listing, NEW prefix, NEW slug, NEW refs,
         NEW made, made = SeedRecord(Key(prefix, Value(o.entry), o.place), slug, refs, o.entry)
  PROVE  RecordOf(made, prefix, o) /\ made.slug = slug /\ made.refs = refs
  <1>1. /\ made.key = <<prefix, Value(o.entry), o.place>>
        /\ made.slug = slug /\ made.refs = refs /\ made.status = "draft"
        /\ made.start = Date(o.entry.start, FALSE) /\ made.end = Date(o.entry.end, TRUE)
    BY DEF SeedRecord, Key
  <1>2. Readable(made.start) /\ Readable(made.end)
    BY <1>1, DatesAreReadable DEF ListingOK
  <1>3. made.key[3] \in Nat
    BY <1>1 DEF ListingOK
  <1> QED BY <1>1, <1>2, <1>3 DEF RecordOK, PeriodInOrder, RecordOf

\* Records that are made of a list.
LEMMA RecordsOfListing ==
  ASSUME NEW listing, ListingOK(listing), NEW prefix, NEW records, DOMAIN records = listing,
         \A o \in listing : RecordOf(records[o], prefix, o)
  PROVE  /\ WellMade(records)
         /\ Apart(listing) /\ Ordered(listing) => Proper(records)
  <1>1. WellMade(records)
    BY DEF WellMade, RecordOf
  <1>2. ASSUME Apart(listing) PROVE Distinct(records, "key")
    BY <1>2 DEF Apart, Distinct, RecordOf
  <1>3. ASSUME Ordered(listing)
        PROVE  \A o \in DOMAIN records :
                   records[o].status = "draft" /\ InOrder(records[o].start, records[o].end)
    BY <1>3 DEF Ordered, RecordOK, RecordOf
  <1> QED BY <1>1, <1>2, <1>3 DEF Proper

LEMMA PlainRecordsMade ==
  ASSUME NEW listing, ListingOK(listing), NEW prefix,
         NEW records, records = PlainRecords(prefix, listing)
  PROVE  /\ WellMade(records)
         /\ Apart(listing) /\ Ordered(listing) => Proper(records)
         /\ DOMAIN records = listing
         /\ \A o \in listing : RecordOf(records[o], prefix, o) /\ records[o].refs = {}
  <1>1. DOMAIN records = listing
    BY DEF PlainRecords
  <1>2. ASSUME NEW o \in listing
        PROVE  RecordOf(records[o], prefix, o) /\ records[o].refs = {}
    <2> DEFINE made == records[o]
    <2>1. made = SeedRecord(Key(prefix, Value(o.entry), o.place), NoSlug, {}, o.entry)
      BY DEF PlainRecords
    <2> HIDE DEF made
    <2>2. RecordOf(made, prefix, o) /\ made.refs = {}
      BY <2>1, ListedRecord
    <2> QED BY <2>2 DEF made
  <1> QED BY <1>1, <1>2, RecordsOfListing

LEMMA NamedRecordsMade ==
  ASSUME NEW listing, ListingOK(listing), NEW prefix, NEW fallback,
         NEW records, records = NamedRecords(prefix, listing, fallback)
  PROVE  /\ WellMade(records)
         /\ Apart(listing) /\ Ordered(listing) => Proper(records)
         /\ SlugsApart(listing) => Distinct(records, "slug")
         /\ DOMAIN records = listing
         /\ \A o \in listing : RecordOf(records[o], prefix, o) /\ records[o].refs = {}
  <1>1. DOMAIN records = listing
    BY DEF NamedRecords
  <1>2. ASSUME NEW o \in listing
        PROVE  /\ RecordOf(records[o], prefix, o) /\ records[o].refs = {}
               /\ records[o].slug = SlugOf(o.entry.name, <<fallback, o.place>>)
    <2> DEFINE made == records[o]
               slug == SlugOf(o.entry.name, <<fallback, o.place>>)
    <2>1. made = SeedRecord(Key(prefix, Value(o.entry), o.place), slug, {}, o.entry)
      BY DEF NamedRecords
    <2> HIDE DEF made, slug
    <2>2. RecordOf(made, prefix, o) /\ made.refs = {} /\ made.slug = slug
      BY <2>1, ListedRecord
    <2> QED BY <2>2 DEF made, slug
  <1>3. ASSUME SlugsApart(listing) PROVE Distinct(records, "slug")
    <2>1. \A o \in listing : records[o].slug = Slug[o.entry.name]
      BY <1>2, <1>3 DEF SlugsApart, SlugOf
    <2> QED BY <1>1, <1>3, <2>1 DEF SlugsApart, Distinct
  <1> QED BY <1>1, <1>2, <1>3, RecordsOfListing

\* Some number of any is the least.
LEMMA LeastNumber ==
  ASSUME NEW S \in SUBSET Nat, S # {}
  PROVE  \E i \in S : \A j \in S : i <= j
  <1> DEFINE R == OpToRel(<, Nat)
  <1>1. PICK i \in S : \A j \in S : ~(<<j, i>> \in R)
    BY NatLessThanWellFounded, WFMin
  <1>2. \A j \in Nat, k \in Nat : j < k => <<j, k>> \in R
    BY DEF OpToRel
  <1> HIDE DEF R
  <1>3. \A j \in S : ~(j < i) /\ j \in Nat
    BY <1>1, <1>2
  <1>4. i \in Nat
    OBVIOUS
  <1>5. \A j \in S : i <= j
    BY <1>3, <1>4
  <1> QED BY <1>5

-----------------------------------------------------------------------------
(* SeedImport: the groups of a JSON Resume document.                       *)

LEMMA ListingReadable ==
  ASSUME NEW d \in Seq(Entry), ~ResumeRefused(d), NEW lists
  PROVE  ListingOK(Listing(d, lists))
  <1> SUFFICES ASSUME NEW o \in Listing(d, lists)
               PROVE  /\ o.place \in Nat
                      /\ o.entry.start \in DateTexts /\ Readable(o.entry.start)
                      /\ o.entry.end \in DateTexts /\ Readable(o.entry.end)
    BY DEF ListingOK
  <1>1. PICK i \in DOMAIN d : o.entry = d[i]
    BY ListingShape
  <1>2. o.place \in Nat /\ d[i] \in Entry /\ ~SkippedEntry(d[i])
    BY <1>1, ListingShape
  <1>3. ~BadEntry(d[i])
    BY DEF ResumeRefused
  <1>4. Readable(d[i].start) /\ Readable(d[i].end)
    BY <1>2, <1>3 DEF BadEntry
  <1> QED BY <1>1, <1>2, <1>4 DEF Entry, DateTexts

LEMMA ListingOrdered ==
  ASSUME NEW d \in Seq(Entry), source = "resume", \A x \in Dated(d) : PeriodInOrder(x), NEW lists
  PROVE  Ordered(Listing(d, lists))
  <1> SUFFICES ASSUME NEW o \in Listing(d, lists) PROVE PeriodInOrder(o.entry)
    BY DEF Ordered
  <1>1. PICK i \in DOMAIN d : o.entry = d[i]
    BY ListingShape
  <1>2. ~SkippedEntry(d[i])
    BY <1>1, ListingShape
  <1>3. d[i] \in Dated(d)
    BY <1>2 DEF Dated
  <1> QED BY <1>1, <1>3

LEMMA ListingApart ==
  ASSUME NEW d \in Seq(Entry), NEW lists, \A k, l \in lists : k = l \/ {k, l} = {"work", "volunteer"}
  PROVE  Apart(Listing(d, lists))
  BY ListingPlacesDiffer DEF Apart

LEMMA CertificationsApart ==
  ASSUME NEW d \in Seq(Entry), source = "resume", NamesApart(d)
  PROVE  Apart(Listing(d, {"certificates", "awards"}))
  <1> DEFINE both == Listing(d, {"certificates", "awards"})
  <1>1. ASSUME NEW o \in both
        PROVE  \/ o.entry.list = "certificates" /\ o \in Listing(d, {"certificates"})
               \/ o.entry.list = "awards" /\ o \in Listing(d, {"awards"})
    <2>1. PICK i \in Of(d, {"certificates", "awards"}) :
            ~SkippedEntry(d[i]) /\ o = Listed(d[i], Place(d, i))
      BY DEF Listing
    <2>2. o.entry = d[i]
      BY <2>1 DEF Listed
    <2>3. i \in DOMAIN d /\ d[i].list \in {"certificates", "awards"}
      BY DEF Of
    <2>4. i \in Of(d, {d[i].list})
      BY <2>3 DEF Of
    <2>5. o \in Listing(d, {d[i].list})
      BY <2>1, <2>4 DEF Listing
    <2> QED BY <2>2, <2>3, <2>5
  <1>2. ASSUME NEW o \in Listing(d, {"certificates"}), NEW p \in Listing(d, {"awards"}),
               o.place = p.place
        PROVE  Value(o.entry) # Value(p.entry)
    BY <1>2 DEF NamesApart
  <1>3. \A o, p \in Listing(d, {"certificates"}) : o.place = p.place => o = p
    BY ListingPlacesDiffer
  <1>4. \A o, p \in Listing(d, {"awards"}) : o.place = p.place => o = p
    BY ListingPlacesDiffer
  <1> HIDE DEF both
  <1>5. \A o, p \in both : o.place = p.place /\ Value(o.entry) = Value(p.entry) => o = p
    BY <1>1, <1>2, <1>3, <1>4
  <1> QED BY <1>5 DEF Apart, both

\* Every group of skills has one category, made of the first entry of its name.
LEMMA CategoriesMade ==
  ASSUME NEW d \in Seq(Entry), NEW records, records = Categories(d)
  PROVE  /\ WellMade(records) /\ Proper(records)
         /\ source = "resume" /\ NamesApart(d) => Distinct(records, "slug")
         /\ \A i \in GroupEntries(d) : CategoryKey(d[i].name) \in KeysOf(records)
  <1> DEFINE first == {i \in GroupEntries(d) :
                         \A j \in GroupEntries(d) : d[j].name = d[i].name => i <= j}
  <1>1. DOMAIN records = first
    BY DEF Categories
  <1>2. GroupEntries(d) \subseteq Nat
    BY OfIsFinite DEF GroupEntries
  <1>3. ASSUME NEW i \in first
        PROVE  /\ RecordOK(records[i]) /\ InOrder(records[i].start, records[i].end)
               /\ records[i].key = CategoryKey(d[i].name)
               /\ records[i].slug = SlugOf(d[i].name, <<"skill-group", Place(d, i)>>)
    <2> DEFINE made == records[i]
               key == CategoryKey(d[i].name)
               slug == SlugOf(d[i].name, <<"skill-group", Place(d, i)>>)
    <2>1. made = SeedRecord(key, slug, {}, NoPeriod)
      BY DEF Categories
    <2>2. key[3] \in Nat
      BY DEF CategoryKey, Key
    <2> HIDE DEF made, key, slug
    <2>3. /\ made.key = key /\ made.slug = slug
          /\ RecordOK(made) /\ InOrder(made.start, made.end)
      BY <2>1, <2>2, UndatedRecord
    <2> QED BY <2>3 DEF made, key, slug
  <1>4. \A i, j \in first : d[i].name = d[j].name => i = j
    BY <1>2
  <1>5. Distinct(records, "key")
    <2> SUFFICES ASSUME NEW i \in first, NEW j \in first, records[i].key = records[j].key
                 PROVE  i = j
      BY <1>1 DEF Distinct
    <2>1. CategoryKey(d[i].name) = CategoryKey(d[j].name)
      BY <1>3
    <2>2. d[i].name = d[j].name
      BY <2>1 DEF CategoryKey, Key
    <2> HIDE DEF first
    <2> QED BY <1>4, <2>2
  <1>6. WellMade(records) /\ Proper(records)
    BY <1>1, <1>3, <1>5 DEF WellMade, Proper, RecordOK
  <1>7. ASSUME source = "resume", NamesApart(d) PROVE Distinct(records, "slug")
    <2>1. \A i, j \in GroupEntries(d) :
             /\ Slug[d[i].name] # NoSlug
             /\ Slug[d[i].name] = Slug[d[j].name] => d[i].name = d[j].name
      BY <1>7 DEF NamesApart
    <2>2. \A i \in first : records[i].slug = Slug[d[i].name]
      BY <1>3, <2>1 DEF SlugOf
    <2> QED BY <1>1, <1>4, <2>1, <2>2 DEF Distinct
  <1>8. ASSUME NEW i \in GroupEntries(d) PROVE CategoryKey(d[i].name) \in KeysOf(records)
    <2> DEFINE same == {j \in GroupEntries(d) : d[j].name = d[i].name}
    <2>1. same \in SUBSET Nat /\ same # {}
      BY <1>2
    <2>2. PICK j \in same : \A k \in same : j <= k
      <3> HIDE DEF same
      <3> QED BY <2>1, LeastNumber
    <2>3. j \in first /\ d[j].name = d[i].name
      BY <2>2
    <2>4. records[j] \in ToSet(records)
      BY <1>1, <2>3 DEF ToSet
    <2> HIDE DEF first
    <2> QED BY <1>3, <2>3, <2>4 DEF KeysOf
  <1> QED BY <1>6, <1>7, <1>8

\* Every skill belongs to a category of the manifest, or to none.
LEMMA SkillsMade ==
  ASSUME NEW d \in Seq(Entry), NEW records, records = Skills(d)
  PROVE  /\ WellMade(records) /\ Proper(records)
         /\ source = "resume" /\ NamesApart(d) => Distinct(records, "slug")
         /\ \A x \in ToSet(records) : x.refs \subseteq KeysOf(Categories(d))
         /\ \A m \in NewSkills(d) : SkillKey(d, m) \in KeysOf(records)
  <1>1. DOMAIN records = NewSkills(d)
    BY DEF Skills
  <1>2. ASSUME NEW m \in NewSkills(d)
        PROVE  /\ RecordOK(records[m]) /\ InOrder(records[m].start, records[m].end)
               /\ records[m].key = SkillKey(d, m) /\ records[m].refs = SkillGroup(d, m)
               /\ records[m].slug = SlugOf(Said(d, m), <<"skill", SkillPlace(d, m)>>)
    <2> DEFINE made == records[m]
               key == SkillKey(d, m)
               refs == SkillGroup(d, m)
               slug == SlugOf(Said(d, m), <<"skill", SkillPlace(d, m)>>)
    <2>1. made = SeedRecord(key, slug, refs, NoPeriod)
      BY DEF Skills
    <2>2. key[3] \in Nat
      BY SkillPlaceType DEF SkillKey, Key
    <2> HIDE DEF made, key, slug, refs
    <2>3. /\ made.key = key /\ made.slug = slug /\ made.refs = refs
          /\ RecordOK(made) /\ InOrder(made.start, made.end)
      BY <2>1, <2>2, UndatedRecord
    <2> QED BY <2>3 DEF made, key, slug, refs
  <1>3. \A m, n \in NewSkills(d) : Folded[Said(d, m)] = Folded[Said(d, n)] => m = n
    BY SkillsDiffer
  <1>4. Distinct(records, "key")
    <2> SUFFICES ASSUME NEW m \in NewSkills(d), NEW n \in NewSkills(d),
                        records[m].key = records[n].key
                 PROVE  m = n
      BY <1>1 DEF Distinct
    <2>1. SkillKey(d, m) = SkillKey(d, n)
      BY <1>2
    <2>2. Said(d, m) = Said(d, n)
      BY <2>1 DEF SkillKey, Key
    <2> QED BY <1>3, <2>2
  <1>5. WellMade(records) /\ Proper(records)
    BY <1>1, <1>2, <1>4 DEF WellMade, Proper, RecordOK
  <1>6. ASSUME source = "resume", NamesApart(d) PROVE Distinct(records, "slug")
    <2>1. \A m, n \in Mentions(d) :
             /\ Slug[Said(d, m)] # NoSlug
             /\ Slug[Said(d, m)] = Slug[Said(d, n)] => Folded[Said(d, m)] = Folded[Said(d, n)]
      BY <1>6 DEF NamesApart
    <2>2. NewSkills(d) \subseteq Mentions(d)
      BY DEF NewSkills
    <2>3. \A m \in NewSkills(d) : records[m].slug = Slug[Said(d, m)]
      BY <1>2, <2>1, <2>2 DEF SlugOf
    <2> QED BY <1>1, <1>3, <2>1, <2>2, <2>3 DEF Distinct
  <1>7. ASSUME NEW m \in NewSkills(d) PROVE records[m].refs \subseteq KeysOf(Categories(d))
    <2>1. m \in Mentions(d)
      BY DEF NewSkills
    <2>2. PICK i \in DOMAIN d, k \in Nat :
            /\ m[1] = i /\ m[2] = k
            /\ k > 0 => k \in DOMAIN d[i].keywords
      BY <2>1, MentionShape
    <2>3. CASE m[2] > 0 /\ d[m[1]].list = "skills"
      <3>1. i \in GroupEntries(d)
        BY <2>2, <2>3 DEF GroupEntries, Of
      <3>2. CategoryKey(d[i].name) \in KeysOf(Categories(d))
        BY <3>1, CategoriesMade
      <3> QED BY <1>2, <2>2, <2>3, <3>2 DEF SkillGroup
    <2> QED BY <1>2, <2>3 DEF SkillGroup
  <1>8. \A x \in ToSet(records) : x.refs \subseteq KeysOf(Categories(d))
    BY <1>1, <1>7 DEF ToSet
  <1>9. \A m \in NewSkills(d) : SkillKey(d, m) \in KeysOf(records)
    BY <1>1, <1>2 DEF KeysOf, ToSet
  <1> QED BY <1>5, <1>6, <1>8, <1>9

LEMMA Referring ==
  ASSUME NEW key, NEW slug, NEW refs, NEW others, NEW x
  PROVE  [SeedRecord(key, slug, refs, x) EXCEPT !.refs = others] = SeedRecord(key, slug, others, x)
  <1> DEFINE first == Date(x.start, FALSE)
             last == Date(x.end, TRUE)
  <1> HIDE DEF first, last
  <1>1. \A q : SeedRecord(key, slug, q, x) =
                [key |-> key, slug |-> slug, refs |-> q, status |-> "draft",
                 start |-> first, end |-> last]
    BY DEF SeedRecord, first, last
  <1>2. [[key |-> key, slug |-> slug, refs |-> refs, status |-> "draft",
          start |-> first, end |-> last] EXCEPT !.refs = others] =
        [key |-> key, slug |-> slug, refs |-> others, status |-> "draft",
         start |-> first, end |-> last]
    OBVIOUS
  <1> QED BY <1>1, <1>2

\* Every skill that a project refers to is one of the manifest.
LEMMA ProjectsMade ==
  ASSUME NEW d \in Seq(Entry), ~ResumeRefused(d), NEW records, records = ResumeProjects(d)
  PROVE  /\ WellMade(records)
         /\ Ordered(Listing(d, {"projects"})) => Proper(records)
         /\ SlugsApart(Listing(d, {"projects"})) => Distinct(records, "slug")
         /\ \A x \in ToSet(records) : x.refs \subseteq KeysOf(Skills(d))
  <1> DEFINE listing == Listing(d, {"projects"})
             named == NamedRecords("resume.project", listing, "project")
  <1>1. DOMAIN named = listing /\ DOMAIN records = listing
    BY DEF ResumeProjects, NamedRecords
  <1>2. ListingOK(listing) /\ Apart(listing)
    BY ListingReadable, ListingApart
  <1>3. ASSUME NEW o \in listing
        PROVE  /\ RecordOf(records[o], "resume.project", o)
               /\ records[o].refs = ProjectSkills(d, o.entry)
               /\ records[o].slug = SlugOf(o.entry.name, <<"project", o.place>>)
    <2> DEFINE made == records[o]
               key == Key("resume.project", Value(o.entry), o.place)
               slug == SlugOf(o.entry.name, <<"project", o.place>>)
               skills == ProjectSkills(d, o.entry)
    <2>1. named[o] = SeedRecord(key, slug, {}, o.entry)
      BY DEF NamedRecords
    <2>2. made = [named[o] EXCEPT !.refs = skills]
      BY <1>1 DEF ResumeProjects
    <2> HIDE DEF named, made, slug, skills, key
    <2>3. made = SeedRecord(key, slug, skills, o.entry)
      BY <2>1, <2>2, Referring
    <2> HIDE DEF listing
    <2>4. RecordOf(made, "resume.project", o) /\ made.refs = skills /\ made.slug = slug
      BY <1>2, <2>3, ListedRecord DEF key
    <2> QED BY <2>4 DEF made, slug, skills
  <1> HIDE DEF listing, named
  <1>4. WellMade(records) /\ (Ordered(listing) => Proper(records))
    BY <1>1, <1>2, <1>3, RecordsOfListing
  <1>5. ASSUME SlugsApart(listing) PROVE Distinct(records, "slug")
    <2>1. \A o \in listing : records[o].slug = Slug[o.entry.name]
      BY <1>3, <1>5 DEF SlugsApart, SlugOf
    <2> QED BY <1>1, <1>5, <2>1 DEF SlugsApart, Distinct
  <1>6. ASSUME NEW x \in ToSet(records), NEW key \in x.refs PROVE key \in KeysOf(Skills(d))
    <2>1. PICK o \in listing : x = records[o]
      BY <1>1 DEF ToSet
    <2>2. key \in ProjectSkills(d, o.entry)
      BY <1>3, <2>1
    <2>3. PICK m \in NewSkills(d) : key = SkillKey(d, m)
      BY <2>2 DEF ProjectSkills
    <2> QED BY <2>3, SkillsMade
  <1> QED BY <1>4, <1>5, <1>6 DEF listing

LEMMA ProfileMade ==
  ASSUME NEW prefix, NEW records, records = Profile(prefix)
  PROVE  WellMade(records) /\ Proper(records) /\ ProfileKey(prefix) \in KeysOf(records)
  <1> DEFINE key == ProfileKey(prefix)
             made == records[key]
  <1>1. DOMAIN records = {key} /\ made = SeedRecord(key, NoSlug, {}, NoPeriod)
    BY DEF Profile
  <1>2. key[3] \in Nat
    BY DEF ProfileKey, Key
  <1> HIDE DEF key
  <1>3. made.key = key /\ RecordOK(made) /\ InOrder(made.start, made.end)
    <2> HIDE DEF made
    <2> QED BY <1>1, <1>2, UndatedRecord
  <1>4. key \in KeysOf(records)
    BY <1>1, <1>3 DEF KeysOf, ToSet
  <1>5. WellMade(records) /\ Proper(records)
    BY <1>1, <1>3 DEF WellMade, Proper, Distinct, RecordOK
  <1> QED BY <1>4, <1>5 DEF key

LEMMA LinksMade ==
  ASSUME NEW d \in Seq(Entry), ~ResumeRefused(d), NEW records, records = ResumeLinks(d)
  PROVE  /\ WellMade(records)
         /\ Ordered(Listing(d, {"profiles"})) => Proper(records)
         /\ \A x \in ToSet(records) : x.refs = {ProfileKey("resume.profile")}
  <1> DEFINE listing == Listing(d, {"profiles"})
             plain == PlainRecords("resume.social", listing)
             profile == {ProfileKey("resume.profile")}
  <1>1. DOMAIN plain = listing /\ DOMAIN records = listing
    BY DEF ResumeLinks, PlainRecords
  <1>2. ListingOK(listing) /\ Apart(listing)
    BY ListingReadable, ListingApart
  <1>3. ASSUME NEW o \in listing
        PROVE  RecordOf(records[o], "resume.social", o) /\ records[o].refs = profile
    <2> DEFINE made == records[o]
               key == Key("resume.social", Value(o.entry), o.place)
    <2>1. plain[o] = SeedRecord(key, NoSlug, {}, o.entry)
      BY DEF PlainRecords
    <2>2. made = [plain[o] EXCEPT !.refs = profile]
      BY <1>1 DEF ResumeLinks
    <2> HIDE DEF plain, made, profile, key
    <2>3. made = SeedRecord(key, NoSlug, profile, o.entry)
      BY <2>1, <2>2, Referring
    <2> HIDE DEF listing
    <2>4. RecordOf(made, "resume.social", o) /\ made.refs = profile
      BY <1>2, <2>3, ListedRecord DEF key
    <2> QED BY <2>4 DEF made
  <1> HIDE DEF listing, plain, profile
  <1>4. WellMade(records) /\ (Ordered(listing) => Proper(records))
    BY <1>1, <1>2, <1>3, RecordsOfListing
  <1>5. \A x \in ToSet(records) : x.refs = profile
    BY <1>1, <1>3 DEF ToSet
  <1> QED BY <1>4, <1>5 DEF listing, profile

\* A document has one picture and one paper at most.
OneOf(d, list) == \A i, j \in Of(d, {list}) : i = j

LEMMA AssetsMade ==
  ASSUME NEW d, NEW list, OneOf(d, list), NEW kind, NEW key,
         NEW records, records = ResumeAssets(d, list, kind, key)
  PROVE  /\ WellMade(records) /\ Proper(records)
         /\ \A x \in ToSet(records) : x.refs = {ProfileKey("resume.profile")}
  <1> DEFINE profile == {ProfileKey("resume.profile")}
             own == Key(key, <<>>, 0)
  <1>1. DOMAIN records \subseteq Of(d, {list})
    BY DEF ResumeAssets
  <1>2. ASSUME NEW i \in DOMAIN records
        PROVE  /\ RecordOK(records[i]) /\ InOrder(records[i].start, records[i].end)
               /\ records[i].refs = profile
    <2> DEFINE made == records[i]
    <2>1. made = SeedRecord(own, NoSlug, profile, NoPeriod)
      BY DEF ResumeAssets
    <2>2. own[3] \in Nat
      BY DEF Key
    <2> HIDE DEF made, own, profile
    <2>3. RecordOK(made) /\ InOrder(made.start, made.end) /\ made.refs = profile
      BY <2>1, <2>2, UndatedRecord
    <2> QED BY <2>3 DEF made
  <1> HIDE DEF profile
  <1>3. WellMade(records) /\ Proper(records)
    BY <1>1, <1>2 DEF WellMade, Proper, Distinct, OneOf, RecordOK
  <1>4. \A x \in ToSet(records) : x.refs = profile
    BY <1>2 DEF ToSet
  <1> QED BY <1>3, <1>4 DEF profile

-----------------------------------------------------------------------------
(* SeedImport: what any source becomes.                                    *)

ImportShape ==
  /\ source \in {"resume", "linkedin"}
  /\ document \in Seq(IF source = "resume" THEN Entries ELSE Members)
  /\ source = "resume" => \A list \in {"image", "paper"} : OneOf(document, list)

LEMMA ShapesOfSources ==
  ASSUME ImportShape
  PROVE  /\ source = "resume" => document \in Seq(Entry)
         /\ source = "linkedin" => document \in Seq(Member)
  <1>1. Seq(Entries) \subseteq Seq(Entry) /\ Seq(Members) \subseteq Seq(Member)
    BY ImportAssumption
  <1> QED BY <1>1 DEF ImportShape

LEMMA ImportInvariance == ImportSpec => []ImportShape
  <1>1. ImportInit => ImportShape
    BY DEF ImportInit, ImportShape, OneOf, Of
  <1>2. ImportShape /\ [ImportNext]_importVars => ImportShape'
    <2> SUFFICES ASSUME ImportShape, [ImportNext]_importVars PROVE ImportShape'
      OBVIOUS
    <2>1. CASE source = "resume" /\ ImportNext
      <3>1. PICK entry \in Entries :
               /\ entry.list \in {"image", "paper"} => Of(document, {entry.list}) = {}
               /\ Write(entry)
        BY <2>1 DEF ImportNext
      <3>2. /\ document \in Seq(Entries) /\ source' = source
            /\ document' = Append(document, entry)
        BY <2>1, <3>1 DEF ImportShape, Write
      <3>3. document' \in Seq(Entries)
        BY <3>2
      <3>4. ASSUME NEW list \in {"image", "paper"} PROVE OneOf(document, list)'
        <4> SUFFICES ASSUME NEW i \in Of(document', {list}), NEW j \in Of(document', {list})
                     PROVE  i = j
          BY DEF OneOf
        <4>1. ASSUME NEW k \in Of(document', {list})
              PROVE  IF entry.list = list THEN k = Len(document) + 1 ELSE k \in Of(document, {list})
          <5>1. k \in 1..(Len(document) + 1) /\ document'[k].list = list
            BY <3>2 DEF Of
          <5>2. CASE k = Len(document) + 1
            BY <3>2, <5>1, <5>2
          <5>3. CASE k \in 1..Len(document)
            <6>1. k \in Of(document, {list})
              BY <3>2, <5>1, <5>3 DEF Of
            <6>2. entry.list # list
              BY <3>1, <6>1
            <6> QED BY <6>1, <6>2
          <5> QED BY <3>2, <5>1, <5>2, <5>3
        <4>2. OneOf(document, list)
          BY <2>1 DEF ImportShape
        <4> QED BY <4>1, <4>2 DEF OneOf
      <3> QED BY <2>1, <3>2, <3>3, <3>4 DEF ImportShape
    <2>2. CASE source = "linkedin" /\ ImportNext
      <3>1. PICK member \in Members : Write(member)
        BY <2>2 DEF ImportNext
      <3>2. document \in Seq(Members) /\ source' = source /\ document' = Append(document, member)
        BY <2>2, <3>1 DEF ImportShape, Write
      <3>3. document' \in Seq(Members)
        BY <3>2
      <3> QED BY <2>2, <3>2, <3>3 DEF ImportShape
    <2>3. CASE UNCHANGED importVars
      BY <2>3 DEF ImportShape, importVars, OneOf, Of
    <2> QED BY <2>1, <2>2, <2>3 DEF ImportNext
  <1> QED BY <1>1, <1>2, PTL DEF ImportSpec

\* What is asked of a manifest, group by group.
LEMMA ManifestsMade ==
  ASSUME NEW made, \A g \in Collections : WellMade(made[g])
  PROVE  /\ \A x \in RecordsOf(made) : RecordOK(x)
         /\ (/\ \A g \in Collections : Proper(made[g])
             /\ \A g \in {"categories", "skills", "projects"} : Distinct(made[g], "slug"))
            => Accepted(made)
  <1>1. ASSUME NEW x \in RecordsOf(made)
        PROVE  \E g \in Collections : \E o \in DOMAIN made[g] : x = made[g][o]
    BY DEF RecordsOf, ToSet
  <1>2. \A x \in RecordsOf(made) : RecordOK(x)
    BY <1>1 DEF WellMade
  <1>3. ASSUME \A g \in Collections : Proper(made[g]),
               \A g \in {"categories", "skills", "projects"} : Distinct(made[g], "slug")
        PROVE  Accepted(made)
    <2>1. \A g \in Collections : Distinct(made[g], "key")
      BY <1>3 DEF Proper
    <2>2. \A x \in RecordsOf(made) : x.status = "draft" /\ InOrder(x.start, x.end)
      BY <1>1, <1>3 DEF Proper
    <2> QED BY <1>3, <2>1, <2>2 DEF Accepted
  <1> QED BY <1>2, <1>3

\* A JSON Resume document that is read becomes records of drafts, which refer
\* to one another; what validation refuses in them is in the document.
LEMMA ResumesMade ==
  ASSUME source = "resume", NEW d \in Seq(Entry), ~ResumeRefused(d),
         OneOf(d, "image"), OneOf(d, "paper"), NEW made, made = ResumeManifest(d)
  PROVE  /\ \A x \in RecordsOf(made) : RecordOK(x)
         /\ NamesApart(d) /\ (\A x \in Dated(d) : PeriodInOrder(x)) => Accepted(made)
         /\ \A g \in {"portraits", "versions", "links"} : \A x \in ToSet(made[g]) :
                x.refs \subseteq KeysOf(made.profiles)
         /\ \A x \in ToSet(made.skills) : x.refs \subseteq KeysOf(made.categories)
         /\ \A x \in ToSet(made.projects) : x.refs \subseteq KeysOf(made.skills)
  <1> DEFINE work == Listing(d, {"work", "volunteer"})
             schools == Listing(d, {"education"})
             awards == Listing(d, {"certificates", "awards"})
             words == Listing(d, {"references"})
  <1>1. /\ made["profiles"] = Profile("resume.profile")
        /\ made["portraits"] = ResumeAssets(d, "image", Pictures, "resume.portrait")
        /\ made["versions"] = ResumeAssets(d, "paper", Papers, "resume.document")
        /\ made["links"] = ResumeLinks(d)
        /\ made["categories"] = Categories(d)
        /\ made["skills"] = Skills(d)
        /\ made["projects"] = ResumeProjects(d)
        /\ made["experiences"] = PlainRecords("resume.experience", work)
        /\ made["education"] = PlainRecords("resume.education", schools)
        /\ made["certifications"] = PlainRecords("resume.certification", awards)
        /\ made["testimonials"] = PlainRecords("resume.testimonial", words)
    BY DEF ResumeManifest
  <1>2. /\ WellMade(made["profiles"]) /\ Proper(made["profiles"])
        /\ ProfileKey("resume.profile") \in KeysOf(made["profiles"])
    BY <1>1, ProfileMade
  <1>3. /\ WellMade(made["portraits"]) /\ Proper(made["portraits"])
        /\ \A x \in ToSet(made["portraits"]) : x.refs = {ProfileKey("resume.profile")}
    BY <1>1, AssetsMade
  <1>4. /\ WellMade(made["versions"]) /\ Proper(made["versions"])
        /\ \A x \in ToSet(made["versions"]) : x.refs = {ProfileKey("resume.profile")}
    BY <1>1, AssetsMade
  <1>5. /\ WellMade(made["links"])
        /\ Ordered(Listing(d, {"profiles"})) => Proper(made["links"])
        /\ \A x \in ToSet(made["links"]) : x.refs = {ProfileKey("resume.profile")}
    BY <1>1, LinksMade
  <1>6. /\ WellMade(made["categories"]) /\ Proper(made["categories"])
        /\ NamesApart(d) => Distinct(made["categories"], "slug")
    BY <1>1, CategoriesMade
  <1>7. /\ WellMade(made["skills"]) /\ Proper(made["skills"])
        /\ NamesApart(d) => Distinct(made["skills"], "slug")
        /\ \A x \in ToSet(made["skills"]) : x.refs \subseteq KeysOf(made["categories"])
    BY <1>1, SkillsMade
  <1>8. /\ WellMade(made["projects"])
        /\ Ordered(Listing(d, {"projects"})) => Proper(made["projects"])
        /\ SlugsApart(Listing(d, {"projects"})) => Distinct(made["projects"], "slug")
        /\ \A x \in ToSet(made["projects"]) : x.refs \subseteq KeysOf(made["skills"])
    BY <1>1, ProjectsMade
  <1>9. ListingOK(work) /\ ListingOK(schools) /\ ListingOK(awards) /\ ListingOK(words)
    BY ListingReadable
  <1>10. Apart(work) /\ Apart(schools) /\ Apart(words)
    BY ListingApart
  <1>11. NamesApart(d) => Apart(awards)
    BY CertificationsApart
  <1> HIDE DEF work, schools, awards, words
  <1>12. /\ WellMade(made["experiences"])
         /\ Apart(work) /\ Ordered(work) => Proper(made["experiences"])
    BY <1>1, <1>9, PlainRecordsMade
  <1>13. /\ WellMade(made["education"])
         /\ Apart(schools) /\ Ordered(schools) => Proper(made["education"])
    BY <1>1, <1>9, PlainRecordsMade
  <1>14. /\ WellMade(made["certifications"])
         /\ Apart(awards) /\ Ordered(awards) => Proper(made["certifications"])
    BY <1>1, <1>9, PlainRecordsMade
  <1>15. /\ WellMade(made["testimonials"])
         /\ Apart(words) /\ Ordered(words) => Proper(made["testimonials"])
    BY <1>1, <1>9, PlainRecordsMade
  <1>16. \A g \in Collections : WellMade(made[g])
    BY <1>2, <1>3, <1>4, <1>5, <1>6, <1>7, <1>8, <1>12, <1>13, <1>14, <1>15 DEF Collections
  <1>17. ASSUME NamesApart(d), \A x \in Dated(d) : PeriodInOrder(x)
         PROVE  Accepted(made)
    <2>1. /\ Ordered(work) /\ Ordered(schools) /\ Ordered(awards) /\ Ordered(words)
          /\ Ordered(Listing(d, {"profiles"})) /\ Ordered(Listing(d, {"projects"}))
      BY <1>17, ListingOrdered DEF work, schools, awards, words
    <2>2. SlugsApart(Listing(d, {"projects"}))
      BY <1>17 DEF NamesApart
    <2>3. \A g \in Collections : Proper(made[g])
      BY <1>2, <1>3, <1>4, <1>5, <1>6, <1>7, <1>8, <1>10, <1>11, <1>12, <1>13, <1>14, <1>15,
         <1>17, <2>1 DEF Collections
    <2>4. \A g \in {"categories", "skills", "projects"} : Distinct(made[g], "slug")
      BY <1>6, <1>7, <1>8, <1>17, <2>2
    <2> QED BY <1>16, <2>3, <2>4, ManifestsMade
  <1>18. \A x \in RecordsOf(made) : RecordOK(x)
    BY <1>16, ManifestsMade
  <1>19. \A g \in {"portraits", "versions", "links"} : \A x \in ToSet(made[g]) :
             x.refs \subseteq KeysOf(made["profiles"])
    BY <1>2, <1>3, <1>4, <1>5
  <1> QED BY <1>7, <1>8, <1>17, <1>18, <1>19

\* The rows of a table are those of one member.
LEMMA RowListingMade ==
  ASSUME source = "linkedin", NEW d \in Seq(Member), ~LinkedinRefused(d), NEW name, name # "none"
  PROVE  LET listing == RowListing(d, name)
         IN  /\ ListingOK(listing) /\ Apart(listing)
             /\ (\A x \in Dated(d) : PeriodInOrder(x)) => Ordered(listing)
  <1> DEFINE listing == RowListing(d, name)
  <1>1. ASSUME NEW p \in RowsOf(d, name)
        PROVE  \E i \in DOMAIN d, k \in Nat :
                 /\ p = <<i, k>> /\ p[2] = k /\ d[i].table = name
                 /\ k \in DOMAIN d[i].rows /\ RowAt(d, p) = d[i].rows[k]
    <2>1. PICK i \in {j \in DOMAIN d : d[j].table = name} :
            p \in {<<i, k>> : k \in DOMAIN d[i].rows}
      BY DEF RowsOf
    <2>2. PICK k \in DOMAIN d[i].rows : p = <<i, k>>
      BY <2>1
    <2>3. d[i] \in Member
      OBVIOUS
    <2>4. d[i].rows \in Seq(Entry)
      BY <2>3 DEF Member
    <2>5. k \in Nat
      BY <2>4
    <2> QED BY <2>2, <2>5 DEF RowAt
  <1>2. ASSUME NEW o \in listing
        PROVE  \E i \in DOMAIN d, k \in Nat :
                 /\ o = Listed(d[i].rows[k], k) /\ o.entry = d[i].rows[k] /\ o.place = k
                 /\ d[i].table = name /\ k \in DOMAIN d[i].rows /\ ~SkippedRow(o.entry)
    <2>1. PICK p \in RowsOf(d, name) : ~SkippedRow(RowAt(d, p)) /\ o = Listed(RowAt(d, p), p[2])
      BY DEF RowListing
    <2>2. o.entry = RowAt(d, p) /\ o.place = p[2]
      BY <2>1 DEF Listed
    <2> HIDE DEF listing
    <2> QED BY <1>1, <2>1, <2>2
  <1>3. ASSUME NEW i \in DOMAIN d, NEW j \in DOMAIN d, d[i].table = name, d[j].table = name
        PROVE  i = j
    <2>1. \A k \in DOMAIN d : ~BadMember(d, k)
      BY DEF LinkedinRefused
    <2>2. \A k \in DOMAIN d : d[k].table = name => \A l \in 1..(k - 1) : d[l].table # name
      BY <2>1 DEF BadMember
    <2>3. i \in Nat /\ j \in Nat /\ i > 0 /\ j > 0
      OBVIOUS
    <2> QED BY <1>3, <2>2, <2>3
  <1>4. ASSUME NEW o \in listing
        PROVE  /\ o.place \in Nat
               /\ o.entry.start \in DateTexts /\ Readable(o.entry.start)
               /\ o.entry.end \in DateTexts /\ Readable(o.entry.end)
               /\ o.entry \in Dated(d)
    <2>1. PICK i \in DOMAIN d, k \in Nat :
             /\ o.entry = d[i].rows[k] /\ o.place = k
             /\ k \in DOMAIN d[i].rows /\ ~SkippedRow(o.entry)
      BY <1>2
    <2>2. ~BadRow(d[i].rows[k])
      BY <2>1 DEF LinkedinRefused
    <2>3. Readable(o.entry.start) /\ Readable(o.entry.end)
      BY <2>1, <2>2 DEF BadRow
    <2>4. d[i] \in Member
      OBVIOUS
    <2>5. d[i].rows \in Seq(Entry)
      BY <2>4 DEF Member
    <2>6. o.entry \in Entry
      BY <2>1, <2>5
    <2>7. o.entry.start \in DateTexts /\ o.entry.end \in DateTexts
      BY <2>6 DEF Entry, DateTexts
    <2>8. o.entry \in ToSet(d[i].rows)
      BY <2>1 DEF ToSet
    <2>9. o.entry \in Dated(d)
      BY <2>1, <2>8 DEF Dated
    <2> QED BY <2>1, <2>3, <2>7, <2>9
  <1>5. ASSUME NEW o \in listing, NEW p \in listing, o.place = p.place PROVE o = p
    <2>1. PICK i \in DOMAIN d, k \in Nat :
             o = Listed(d[i].rows[k], k) /\ o.place = k /\ d[i].table = name
      BY <1>2
    <2>2. PICK j \in DOMAIN d, l \in Nat :
             p = Listed(d[j].rows[l], l) /\ p.place = l /\ d[j].table = name
      BY <1>2
    <2> QED BY <1>3, <1>5, <2>1, <2>2
  <1> HIDE DEF listing
  <1> QED BY <1>4, <1>5 DEF ListingOK, Apart, Ordered, listing

LEMMA EmptyGroup ==
  ASSUME NEW records, records = <<>>
  PROVE  WellMade(records) /\ Proper(records) /\ Distinct(records, "slug") /\ ToSet(records) = {}
  BY DEF WellMade, Proper, Distinct, ToSet

\* So does a LinkedIn export, whose records refer to nothing.
LEMMA LinkedinsMade ==
  ASSUME source = "linkedin", NEW d \in Seq(Member), ~LinkedinRefused(d),
         NEW made, made = LinkedinManifest(d)
  PROVE  /\ \A x \in RecordsOf(made) : RecordOK(x)
         /\ NamesApart(d) /\ (\A x \in Dated(d) : PeriodInOrder(x)) => Accepted(made)
         /\ \A g \in {"portraits", "versions", "links"} : ToSet(made[g]) = {}
         /\ \A g \in {"skills", "projects"} : \A x \in ToSet(made[g]) : x.refs = {}
  <1> DEFINE rows(name) == RowListing(d, name)
             groups == {"skills", "projects", "positions", "education", "certifications",
                        "recommendations"}
             inOrder == \A x \in Dated(d) : PeriodInOrder(x)
  <1>1. /\ made["profiles"] = Profile("linkedin.profile")
        /\ made["portraits"] = <<>> /\ made["versions"] = <<>> /\ made["links"] = <<>>
        /\ made["categories"] = <<>>
        /\ made["skills"] = NamedRecords("linkedin.skill", rows("skills"), "skill")
        /\ made["projects"] = NamedRecords("linkedin.project", rows("projects"), "project")
        /\ made["experiences"] = PlainRecords("linkedin.experience", rows("positions"))
        /\ made["education"] = PlainRecords("linkedin.education", rows("education"))
        /\ made["certifications"] = PlainRecords("linkedin.certification", rows("certifications"))
        /\ made["testimonials"] = PlainRecords("linkedin.testimonial", rows("recommendations"))
    BY DEF LinkedinManifest
  <1>2. \A name \in groups :
           ListingOK(rows(name)) /\ Apart(rows(name)) /\ (inOrder => Ordered(rows(name)))
    <2> SUFFICES ASSUME NEW name \in groups
                 PROVE  ListingOK(rows(name)) /\ Apart(rows(name)) /\ (inOrder => Ordered(rows(name)))
      OBVIOUS
    <2>1. name # "none"
      OBVIOUS
    <2> QED BY <2>1, RowListingMade
  <1>3. WellMade(made["profiles"]) /\ Proper(made["profiles"])
    BY <1>1, ProfileMade
  <1>4. /\ WellMade(made["portraits"]) /\ Proper(made["portraits"]) /\ ToSet(made["portraits"]) = {}
        /\ WellMade(made["versions"]) /\ Proper(made["versions"]) /\ ToSet(made["versions"]) = {}
        /\ WellMade(made["links"]) /\ Proper(made["links"]) /\ ToSet(made["links"]) = {}
        /\ WellMade(made["categories"]) /\ Proper(made["categories"])
        /\ Distinct(made["categories"], "slug")
    BY <1>1, EmptyGroup
  <1> HIDE DEF rows, inOrder
  <1>5. /\ WellMade(made["skills"]) /\ (inOrder => Proper(made["skills"]))
        /\ SlugsApart(rows("skills")) => Distinct(made["skills"], "slug")
        /\ DOMAIN made["skills"] = rows("skills")
        /\ \A o \in rows("skills") : made["skills"][o].refs = {}
    BY <1>1, <1>2, NamedRecordsMade
  <1>6. /\ WellMade(made["projects"]) /\ (inOrder => Proper(made["projects"]))
        /\ SlugsApart(rows("projects")) => Distinct(made["projects"], "slug")
        /\ DOMAIN made["projects"] = rows("projects")
        /\ \A o \in rows("projects") : made["projects"][o].refs = {}
    BY <1>1, <1>2, NamedRecordsMade
  <1>7. WellMade(made["experiences"]) /\ (inOrder => Proper(made["experiences"]))
    BY <1>1, <1>2, PlainRecordsMade
  <1>8. WellMade(made["education"]) /\ (inOrder => Proper(made["education"]))
    BY <1>1, <1>2, PlainRecordsMade
  <1>9. WellMade(made["certifications"]) /\ (inOrder => Proper(made["certifications"]))
    BY <1>1, <1>2, PlainRecordsMade
  <1>10. WellMade(made["testimonials"]) /\ (inOrder => Proper(made["testimonials"]))
    BY <1>1, <1>2, PlainRecordsMade
  <1>11. \A g \in Collections : WellMade(made[g]) /\ (inOrder => Proper(made[g]))
    BY <1>3, <1>4, <1>5, <1>6, <1>7, <1>8, <1>9, <1>10 DEF Collections
  <1>12. ASSUME NamesApart(d), inOrder PROVE Accepted(made)
    <2>1. SlugsApart(rows("skills")) /\ SlugsApart(rows("projects"))
      BY <1>12 DEF NamesApart, rows
    <2>2. \A g \in {"categories", "skills", "projects"} : Distinct(made[g], "slug")
      BY <1>4, <1>5, <1>6, <2>1
    <2> QED BY <1>11, <1>12, <2>2, ManifestsMade
  <1>13. \A g \in {"skills", "projects"} : \A x \in ToSet(made[g]) : x.refs = {}
    BY <1>5, <1>6 DEF ToSet
  <1>14. \A x \in RecordsOf(made) : RecordOK(x)
    BY <1>11, ManifestsMade
  <1> QED BY <1>4, <1>12, <1>13, <1>14 DEF inOrder

\* The texts of what becomes a record can be read.
LEMMA DatedReadable ==
  ASSUME ImportShape, ~SourceRefused(document), NEW x \in Dated(document)
  PROVE  x.start \in DateTexts /\ x.end \in DateTexts /\ Readable(x.start) /\ Readable(x.end)
  <1>1. CASE source = "resume"
    <2>1. PICK i \in DOMAIN document : x = document[i] /\ ~SkippedEntry(document[i])
      BY <1>1 DEF Dated
    <2>2. ~BadEntry(document[i])
      BY <1>1 DEF SourceRefused, ResumeRefused
    <2>3. document[i] \in Entry
      BY <1>1, ShapesOfSources
    <2>4. x.start \in DateTexts /\ x.end \in DateTexts
      BY <2>1, <2>3 DEF Entry, DateTexts
    <2> QED BY <2>1, <2>2, <2>4 DEF BadEntry
  <1>2. CASE source = "linkedin"
    <2>1. PICK i \in DOMAIN document : x \in ToSet(document[i].rows) /\ ~SkippedRow(x)
      BY <1>2 DEF Dated
    <2>2. PICK k \in DOMAIN document[i].rows : x = document[i].rows[k]
      BY <2>1 DEF ToSet
    <2>3. ~BadRow(document[i].rows[k])
      BY <1>2 DEF SourceRefused, LinkedinRefused
    <2>4. document[i] \in Member
      BY <1>2, ShapesOfSources
    <2>5. document[i].rows \in Seq(Entry)
      BY <2>4 DEF Member
    <2>6. x \in Entry
      BY <2>2, <2>5
    <2>7. x.start \in DateTexts /\ x.end \in DateTexts
      BY <2>6 DEF Entry, DateTexts
    <2> QED BY <2>1, <2>2, <2>3, <2>7 DEF BadRow
  <1> QED BY <1>1, <1>2 DEF ImportShape

LEMMA SourcesMade ==
  ASSUME ImportShape, ~SourceRefused(document), NEW made, made = Manifest(document)
  PROVE  /\ \A x \in RecordsOf(made) : RecordOK(x)
         /\ NamesApart(document) /\ (\A x \in Dated(document) : PeriodInOrder(x)) => Accepted(made)
         /\ \A g \in {"portraits", "versions", "links"} : \A x \in ToSet(made[g]) :
                x.refs \subseteq KeysOf(made.profiles)
         /\ \A x \in ToSet(made.skills) : x.refs \subseteq KeysOf(made.categories)
         /\ \A x \in ToSet(made.projects) : x.refs \subseteq KeysOf(made.skills)
  <1>1. CASE source = "resume"
    <2>1. document \in Seq(Entry) /\ OneOf(document, "image") /\ OneOf(document, "paper")
      BY <1>1, ShapesOfSources DEF ImportShape
    <2>2. made = ResumeManifest(document) /\ ~ResumeRefused(document)
      BY <1>1 DEF Manifest, SourceRefused
    <2> QED BY <1>1, <2>1, <2>2, ResumesMade
  <1>2. CASE source = "linkedin"
    <2>1. document \in Seq(Member)
      BY <1>2, ShapesOfSources
    <2>2. made = LinkedinManifest(document) /\ ~LinkedinRefused(document)
      BY <1>2 DEF Manifest, SourceRefused
    <2>3. /\ \A x \in RecordsOf(made) : RecordOK(x)
          /\ NamesApart(document) /\ (\A x \in Dated(document) : PeriodInOrder(x)) => Accepted(made)
          /\ \A g \in {"portraits", "versions", "links"} : ToSet(made[g]) = {}
          /\ \A g \in {"skills", "projects"} : \A x \in ToSet(made[g]) : x.refs = {}
      BY <1>2, <2>1, <2>2, LinkedinsMade
    <2> QED BY <2>3
  <1> QED BY <1>1, <1>2 DEF ImportShape

\* Theorem: whatever a source holds and however it grew, a document or an
\* archive that is read becomes records of drafts with places and days, whose
\* references resolve in groups that are seeded first; no period that some
\* reading of its texts puts in order is refused, and validation refuses
\* nothing but names that meet or a period that is out of order.
THEOREM ImportsStaySound == ImportSpec => []ImportsAreSound
  <1>1. ImportShape => ImportTypeOK
    BY SourcesMade DEF ImportTypeOK, ImportShape, RecordOK
  <1>2. ImportShape => ReferencesResolve
    BY SourcesMade DEF ReferencesResolve
  <1>3. ImportShape => PeriodsStayInOrder
    BY DatedReadable, PeriodStaysInOrder DEF PeriodsStayInOrder
  <1>4. ImportShape => AcceptedUnlessNamesMeet
    BY SourcesMade DEF AcceptedUnlessNamesMeet, PeriodInOrder
  <1>5. ImportShape => ImportsAreSound
    BY <1>1, <1>2, <1>3, <1>4 DEF ImportsAreSound
  <1> QED BY ImportInvariance, <1>5, PTL

-----------------------------------------------------------------------------
(* SeedImport: a source that has grown.                                    *)

Grown(d, e) == Len(e) = Len(d) + 1 /\ \A i \in 1..Len(d) : e[i] = d[i]

LEMMA FrontGrows ==
  ASSUME NEW S, NEW e \in Seq(S), e # <<>>
  PROVE  /\ Front(e) \in Seq(S) /\ Grown(Front(e), e)
         /\ Last(e) = e[Len(Front(e)) + 1] /\ Last(e) \in S
  <1>1. Len(e) \in Nat /\ Len(e) > 0
    OBVIOUS
  <1>2. Front(e) = SubSeq(e, 1, Len(e) - 1)
    BY DEF Front
  <1>3. /\ Front(e) \in Seq(S) /\ Len(Front(e)) = Len(e) - 1
        /\ \A i \in 1..(Len(e) - 1) : Front(e)[i] = e[i]
    <2> DEFINE n == Len(e) - 1
    <2>1. n \in Nat /\ \A i \in 1..n : e[i] \in S
      BY <1>1
    <2>2. /\ SubSeq(e, 1, n) \in Seq(S) /\ Len(SubSeq(e, 1, n)) = IF 1 <= n THEN n - 1 + 1 ELSE 0
          /\ \A i \in 1..(n - 1 + 1) : SubSeq(e, 1, n)[i] = e[1 + i - 1]
      <3> HIDE DEF n
      <3> QED BY <2>1, SubSeqProperties
    <2>3. (IF 1 <= n THEN n - 1 + 1 ELSE 0) = n
      <3> HIDE DEF n
      <3> QED BY <2>1
    <2>4. \A i \in 1..n : i \in 1..(n - 1 + 1) /\ 1 + i - 1 = i
      BY <1>1
    <2> HIDE DEF n
    <2>5. /\ SubSeq(e, 1, n) \in Seq(S) /\ Len(SubSeq(e, 1, n)) = n
          /\ \A i \in 1..n : SubSeq(e, 1, n)[i] = e[i]
      BY <2>2, <2>3, <2>4
    <2> QED BY <1>2, <2>5 DEF n
  <1>4. Grown(Front(e), e)
    BY <1>1, <1>3 DEF Grown
  <1>5. Last(e) = e[Len(Front(e)) + 1] /\ Last(e) \in S
    BY <1>1, <1>3 DEF Last
  <1> QED BY <1>3, <1>4, <1>5

LEMMA OfGrows ==
  ASSUME NEW d \in Seq(Entry), NEW e \in Seq(Entry), Grown(d, e), NEW lists
  PROVE  Of(d, lists) = {i \in Of(e, lists) : i <= Len(d)}
  <1>1. ASSUME NEW i \in Of(d, lists) PROVE i \in Of(e, lists) /\ i <= Len(d)
    BY DEF Of, Grown
  <1>2. ASSUME NEW i \in Of(e, lists), i <= Len(d) PROVE i \in Of(d, lists)
    <2>1. i \in 1..Len(d)
      BY <1>2 DEF Of
    <2> QED BY <2>1 DEF Of, Grown
  <1> QED BY <1>1, <1>2

\* An entry keeps its place, unless it is voluntary work and work is added.
LEMMA PlaceStays ==
  ASSUME NEW d \in Seq(Entry), NEW e \in Seq(Entry), Grown(d, e), NEW i \in DOMAIN d,
         d[i].list = "volunteer" => e[Len(d) + 1].list # "work"
  PROVE  Place(e, i) = Place(d, i)
  <1>1. i \in 1..Len(d) /\ e[i] = d[i]
    BY DEF Grown
  <1>2. {j \in Of(d, {d[i].list}) : j <= i} = {j \in Of(e, {e[i].list}) : j <= i}
    <2>1. Of(d, {d[i].list}) = {j \in Of(e, {e[i].list}) : j <= Len(d)}
      BY <1>1, OfGrows
    <2>2. \A j \in Of(e, {e[i].list}) : j \in Nat
      BY OfIsFinite
    <2>3. i \in Nat /\ i <= Len(d) /\ Len(d) \in Nat
      BY <1>1
    <2>4. \A j \in Nat : j <= i => j <= Len(d)
      BY <2>3
    <2> QED BY <1>1, <2>1, <2>2, <2>4
  <1>3. Counted(e, i) = Counted(d, i)
    BY <1>2 DEF Counted
  <1>4. CASE d[i].list = "volunteer"
    <2>1. Of(d, {"work"}) = {j \in Of(e, {"work"}) : j <= Len(d)}
      BY OfGrows
    <2>2. \A j \in Of(e, {"work"}) : j <= Len(d)
      <3>1. ASSUME NEW j \in Of(e, {"work"}) PROVE j \in 1..(Len(d) + 1) /\ j # Len(d) + 1
        BY <1>4 DEF Of, Grown
      <3> QED BY <3>1
    <2>3. Of(d, {"work"}) = Of(e, {"work"})
      BY <2>1, <2>2
    <2> QED BY <1>1, <1>3, <1>4, <2>3 DEF Place
  <1>5. CASE d[i].list # "volunteer"
    BY <1>1, <1>3, <1>5 DEF Place
  <1> QED BY <1>4, <1>5

LEMMA ListingGrows ==
  ASSUME NEW d \in Seq(Entry), NEW e \in Seq(Entry), Grown(d, e), NEW lists,
         "volunteer" \in lists =>
             (e[Len(d) + 1].list = "work" => Of(d, {"volunteer"}) = {})
  PROVE  Listing(d, lists) \subseteq Listing(e, lists)
  <1> SUFFICES ASSUME NEW i \in Of(d, lists), ~SkippedEntry(d[i])
               PROVE  Listed(d[i], Place(d, i)) \in Listing(e, lists)
    BY DEF Listing
  <1>1. i \in DOMAIN d /\ i \in Of(e, lists) /\ e[i] = d[i] /\ d[i].list \in lists
    BY OfGrows DEF Of, Grown
  <1>2. d[i].list = "volunteer" => e[Len(d) + 1].list # "work"
    BY <1>1 DEF Of
  <1>3. Place(e, i) = Place(d, i)
    BY <1>1, <1>2, PlaceStays
  <1>4. Listed(e[i], Place(e, i)) \in Listing(e, lists)
    BY <1>1 DEF Listing
  <1> QED BY <1>1, <1>3, <1>4

\* The keys of the records that are made of a list.
KeysIn(prefix, listing) == {Key(prefix, Value(o.entry), o.place) : o \in listing}

LEMMA ListingKeys ==
  ASSUME NEW listing, NEW prefix, NEW records, DOMAIN records = listing,
         \A o \in listing : records[o].key = Key(prefix, Value(o.entry), o.place)
  PROVE  KeysOf(records) = KeysIn(prefix, listing)
  <1>1. ToSet(records) = {records[o] : o \in listing}
    BY DEF ToSet
  <1>2. KeysOf(records) = {records[o].key : o \in listing}
    BY <1>1 DEF KeysOf
  <1> QED BY <1>2 DEF KeysIn

LEMMA PlainKeys ==
  ASSUME NEW listing, NEW prefix
  PROVE  KeysOf(PlainRecords(prefix, listing)) = KeysIn(prefix, listing)
  <1> DEFINE records == PlainRecords(prefix, listing)
  <1>1. DOMAIN records = listing
    BY DEF PlainRecords
  <1>2. ASSUME NEW o \in listing
        PROVE  records[o].key = Key(prefix, Value(o.entry), o.place)
    <2>1. records[o] = SeedRecord(Key(prefix, Value(o.entry), o.place), NoSlug, {}, o.entry)
      BY DEF PlainRecords
    <2> HIDE DEF records
    <2> QED BY <2>1 DEF SeedRecord
  <1> HIDE DEF records
  <1>3. KeysOf(records) = KeysIn(prefix, listing)
    BY <1>1, <1>2, ListingKeys
  <1> QED BY <1>3 DEF records

LEMMA NamedKeys ==
  ASSUME NEW listing, NEW prefix, NEW fallback
  PROVE  KeysOf(NamedRecords(prefix, listing, fallback)) = KeysIn(prefix, listing)
  <1> DEFINE records == NamedRecords(prefix, listing, fallback)
  <1>1. DOMAIN records = listing
    BY DEF NamedRecords
  <1>2. ASSUME NEW o \in listing
        PROVE  records[o].key = Key(prefix, Value(o.entry), o.place)
    <2> DEFINE slug == SlugOf(o.entry.name, <<fallback, o.place>>)
    <2>1. records[o] = SeedRecord(Key(prefix, Value(o.entry), o.place), slug, {}, o.entry)
      BY DEF NamedRecords
    <2> HIDE DEF records, slug
    <2> QED BY <2>1 DEF SeedRecord
  <1> HIDE DEF records
  <1>3. KeysOf(records) = KeysIn(prefix, listing)
    BY <1>1, <1>2, ListingKeys
  <1> QED BY <1>3 DEF records

LEMMA ProjectKeys ==
  ASSUME NEW d
  PROVE  KeysOf(ResumeProjects(d)) = KeysIn("resume.project", Listing(d, {"projects"}))
  <1> DEFINE listing == Listing(d, {"projects"})
             named == NamedRecords("resume.project", listing, "project")
             records == ResumeProjects(d)
  <1>1. DOMAIN named = listing /\ DOMAIN records = listing
    BY DEF ResumeProjects, NamedRecords
  <1>2. ASSUME NEW o \in listing
        PROVE  records[o].key = Key("resume.project", Value(o.entry), o.place)
    <2> DEFINE made == records[o]
               key == Key("resume.project", Value(o.entry), o.place)
               slug == SlugOf(o.entry.name, <<"project", o.place>>)
               skills == ProjectSkills(d, o.entry)
    <2>1. named[o] = SeedRecord(key, slug, {}, o.entry)
      BY DEF NamedRecords
    <2>2. made = [named[o] EXCEPT !.refs = skills]
      BY <1>1 DEF ResumeProjects
    <2> HIDE DEF named, made, slug, skills, key
    <2>3. made = SeedRecord(key, slug, skills, o.entry)
      BY <2>1, <2>2, Referring
    <2>4. made.key = key
      BY <2>3 DEF SeedRecord
    <2> QED BY <2>4 DEF made, key
  <1> HIDE DEF records, listing
  <1>3. KeysOf(records) = KeysIn("resume.project", listing)
    BY <1>1, <1>2, ListingKeys
  <1> QED BY <1>3 DEF records, listing

LEMMA LinkKeys ==
  ASSUME NEW d
  PROVE  KeysOf(ResumeLinks(d)) = KeysIn("resume.social", Listing(d, {"profiles"}))
  <1> DEFINE listing == Listing(d, {"profiles"})
             plain == PlainRecords("resume.social", listing)
             records == ResumeLinks(d)
  <1>1. DOMAIN plain = listing /\ DOMAIN records = listing
    BY DEF ResumeLinks, PlainRecords
  <1>2. ASSUME NEW o \in listing
        PROVE  records[o].key = Key("resume.social", Value(o.entry), o.place)
    <2> DEFINE made == records[o]
               key == Key("resume.social", Value(o.entry), o.place)
               profile == {ProfileKey("resume.profile")}
    <2>1. plain[o] = SeedRecord(key, NoSlug, {}, o.entry)
      BY DEF PlainRecords
    <2>2. made = [plain[o] EXCEPT !.refs = profile]
      BY <1>1 DEF ResumeLinks
    <2> HIDE DEF plain, made, profile, key
    <2>3. made = SeedRecord(key, NoSlug, profile, o.entry)
      BY <2>1, <2>2, Referring
    <2>4. made.key = key
      BY <2>3 DEF SeedRecord
    <2> QED BY <2>4 DEF made, key
  <1> HIDE DEF records, listing
  <1>3. KeysOf(records) = KeysIn("resume.social", listing)
    BY <1>1, <1>2, ListingKeys
  <1> QED BY <1>3 DEF records, listing

FileKeys(d, list, kind, key) ==
  {Key(key, <<>>, 0) : i \in {j \in Of(d, {list}) : d[j].name \in kind}}

LEMMA AssetKeys ==
  ASSUME NEW d, NEW list, NEW kind, NEW key
  PROVE  KeysOf(ResumeAssets(d, list, kind, key)) = FileKeys(d, list, kind, key)
  <1> DEFINE kept == {j \in Of(d, {list}) : d[j].name \in kind}
             records == ResumeAssets(d, list, kind, key)
             profile == {ProfileKey("resume.profile")}
  <1>1. DOMAIN records = kept
    BY DEF ResumeAssets
  <1>2. ASSUME NEW i \in kept PROVE records[i].key = Key(key, <<>>, 0)
    <2>1. records[i] = SeedRecord(Key(key, <<>>, 0), NoSlug, profile, NoPeriod)
      BY DEF ResumeAssets
    <2> HIDE DEF records, profile
    <2> QED BY <2>1 DEF SeedRecord
  <1> HIDE DEF records, kept
  <1>3. ToSet(records) = {records[i] : i \in kept}
    BY <1>1 DEF ToSet
  <1>4. KeysOf(records) = {records[i].key : i \in kept}
    BY <1>3 DEF KeysOf
  <1>5. KeysOf(records) = {Key(key, <<>>, 0) : i \in kept}
    BY <1>2, <1>4
  <1> QED BY <1>5 DEF FileKeys, records, kept

LEMMA MentionsGrow ==
  ASSUME NEW d \in Seq(Entry), NEW e \in Seq(Entry), Grown(d, e)
  PROVE  /\ \A m \in Mentions(d) : m \in Mentions(e) /\ m[1] \in 1..Len(d) /\ Said(e, m) = Said(d, m)
         /\ \A m \in Mentions(e) : m \in Mentions(d) \/ m[1] = Len(d) + 1
  <1>1. ASSUME NEW m \in Mentions(d)
        PROVE  m \in Mentions(e) /\ m[1] \in 1..Len(d) /\ Said(e, m) = Said(d, m)
    <2>1. PICK i \in DOMAIN d, k \in Nat :
             /\ m = <<i, k>> /\ m[1] = i /\ m[2] = k /\ d[i].list \in {"skills", "projects"}
             /\ \/ k > 0 /\ k \in DOMAIN d[i].keywords
                \/ k = 0 /\ d[i].list = "skills" /\ d[i].keywords = <<>>
      BY MentionShape
    <2>2. i \in 1..Len(d) /\ i \in DOMAIN e /\ e[i] = d[i]
      BY DEF Grown
    <2>3. CASE k > 0 /\ k \in DOMAIN d[i].keywords
      <3>1. i \in Of(e, {"skills", "projects"}) /\ k \in DOMAIN e[i].keywords
        BY <2>1, <2>2, <2>3 DEF Of
      <3>2. m \in {<<i, l>> : l \in DOMAIN e[i].keywords}
        BY <2>1, <3>1
      <3> QED BY <2>1, <2>2, <3>1, <3>2 DEF Mentions, Said
    <2>4. CASE k = 0 /\ d[i].list = "skills" /\ d[i].keywords = <<>>
      <3>1. i \in Of(e, {"skills"}) /\ e[i].keywords = <<>>
        BY <2>1, <2>2, <2>4 DEF Of
      <3>2. m \in Mentions(e)
        BY <2>1, <2>4, <3>1 DEF Mentions
      <3> QED BY <2>1, <2>2, <3>2 DEF Said
    <2> QED BY <2>1, <2>3, <2>4
  <1>2. ASSUME NEW m \in Mentions(e), m[1] # Len(d) + 1
        PROVE  m \in Mentions(d)
    <2>1. PICK i \in DOMAIN e, k \in Nat :
             /\ m = <<i, k>> /\ m[1] = i /\ m[2] = k /\ e[i].list \in {"skills", "projects"}
             /\ \/ k > 0 /\ k \in DOMAIN e[i].keywords
                \/ k = 0 /\ e[i].list = "skills" /\ e[i].keywords = <<>>
      BY MentionShape
    <2>2. i \in 1..(Len(d) + 1) /\ i # Len(d) + 1
      BY <1>2, <2>1 DEF Grown
    <2>3. i \in 1..Len(d)
      BY <2>2
    <2>4. i \in DOMAIN d /\ e[i] = d[i]
      BY <2>3 DEF Grown
    <2>5. CASE k > 0 /\ k \in DOMAIN e[i].keywords
      <3>1. i \in Of(d, {"skills", "projects"}) /\ k \in DOMAIN d[i].keywords
        BY <2>1, <2>4, <2>5 DEF Of
      <3>2. m \in {<<i, l>> : l \in DOMAIN d[i].keywords}
        BY <2>1, <3>1
      <3> QED BY <3>1, <3>2 DEF Mentions
    <2>6. CASE k = 0 /\ e[i].list = "skills" /\ e[i].keywords = <<>>
      <3>1. i \in Of(d, {"skills"}) /\ d[i].keywords = <<>>
        BY <2>1, <2>4, <2>6 DEF Of
      <3> QED BY <2>1, <2>6, <3>1 DEF Mentions
    <2> QED BY <2>1, <2>5, <2>6
  <1> QED BY <1>1, <1>2

\* What is added mentions nothing before what is there, unless it is one of
\* the document's skills and there are projects that mention some.
SkillsKeepLast(d, added) ==
  added.list = "skills" => \A i \in Of(d, {"projects"}) : d[i].keywords = <<>>

LEMMA AddedMentionsAreLast ==
  ASSUME NEW d \in Seq(Entry), NEW e \in Seq(Entry), Grown(d, e), SkillsKeepLast(d, e[Len(d) + 1]),
         NEW m \in Mentions(d), NEW n \in Mentions(e), Earlier(e, n, m)
  PROVE  n \in Mentions(d) /\ Earlier(d, n, m)
  <1>1. PICK i \in DOMAIN d, k \in Nat :
           /\ m[1] = i /\ m[2] = k
           /\ \/ k > 0 /\ k \in DOMAIN d[i].keywords
              \/ k = 0 /\ d[i].list = "skills" /\ d[i].keywords = <<>>
    BY MentionShape
  <1>2. i \in 1..Len(d) /\ e[i] = d[i]
    BY DEF Grown
  <1>3. n[1] # Len(d) + 1
    <2> SUFFICES ASSUME n[1] = Len(d) + 1 PROVE FALSE
      OBVIOUS
    <2>1. e[Len(d) + 1].list = "skills" /\ d[i].list = "projects"
      BY <1>1, <1>2 DEF Earlier
    <2>2. d[i].keywords = <<>>
      BY <2>1 DEF SkillsKeepLast, Of
    <2>3. DOMAIN d[i].keywords = {}
      BY <2>2
    <2> QED BY <1>1, <2>1, <2>3
  <1>4. n \in Mentions(d)
    BY <1>3, MentionsGrow
  <1>5. n[1] \in 1..Len(d)
    BY <1>4, MentionsGrow
  <1>6. e[n[1]] = d[n[1]] /\ e[m[1]] = d[m[1]]
    BY <1>1, <1>2, <1>5 DEF Grown
  <1> QED BY <1>4, <1>6 DEF Earlier

LEMMA EarlierStays ==
  ASSUME NEW d \in Seq(Entry), NEW e \in Seq(Entry), Grown(d, e),
         NEW m \in Mentions(d), NEW n \in Mentions(d), Earlier(d, n, m)
  PROVE  Earlier(e, n, m)
  <1>1. m[1] \in 1..Len(d) /\ n[1] \in 1..Len(d)
    BY MentionsGrow
  <1>2. e[n[1]] = d[n[1]] /\ e[m[1]] = d[m[1]]
    BY <1>1 DEF Grown
  <1> QED BY <1>2 DEF Earlier

\* A skill stays, and keeps its key.
LEMMA SkillsStay ==
  ASSUME NEW d \in Seq(Entry), NEW e \in Seq(Entry), Grown(d, e), SkillsKeepLast(d, e[Len(d) + 1]),
         NEW m \in NewSkills(d)
  PROVE  m \in NewSkills(e) /\ SkillKey(e, m) = SkillKey(d, m)
  <1>1. m \in Mentions(d) /\ \A n \in Mentions(d) :
            Earlier(d, n, m) => Folded[Said(d, n)] # Folded[Said(d, m)]
    BY DEF NewSkills
  <1>2. m \in Mentions(e) /\ Said(e, m) = Said(d, m)
    BY <1>1, MentionsGrow
  <1>3. ASSUME NEW o \in NewSkills(d) PROVE o \in NewSkills(e)
    <2>1. o \in Mentions(d) /\ \A n \in Mentions(d) :
              Earlier(d, n, o) => Folded[Said(d, n)] # Folded[Said(d, o)]
      BY DEF NewSkills
    <2>2. o \in Mentions(e) /\ Said(e, o) = Said(d, o)
      BY <2>1, MentionsGrow
    <2>3. ASSUME NEW n \in Mentions(e), Earlier(e, n, o)
          PROVE  Folded[Said(e, n)] # Folded[Said(e, o)]
      <3>1. n \in Mentions(d) /\ Earlier(d, n, o)
        BY <2>1, <2>3, AddedMentionsAreLast
      <3>2. Said(e, n) = Said(d, n)
        BY <3>1, MentionsGrow
      <3> QED BY <2>1, <2>2, <3>1, <3>2
    <2> QED BY <2>2, <2>3 DEF NewSkills
  <1>4. ASSUME NEW n \in NewSkills(e), Earlier(e, n, m)
        PROVE  n \in NewSkills(d) /\ Earlier(d, n, m)
    <2>1. n \in Mentions(e) /\ \A o \in Mentions(e) :
              Earlier(e, o, n) => Folded[Said(e, o)] # Folded[Said(e, n)]
      BY DEF NewSkills
    <2>2. n \in Mentions(d) /\ Earlier(d, n, m)
      BY <1>1, <1>4, <2>1, AddedMentionsAreLast
    <2>3. ASSUME NEW o \in Mentions(d), Earlier(d, o, n)
          PROVE  Folded[Said(d, o)] # Folded[Said(d, n)]
      <3>1. o \in Mentions(e) /\ Said(e, o) = Said(d, o) /\ Said(e, n) = Said(d, n)
        BY <2>2, MentionsGrow
      <3>2. Earlier(e, o, n)
        BY <2>2, <2>3, EarlierStays
      <3> QED BY <2>1, <3>1, <3>2
    <2> QED BY <2>2, <2>3 DEF NewSkills
  <1>5. ASSUME NEW n \in NewSkills(d), Earlier(d, n, m) PROVE Earlier(e, n, m)
    BY <1>1, <1>5, EarlierStays DEF NewSkills
  <1>6. {n \in NewSkills(e) : n = m \/ Earlier(e, n, m)} =
        {n \in NewSkills(d) : n = m \/ Earlier(d, n, m)}
    BY <1>3, <1>4, <1>5
  <1>7. SkillPlace(e, m) = SkillPlace(d, m)
    BY <1>6 DEF SkillPlace
  <1> QED BY <1>2, <1>3, <1>7 DEF SkillKey

LEMMA SkillKeysGrow ==
  ASSUME NEW d \in Seq(Entry), NEW e \in Seq(Entry), Grown(d, e), SkillsKeepLast(d, e[Len(d) + 1])
  PROVE  KeysOf(Skills(d)) \subseteq KeysOf(Skills(e))
  <1> DEFINE records == Skills(d)
  <1>1. ASSUME NEW m \in NewSkills(d) PROVE records[m].key = SkillKey(d, m)
    <2> DEFINE key == SkillKey(d, m)
               slug == SlugOf(Said(d, m), <<"skill", SkillPlace(d, m)>>)
               refs == SkillGroup(d, m)
    <2>1. records[m] = SeedRecord(key, slug, refs, NoPeriod)
      BY DEF Skills
    <2> HIDE DEF records, key, slug, refs
    <2>2. records[m].key = key
      BY <2>1 DEF SeedRecord
    <2> QED BY <2>2 DEF key
  <1>2. DOMAIN records = NewSkills(d)
    BY DEF Skills
  <1> HIDE DEF records
  <1>3. ASSUME NEW key \in KeysOf(records) PROVE \E m \in NewSkills(d) : key = SkillKey(d, m)
    BY <1>1, <1>2 DEF KeysOf, ToSet
  <1>4. ASSUME NEW m \in NewSkills(d) PROVE SkillKey(d, m) \in KeysOf(Skills(e))
    <2>1. m \in NewSkills(e) /\ SkillKey(e, m) = SkillKey(d, m)
      BY SkillsStay
    <2>2. SkillKey(e, m) \in KeysOf(Skills(e))
      BY <2>1, SkillsMade
    <2> QED BY <2>1, <2>2
  <1> QED BY <1>3, <1>4 DEF records

LEMMA CategoryKeysGrow ==
  ASSUME NEW d \in Seq(Entry), NEW e \in Seq(Entry), Grown(d, e)
  PROVE  KeysOf(Categories(d)) \subseteq KeysOf(Categories(e))
  <1> DEFINE records == Categories(d)
  <1>1. DOMAIN records \subseteq GroupEntries(d)
    BY DEF Categories
  <1>2. ASSUME NEW i \in DOMAIN records PROVE records[i].key = CategoryKey(d[i].name)
    <2> DEFINE key == CategoryKey(d[i].name)
               slug == SlugOf(d[i].name, <<"skill-group", Place(d, i)>>)
    <2>1. records[i] = SeedRecord(key, slug, {}, NoPeriod)
      BY DEF Categories
    <2> HIDE DEF records, key, slug
    <2>2. records[i].key = key
      BY <2>1 DEF SeedRecord
    <2> QED BY <2>2 DEF key
  <1> HIDE DEF records
  <1>3. ASSUME NEW key \in KeysOf(records)
        PROVE  \E i \in GroupEntries(d) : key = CategoryKey(d[i].name)
    BY <1>1, <1>2 DEF KeysOf, ToSet
  <1>4. ASSUME NEW i \in GroupEntries(d) PROVE CategoryKey(d[i].name) \in KeysOf(Categories(e))
    <2>1. i \in Of(d, {"skills"}) /\ d[i].keywords # <<>>
      BY DEF GroupEntries
    <2>2. i \in Of(e, {"skills"}) /\ e[i] = d[i]
      BY <2>1, OfGrows DEF Grown, Of
    <2>3. i \in GroupEntries(e)
      BY <2>1, <2>2 DEF GroupEntries
    <2>4. CategoryKey(e[i].name) \in KeysOf(Categories(e))
      BY <2>3, CategoriesMade
    <2> QED BY <2>2, <2>4
  <1> QED BY <1>3, <1>4 DEF records

LEMMA AssetKeysGrow ==
  ASSUME NEW d \in Seq(Entry), NEW e \in Seq(Entry), Grown(d, e), NEW list, NEW kind, NEW key
  PROVE  KeysOf(ResumeAssets(d, list, kind, key)) \subseteq KeysOf(ResumeAssets(e, list, kind, key))
  <1>1. \A i \in Of(d, {list}) : i \in Of(e, {list}) /\ e[i] = d[i]
    BY OfGrows DEF Grown, Of
  <1>2. FileKeys(d, list, kind, key) \subseteq FileKeys(e, list, kind, key)
    BY <1>1 DEF FileKeys
  <1> QED BY <1>2, AssetKeys

LEMMA ManifestsGrow ==
  ASSUME NEW old, NEW new, \A g \in Collections : KeysOf(old[g]) \subseteq KeysOf(new[g])
  PROVE  {x.key : x \in RecordsOf(old)} \subseteq {x.key : x \in RecordsOf(new)}
  <1> SUFFICES ASSUME NEW x \in RecordsOf(old) PROVE \E y \in RecordsOf(new) : y.key = x.key
    OBVIOUS
  <1>1. PICK g \in Collections : x \in ToSet(old[g])
    BY DEF RecordsOf
  <1>2. x.key \in KeysOf(new[g])
    BY <1>1 DEF KeysOf
  <1>3. PICK y \in ToSet(new[g]) : y.key = x.key
    BY <1>2 DEF KeysOf
  <1> QED BY <1>3 DEF RecordsOf

LEMMA KeysInGrow ==
  ASSUME NEW listing, NEW larger, listing \subseteq larger, NEW prefix
  PROVE  KeysIn(prefix, listing) \subseteq KeysIn(prefix, larger)
  BY DEF KeysIn

\* What is added to a document leaves its keys, but for voluntary work after
\* work and for skills that projects mention.
LEMMA ResumesGrow ==
  ASSUME NEW d \in Seq(Entry), NEW e \in Seq(Entry), Grown(d, e), SkillsKeepLast(d, e[Len(d) + 1]),
         e[Len(d) + 1].list = "work" => Of(d, {"volunteer"}) = {}
  PROVE  \A g \in Collections : KeysOf(ResumeManifest(d)[g]) \subseteq KeysOf(ResumeManifest(e)[g])
  <1> DEFINE old == ResumeManifest(d)
             new == ResumeManifest(e)
  <1>1. ASSUME NEW lists, NEW prefix
        PROVE  KeysIn(prefix, Listing(d, lists)) \subseteq KeysIn(prefix, Listing(e, lists))
    <2>1. Listing(d, lists) \subseteq Listing(e, lists)
      BY ListingGrows
    <2> QED BY <2>1, KeysInGrow
  <1>2. KeysOf(old["profiles"]) \subseteq KeysOf(new["profiles"])
    BY DEF ResumeManifest
  <1>3. KeysOf(old["portraits"]) \subseteq KeysOf(new["portraits"])
    BY AssetKeysGrow DEF ResumeManifest
  <1>4. KeysOf(old["versions"]) \subseteq KeysOf(new["versions"])
    BY AssetKeysGrow DEF ResumeManifest
  <1>5. KeysOf(old["links"]) \subseteq KeysOf(new["links"])
    BY <1>1, LinkKeys DEF ResumeManifest
  <1>6. KeysOf(old["categories"]) \subseteq KeysOf(new["categories"])
    BY CategoryKeysGrow DEF ResumeManifest
  <1>7. KeysOf(old["skills"]) \subseteq KeysOf(new["skills"])
    BY SkillKeysGrow DEF ResumeManifest
  <1>8. KeysOf(old["projects"]) \subseteq KeysOf(new["projects"])
    BY <1>1, ProjectKeys DEF ResumeManifest
  <1>9. KeysOf(old["experiences"]) \subseteq KeysOf(new["experiences"])
    BY <1>1, PlainKeys DEF ResumeManifest
  <1>10. KeysOf(old["education"]) \subseteq KeysOf(new["education"])
    BY <1>1, PlainKeys DEF ResumeManifest
  <1>11. KeysOf(old["certifications"]) \subseteq KeysOf(new["certifications"])
    BY <1>1, PlainKeys DEF ResumeManifest
  <1>12. KeysOf(old["testimonials"]) \subseteq KeysOf(new["testimonials"])
    BY <1>1, PlainKeys DEF ResumeManifest
  <1> HIDE DEF old, new
  <1>13. \A g \in Collections : KeysOf(old[g]) \subseteq KeysOf(new[g])
    BY <1>2, <1>3, <1>4, <1>5, <1>6, <1>7, <1>8, <1>9, <1>10, <1>11, <1>12 DEF Collections
  <1> QED BY <1>13 DEF old, new

\* What is added to an archive leaves its keys.
LEMMA LinkedinsGrow ==
  ASSUME NEW d \in Seq(Member), NEW e \in Seq(Member), Grown(d, e)
  PROVE  \A g \in Collections :
             KeysOf(LinkedinManifest(d)[g]) \subseteq KeysOf(LinkedinManifest(e)[g])
  <1> DEFINE old == LinkedinManifest(d)
             new == LinkedinManifest(e)
  <1>1. ASSUME NEW name, NEW prefix
        PROVE  KeysIn(prefix, RowListing(d, name)) \subseteq KeysIn(prefix, RowListing(e, name))
    <2>1. ASSUME NEW p \in RowsOf(d, name)
          PROVE  p \in RowsOf(e, name) /\ RowAt(e, p) = RowAt(d, p)
      <3>1. PICK i \in {j \in DOMAIN d : d[j].table = name} :
              p \in {<<i, k>> : k \in DOMAIN d[i].rows}
        BY DEF RowsOf
      <3>2. i \in DOMAIN e /\ e[i] = d[i] /\ p[1] = i
        BY <3>1 DEF Grown
      <3>3. i \in {j \in DOMAIN e : e[j].table = name} /\ p \in {<<i, k>> : k \in DOMAIN e[i].rows}
        BY <3>1, <3>2
      <3> QED BY <3>2, <3>3 DEF RowsOf, RowAt
    <2>2. RowListing(d, name) \subseteq RowListing(e, name)
      <3> SUFFICES ASSUME NEW p \in RowsOf(d, name), ~SkippedRow(RowAt(d, p))
                   PROVE  Listed(RowAt(d, p), p[2]) \in RowListing(e, name)
        BY DEF RowListing
      <3>1. p \in {q \in RowsOf(e, name) : ~SkippedRow(RowAt(e, q))} /\ RowAt(e, p) = RowAt(d, p)
        BY <2>1
      <3>2. Listed(RowAt(e, p), p[2]) \in RowListing(e, name)
        BY <3>1 DEF RowListing
      <3> QED BY <3>1, <3>2
    <2> QED BY <2>2, KeysInGrow
  <1>2. /\ KeysOf(old["profiles"]) \subseteq KeysOf(new["profiles"])
        /\ KeysOf(old["portraits"]) \subseteq KeysOf(new["portraits"])
        /\ KeysOf(old["versions"]) \subseteq KeysOf(new["versions"])
        /\ KeysOf(old["links"]) \subseteq KeysOf(new["links"])
        /\ KeysOf(old["categories"]) \subseteq KeysOf(new["categories"])
    BY DEF LinkedinManifest
  <1>3. KeysOf(old["skills"]) \subseteq KeysOf(new["skills"])
    BY <1>1, NamedKeys DEF LinkedinManifest
  <1>4. KeysOf(old["projects"]) \subseteq KeysOf(new["projects"])
    BY <1>1, NamedKeys DEF LinkedinManifest
  <1>5. KeysOf(old["experiences"]) \subseteq KeysOf(new["experiences"])
    BY <1>1, PlainKeys DEF LinkedinManifest
  <1>6. KeysOf(old["education"]) \subseteq KeysOf(new["education"])
    BY <1>1, PlainKeys DEF LinkedinManifest
  <1>7. KeysOf(old["certifications"]) \subseteq KeysOf(new["certifications"])
    BY <1>1, PlainKeys DEF LinkedinManifest
  <1>8. KeysOf(old["testimonials"]) \subseteq KeysOf(new["testimonials"])
    BY <1>1, PlainKeys DEF LinkedinManifest
  <1> HIDE DEF old, new
  <1>9. \A g \in Collections : KeysOf(old[g]) \subseteq KeysOf(new[g])
    BY <1>2, <1>3, <1>4, <1>5, <1>6, <1>7, <1>8 DEF Collections
  <1> QED BY <1>9 DEF old, new

\* Theorem: however a source grew, what was added last leaves the keys of the
\* records before it, so that a second import finds what the first has seeded;
\* except that work is counted before voluntary work, and the document's
\* skills before those that its projects mention.
THEOREM GrowthLeavesKeys == ImportSpec => []GrowthKeepsKeys
  <1>1. ImportShape => GrowthKeepsKeys
    <2> SUFFICES ASSUME ImportShape, document # <<>>
                 PROVE  GrowthKeepsKeys
      BY DEF GrowthKeepsKeys
    <2> DEFINE earlier == Front(document)
               added == Last(document)
    <2>1. CASE source = "resume"
      <3>1. document \in Seq(Entry)
        BY <2>1, ShapesOfSources
      <3>2. /\ earlier \in Seq(Entry) /\ Grown(earlier, document)
            /\ added = document[Len(earlier) + 1]
        BY <3>1, FrontGrows
      <3>3. CASE /\ SkillsKeepLast(earlier, added)
                 /\ added.list = "work" => Of(earlier, {"volunteer"}) = {}
        <4> HIDE DEF earlier, added
        <4>1. \A g \in Collections :
                 KeysOf(ResumeManifest(earlier)[g]) \subseteq KeysOf(ResumeManifest(document)[g])
          BY <3>1, <3>2, <3>3, ResumesGrow
        <4>2. {x.key : x \in RecordsOf(ResumeManifest(earlier))} \subseteq
              {x.key : x \in RecordsOf(ResumeManifest(document))}
          BY <4>1, ManifestsGrow
        <4>3. ImportedKeys(earlier) \subseteq ImportedKeys(document)
          BY <2>1, <4>2 DEF ImportedKeys, Manifest
        <4> QED BY <4>3 DEF GrowthKeepsKeys, earlier, added
      <3>4. CASE ~ /\ SkillsKeepLast(earlier, added)
                   /\ added.list = "work" => Of(earlier, {"volunteer"}) = {}
        BY <2>1, <3>4 DEF SkillsKeepLast, GrowthKeepsKeys
      <3> QED BY <3>3, <3>4
    <2>2. CASE source = "linkedin"
      <3>1. document \in Seq(Member)
        BY <2>2, ShapesOfSources
      <3>2. earlier \in Seq(Member) /\ Grown(earlier, document)
        BY <3>1, FrontGrows
      <3> HIDE DEF earlier, added
      <3>3. \A g \in Collections :
               KeysOf(LinkedinManifest(earlier)[g]) \subseteq KeysOf(LinkedinManifest(document)[g])
        BY <3>1, <3>2, LinkedinsGrow
      <3>4. {x.key : x \in RecordsOf(LinkedinManifest(earlier))} \subseteq
            {x.key : x \in RecordsOf(LinkedinManifest(document))}
        BY <3>3, ManifestsGrow
      <3>5. ImportedKeys(earlier) \subseteq ImportedKeys(document)
        BY <2>2, <3>4 DEF ImportedKeys, Manifest
      <3> QED BY <3>5 DEF GrowthKeepsKeys, earlier
    <2> QED BY <2>1, <2>2 DEF ImportShape
  <1> QED BY ImportInvariance, <1>1, PTL

=============================================================================
