--------------------------- MODULE ManualCapture ---------------------------
(***************************************************************************)
(* Manual Capture and Review of the first version: capture/service.py and   *)
(* capture/review_service.py over the private files of                       *)
(* private_store/filesystem.py.                                             *)
(*                                                                          *)
(* Every command of the command line is a process of its own and there is    *)
(* no lock.  A command first reads the files it decides on; what it then      *)
(* still has to store is its queue in writing[s], one entry per file access. *)
(* A command may be killed before any of them, and two may overlap.  A write *)
(* that the store refuses is never enabled: the command ends there (CutOff). *)
(*                                                                          *)
(* One Capture operation: the files of others do not meet.  An output of the *)
(* model is named by its digest; a Candidate file by its ordinal.            *)
(***************************************************************************)
EXTENDS Integers, Sequences, FiniteSets, SequencesExt, FiniteSetsExt

CONSTANTS
  Shells,                \* commands that may run at the same time
  Forks,                 \* Threads forked from the source
  StageTurns,            \* Turns a stage may be attached to
  Inventories,           \* valid outputs of the inventory stage
  Extractions,           \* valid outputs of the extraction stage
  SizeOf,                \* the Candidates of an extraction
  MaxCandidates,         \* the most Candidates of an extraction (the code: 20)
  Turns,                 \* the user's Turns that approve a Review or publication
  Selections,            \* the choices a Turn may make, per Candidate ordinal
  MaxBatches,            \* bound: Review batches
  None

(* ExtractionManifest: one Turn's output owns the Candidate files.          *)
Manifest == [turn : StageTurns, output : Extractions]

Actions == {"accept", "edit_accept", "reject", "skip"}

ASSUME ManualCaptureAssumption ==
  /\ MaxCandidates \in Nat
  /\ SizeOf \in [Extractions -> 0..MaxCandidates]
  /\ MaxBatches \in Nat \ {0}
  /\ \A items \in Selections : \A k \in DOMAIN items : items[k] \in Actions
  /\ None \notin Forks \cup StageTurns \cup Inventories \cup Extractions \cup Turns
  /\ None \notin Manifest

VARIABLES
  capture,               \* captures/<operation>.json
  inventory,             \* inventories/<operation>.json
  manifest,              \* extraction_manifests/<operation>.json
  candidates,            \* candidates/<operation>_<ordinal>.json
  batches,               \* review_batches/*.json, by the rank of their id
  writing                \* what a running command still has to store

captureVars == <<capture, inventory, manifest, candidates>>

Ordinals == 1..MaxCandidates

(* CaptureRecord: what decides (failure details and times are left out).    *)
Record == [status : {"absent", "prepared", "fork_attached", "inventory_running",
                     "inventory_completed", "extraction_running", "completed",
                     "failed"},
           fork : Forks \cup {None},
           inventoryTurn : StageTurns \cup {None},
           extractionTurn : StageTurns \cup {None},
           inventory : Inventories \cup {None},
           extraction : Extractions \cup {None}]

(* ReviewBatch: the approving Turn, the sequence, the items.                *)
IsBatch(b) ==
  /\ b.turn \in Turns /\ b.sequence \in 1..MaxBatches
  /\ DOMAIN b.items \subseteq Ordinals
  /\ \A k \in DOMAIN b.items : b.items[k] \in Actions

Written(b) == batches[b].turn # None
Batches == {b \in 1..MaxBatches : Written(b)}

CaptureTypeOK ==
  /\ capture \in Record
  /\ inventory \in Inventories \cup {None}
  /\ manifest = None \/ manifest \in Manifest
  /\ candidates \in [Ordinals -> Extractions \cup {None}]
  /\ \A b \in 1..MaxBatches : Written(b) => IsBatch(batches[b])
  /\ \A s \in Shells : \A i \in DOMAIN writing[s] :
       writing[s][i].file \in {"capture", "look", "inventory", "manifest",
                               "candidate", "completed", "batch"}

CaptureInit ==
  /\ capture = [status |-> "absent", fork |-> None, inventoryTurn |-> None,
                extractionTurn |-> None, inventory |-> None, extraction |-> None]
  /\ inventory = None
  /\ manifest = None
  /\ candidates = [k \in Ordinals |-> None]
  /\ batches = [b \in 1..MaxBatches |->
                  [turn |-> None, sequence |-> 0, items |-> <<>>]]
  /\ writing = [s \in Shells |-> <<>>]

-----------------------------------------------------------------------------
Put(file, value) == [file |-> file, value |-> value]

(* The command has read what it needs and goes on to store.                 *)
Stores(s, files) ==
  /\ writing[s] = <<>>
  /\ writing' = [writing EXCEPT ![s] = files]
  /\ UNCHANGED <<captureVars, batches>>

StoresCapture(s, r) == Stores(s, <<Put("capture", r)>>)

(* get_inventory of a replay: the file is there and is the recorded one.    *)
VerifiedInventory == inventory = capture.inventory

(* _verified_extraction_artifacts                                           *)
IsWhole(m) ==
  /\ manifest = m
  /\ \A k \in Ordinals :
       candidates[k] = IF k <= SizeOf[m.output] THEN m.output ELSE None

(* prepare, when there is no record yet; any other record is replayed or     *)
(* refused (CaptureForkAmbiguous) and nothing changes.                      *)
Prepare(s) ==
  /\ capture.status = "absent"
  /\ StoresCapture(s, [capture EXCEPT !.status = "prepared"])

(* attach_fork                                                              *)
AttachFork(s, f) ==
  /\ capture.status = "prepared"
  /\ StoresCapture(s, [capture EXCEPT !.status = "fork_attached", !.fork = f])

(* _attach_stage_turn, for each stage                                       *)
AttachInventoryTurn(s, t) ==
  /\ capture.status = "fork_attached"
  /\ StoresCapture(s, [capture EXCEPT !.status = "inventory_running",
                                      !.inventoryTurn = t])

AttachExtractionTurn(s, t) ==
  /\ capture.status = "inventory_completed"
  /\ VerifiedInventory
  /\ StoresCapture(s, [capture EXCEPT !.status = "extraction_running",
                                      !.extractionTurn = t])

(* _complete_inventory: put_inventory looks before it writes.               *)
CompleteInventory(s, o) ==
  /\ capture.status = "inventory_running"
  /\ Stores(s, <<Put("look", o), Put("inventory", o),
                 Put("capture", [capture EXCEPT !.status = "inventory_completed",
                                                !.inventory = o])>>)

(* _complete_extraction: the manifest first, then its Candidates, then the   *)
(* record.                                                                  *)
CompleteExtraction(s, o) ==
  /\ capture.status = "extraction_running"
  /\ VerifiedInventory
  /\ LET m == [turn |-> capture.extractionTurn, output |-> o]
         files == [k \in 1..SizeOf[o] |-> Put("candidate", [ordinal |-> k, output |-> o])]
     IN  Stores(s, <<Put("manifest", m)>> \o files
                   \o <<Put("completed", [capture EXCEPT !.status = "completed",
                                                         !.extraction = o])>>)

(* record_stage_failure, record_invalid_json and the invalid output of a     *)
(* stage: native_unavailable needs no running Turn, the others do.          *)
FailStage(s) ==
  /\ capture.status \in {"fork_attached", "inventory_running",
                         "inventory_completed", "extraction_running"}
  /\ StoresCapture(s, [capture EXCEPT !.status = "failed"])

-----------------------------------------------------------------------------
(* _reviewable_candidates                                                   *)
Reviewable ==
  /\ capture.status = "completed"
  /\ IsWhole([turn |-> capture.extractionTurn, output |-> capture.extraction])

(* record: the Turn owns no batch yet; the sequence follows the largest.    *)
RecordReview(s, t, items) ==
  /\ \A b \in Batches : batches[b].turn # t
  /\ Reviewable
  /\ DOMAIN items \subseteq 1..SizeOf[capture.extraction]
  /\ Cardinality(Batches) < MaxBatches
  /\ LET last == Max({batches[b].sequence : b \in Batches} \cup {0})
     IN  Stores(s, <<Put("batch", [turn |-> t, sequence |-> last + 1,
                                   items |-> items])>>)

(* latest_items: of the batches in order of their sequence (and, where two   *)
(* have the same, of their ids) the last that names the Candidate.          *)
IsLatest(b, k) ==
  \A c \in Batches : k \in DOMAIN batches[c].items =>
    \/ batches[c].sequence < batches[b].sequence
    \/ batches[c].sequence = batches[b].sequence /\ c <= b

Accepted(b) == {k \in DOMAIN batches[b].items :
                  batches[b].items[k] \in {"accept", "edit_accept"}}

-----------------------------------------------------------------------------
(* The file accesses.                                                       *)
Before(s, file) == writing[s] # <<>> /\ Head(writing[s]).file = file
Value(s) == Head(writing[s]).value
Goes(s) == writing' = [writing EXCEPT ![s] = Tail(@)]

(* put_capture: whatever the file says by now.                              *)
PutCapture(s) ==
  /\ Before(s, "capture") /\ Goes(s)
  /\ capture' = Value(s)
  /\ UNCHANGED <<inventory, manifest, candidates, batches>>

(* put_inventory: an existing file must be the same ...                     *)
LookForInventory(s) ==
  /\ Before(s, "look") /\ inventory \in {None, Value(s)} /\ Goes(s)
  /\ UNCHANGED <<captureVars, batches>>

(* ... but the write that follows replaces it.                              *)
PutInventory(s) ==
  /\ Before(s, "inventory") /\ Goes(s)
  /\ inventory' = Value(s)
  /\ UNCHANGED <<capture, manifest, candidates, batches>>

(* Mutant: the file is replaced.                                            *)
ReplaceManifest(s) ==
  /\ Before(s, "manifest") /\ Goes(s)
  /\ manifest' = Value(s)
  /\ UNCHANGED <<capture, inventory, candidates, batches>>

(* put_extraction_manifest: created, or already the same.                   *)
PutManifest(s) ==
  /\ Before(s, "manifest") /\ Goes(s)
  /\ \/ manifest = None /\ \A k \in Ordinals : candidates[k] = None
     \/ manifest = Value(s)
  /\ manifest' = Value(s)
  /\ UNCHANGED <<capture, inventory, candidates, batches>>

(* put_candidate: created, or already the same.                             *)
PutCandidate(s) ==
  /\ Before(s, "candidate") /\ Goes(s)
  /\ candidates[Value(s).ordinal] \in {None, Value(s).output}
  /\ candidates' = [candidates EXCEPT ![Value(s).ordinal] = Value(s).output]
  /\ UNCHANGED <<capture, inventory, manifest, batches>>

(* The files are verified before the record says completed.                 *)
PutCompleted(s) ==
  /\ Before(s, "completed") /\ Goes(s)
  /\ IsWhole([turn |-> Value(s).extractionTurn, output |-> Value(s).extraction])
  /\ capture' = Value(s)
  /\ UNCHANGED <<inventory, manifest, candidates, batches>>

(* put_review_batch: the id is a digest of the items and the Turn, its rank   *)
(* is not known before; a batch of the same id is another one (it has its    *)
(* own time), so the write is refused.                                      *)
PutBatch(s, b) ==
  /\ Before(s, "batch") /\ ~Written(b) /\ Goes(s)
  /\ \A c \in Batches :
       batches[c].turn # Value(s).turn \/ batches[c].items # Value(s).items
  /\ batches' = [batches EXCEPT ![b] = Value(s)]
  /\ UNCHANGED captureVars

(* The command is killed, or the store refuses its next write.              *)
CutOff(s) ==
  /\ writing[s] # <<>>
  /\ writing' = [writing EXCEPT ![s] = <<>>]
  /\ UNCHANGED <<captureVars, batches>>

Captures(s) ==
  \/ Prepare(s)
  \/ \E f \in Forks : AttachFork(s, f)
  \/ \E t \in StageTurns : AttachInventoryTurn(s, t) \/ AttachExtractionTurn(s, t)
  \/ \E o \in Inventories : CompleteInventory(s, o)
  \/ \E o \in Extractions : CompleteExtraction(s, o)
  \/ FailStage(s)

Reviews(s) == \E t \in Turns, items \in Selections : RecordReview(s, t, items)

Writes(s) ==
  \/ PutCapture(s) \/ LookForInventory(s) \/ PutInventory(s) \/ PutManifest(s)
  \/ PutCandidate(s) \/ PutCompleted(s) \/ CutOff(s)
  \/ \E b \in 1..MaxBatches : PutBatch(s, b)

-----------------------------------------------------------------------------
(* A Capture that says completed has the manifest of its Turn and output and  *)
(* exactly the Candidates of that output, whatever commands overlapped or    *)
(* were killed on the way (capture/service.py _complete_extraction).         *)
CompletedIsWhole == capture.status = "completed" => Reviewable

(* Each Review of a Capture has a sequence of its own, so that the newest is  *)
(* known (review_service.py record, latest_items).                          *)
SequencesIncrease ==
  \A b, c \in Batches : b # c => batches[b].sequence # batches[c].sequence
=============================================================================
