---------------------- MODULE ManualPublicationProofs ----------------------
(***************************************************************************)
(* The first version's commands, which share files without a lock: a         *)
(* completed Capture is whole, a Candidate is published once, and receipts    *)
(* and publication records agree with Git, for any number of overlapping      *)
(* commands, Candidates, Review batches and foreign commits.                 *)
(***************************************************************************)
EXTENDS ManualPublication, FiniteSetTheorems, WellFoundedInduction, TLAPS

USE ManualCaptureAssumption

-----------------------------------------------------------------------------
(* The least and the largest of a set of numbers.                           *)

LEMMA SmallestOf ==
  ASSUME NEW S \in SUBSET Nat, S # {}
  PROVE  \E x \in S : \A y \in S : x <= y
  <1> DEFINE R == OpToRel(<, Nat)
  <1>1. IsWellFoundedOn(R, Nat)
    BY NatLessThanWellFounded
  <1>2. ASSUME NEW x \in Nat, NEW y \in Nat, ~(<<x, y>> \in R)
        PROVE  ~(x < y)
    BY <1>2 DEF OpToRel
  <1> HIDE DEF R
  <1>3. PICK x \in S : \A y \in S : ~ (<<y, x>> \in R)
    BY <1>1, WFMin
  <1>4. ASSUME NEW y \in S PROVE x <= y
    <2>1. ~(<<y, x>> \in R) /\ x \in Nat /\ y \in Nat
      BY <1>3
    <2>2. ~(y < x)
      BY <2>1, <1>2
    <2> QED
      BY <2>1, <2>2
  <1> QED
    BY <1>4

LEMMA LargestOf ==
  ASSUME NEW n \in Nat, NEW S \in SUBSET (0..n), S # {}
  PROVE  \E x \in S : \A y \in S : x >= y
  <1> DEFINE T == {n - x : x \in S}
  <1>1. T \in SUBSET Nat /\ T # {}
    OBVIOUS
  <1>2. PICK m \in T : \A y \in T : m <= y
    BY <1>1, SmallestOf
  <1>3. PICK x \in S : m = n - x
    OBVIOUS
  <1>4. ASSUME NEW y \in S PROVE x >= y
    <2>1. m <= n - y
      BY <1>2
    <2> QED
      BY <1>3, <2>1
  <1> QED
    BY <1>4
LEMMA MinIn ==
  ASSUME NEW S \in SUBSET Nat, S # {}
  PROVE  Min(S) \in S
  BY SmallestOf DEF Min

-----------------------------------------------------------------------------
(* The Capture.                                                             *)

(* A record whose extraction runs has its Turn, and a completed one its      *)
(* output as well.                                                          *)
Staged ==
  {r \in Record :
     /\ r.status \in {"extraction_running", "completed"} =>
          r.extractionTurn \in StageTurns
     /\ r.status = "completed" => r.extraction \in Extractions}

(* What a queue may hold: a completed record only behind its files, a         *)
(* Candidate only of an ordinal its output has.                             *)
Candidates == [ordinal : Ordinals, output : Extractions]
Review == [turn : Turns, sequence : 1..MaxBatches,
           items : {i \in Selections : DOMAIN i \subseteq Ordinals}]
NoReview == [turn |-> None, sequence |-> 0, items |-> <<>>]

Entries ==
       [file : {"capture"}, value : {r \in Staged : r.status # "completed"}]
  \cup [file : {"look", "inventory"}, value : Inventories]
  \cup [file : {"manifest"}, value : Manifest]
  \cup [file : {"candidate"},
        value : {c \in Candidates : c.ordinal <= SizeOf[c.output]}]
  \cup [file : {"completed"}, value : {r \in Staged : r.status = "completed"}]
  \cup [file : {"batch"}, value : Review]

(* A Candidate that is still to be stored has its manifest before it, in the *)
(* store or at the head of the same queue.                                  *)
Owned(q) ==
  \A i \in DOMAIN q : q[i].file = "candidate" =>
    \/ manifest # None /\ manifest.output = q[i].value.output
    \/ q[1].file = "manifest" /\ q[1].value.output = q[i].value.output

(* No sequence is beyond the number of batches.                             *)
Numbered ==
  /\ \A b \in Batches : batches[b].sequence <= Cardinality(Batches)
  /\ \A s \in Shells : \A i \in DOMAIN writing[s] :
       writing[s][i].file = "batch" =>
         writing[s][i].value.sequence <= Cardinality(Batches) + 1

CaptureInv ==
  /\ capture \in Staged
  /\ inventory \in Inventories \cup {None}
  /\ manifest = None \/ manifest \in Manifest
  /\ candidates \in [Ordinals -> Extractions \cup {None}]
  /\ writing \in [Shells -> Seq(Entries)]
  /\ batches \in [1..MaxBatches -> Review \cup {NoReview}]
  /\ \A s \in Shells : Owned(writing[s])
  /\ Numbered
  /\ CompletedIsWhole

-----------------------------------------------------------------------------
(* The publications.                                                        *)

(* The graph of commits is made parent first, and past is its ancestry.     *)
History ==
  \A i \in DOMAIN commits :
    /\ commits[i].past \subseteq 1 .. i /\ i \in commits[i].past
    /\ commits[i].parent < i
    /\ commits[i].parent # 0 =>
         commits[i].past = commits[commits[i].parent].past \cup {i}
    /\ \A j \in commits[i].past : commits[j].past \subseteq commits[i].past

(* Publications in the history are of written Reviews, and no two share an    *)
(* accepted Candidate: of every commit, not only the two main branches.      *)
Traced ==
  \A i \in DOMAIN commits :
    commits[i].by # NoPreview => commits[i].by.batch \in Batches

Disjoint(c) ==
  \A p, q \in Tree(c) : p # q => Accepted(p.batch) \cap Accepted(q.batch) = {}

(* None of the preview's Candidates is published at its base.  The base never *)
(* changes, so this outlives every later step.                              *)
Cleared(p) ==
  \A q \in Tree(p.base) : Accepted(q.batch) \cap Accepted(p.batch) = {}

Committed(c, p) == c \in DOMAIN commits /\ IsExactCommit(c, p)

ReceiptsOf(p) ==
  \A k \in Accepted(p.batch) : HasReceipt(k) /\ receipts[k].preview = p

(* A record past the preview, stored or still to be stored.                 *)
Sound(r, p) ==
  /\ r \in Publications /\ HasShape(r) /\ r.state # "previewed"
  /\ r.state \in {"committed_pending_push", "completed"} =>
       Committed(r.commit, p) /\ ReceiptsOf(p)
  /\ r.state = "completed" => IsAncestor(r.commit, remote)

Previewed == [state |-> "previewed", turn |-> None, commit |-> 0]

Recorded(p) ==
  /\ p \in Preview /\ p.batch \in Batches /\ p.base \in DOMAIN commits
  /\ pubs[p] = Previewed \/ (Sound(pubs[p], p) /\ Cleared(p))

Receipted(k) ==
  HasReceipt(k) =>
    /\ receipts[k].turn \in Turns
    /\ Committed(receipts[k].commit, receipts[k].preview)
    /\ receipts[k].preview \in DOMAIN pubs
    /\ pubs[receipts[k].preview].state # "previewed"
    /\ k \in Accepted(receipts[k].preview.batch)

(* What a command knows at each of its steps.                               *)
Command == [at : Steps, p : Preview, turn : Turns \cup {None},
            held : Publications \cup {None}, next : Publications \cup {None}]

Knows(c) ==
  /\ c.at \in {"look", "create"} => c.p.batch \in Batches
  /\ c.at = "create" => c.p.base \in DOMAIN commits
  /\ c.at \in {"compare", "replace"} =>
       c.p \in DOMAIN pubs /\ Cleared(c.p) /\ Sound(c.next, c.p)
  /\ c.at \in {"resume", "write", "commit", "receipts", "remote"} =>
       c.p \in DOMAIN pubs /\ pubs[c.p].state # "previewed"
  /\ c.at \in {"write", "commit", "receipts"} =>
       c.held \in Publications /\ c.held.turn \in Turns
  /\ c.at \in {"write", "commit"} => c.held.state = "confirmed"
  /\ c.at = "receipts" =>
       /\ c.held.state \in {"confirmed", "committed_pending_push"}
       /\ Committed(c.held.commit, c.p)
  /\ c.at = "remote" =>
       Sound(c.held, c.p) /\ c.held.state = "committed_pending_push"

GitInv == GitTypeOK /\ History /\ Traced /\ \A c \in DOMAIN commits : Disjoint(c)

RecordsInv ==
  /\ \A p \in DOMAIN pubs : Recorded(p)
  /\ receipts \in [Ordinals -> [preview : Preview, commit : Nat,
                                turn : Turns \cup {None}]]
  /\ \A k \in Ordinals : Receipted(k)

CommandsInv ==
  /\ publishing \in [Shells -> Command]
  /\ \A s \in Shells : Knows(publishing[s])
  /\ \A s \in Shells : publishing[s].at # "idle" => writing[s] = <<>>

PublicationInv == GitInv /\ RecordsInv /\ CommandsInv

ManualInv == CaptureInv /\ PublicationInv

-----------------------------------------------------------------------------
(* The queues of the commands.                                              *)

LEMMA EntryFiles ==
  ASSUME NEW e \in Entries
  PROVE  /\ e.file \in {"capture", "look", "inventory", "manifest", "candidate",
                        "completed", "batch"}
         /\ e.file = "capture" => e.value \in Staged /\ e.value.status # "completed"
         /\ e.file = "inventory" => e.value \in Inventories
         /\ e.file = "manifest" => e.value \in Manifest
         /\ e.file = "candidate" =>
              e.value \in Candidates /\ e.value.ordinal <= SizeOf[e.value.output]
         /\ e.file = "completed" => e.value \in Staged
         /\ e.file = "batch" => e.value \in Review
  BY DEF Entries

LEMMA QueueFacts ==
  ASSUME NEW q \in Seq(Entries), q # <<>>
  PROVE  /\ Head(q) \in Entries /\ Head(q) = q[1] /\ 1 \in DOMAIN q
         /\ Tail(q) \in Seq(Entries)
         /\ \A i \in DOMAIN Tail(q) : i + 1 \in DOMAIN q /\ Tail(q)[i] = q[i + 1]
  <1> DEFINE E == Entries
  <1> HIDE DEF E
  <1>1. q \in Seq(E)
    BY DEF E
  <1>2. /\ Head(q) \in E /\ Head(q) = q[1] /\ 1 \in DOMAIN q
        /\ Tail(q) \in Seq(E)
        /\ \A i \in DOMAIN Tail(q) : i + 1 \in DOMAIN q /\ Tail(q)[i] = q[i + 1]
    BY <1>1
  <1> QED
    BY <1>2 DEF E

LEMMA NoReviewIsNone ==
  /\ NoReview.turn = None
  /\ \A r \in Review : r.turn # None /\ r.turn \in Turns
  BY DEF NoReview, Review

LEMMA BatchFacts ==
  ASSUME CaptureInv
  PROVE  /\ Batches \subseteq 1..MaxBatches
         /\ IsFiniteSet(Batches) /\ Cardinality(Batches) \in Nat
         /\ \A b \in Batches : batches[b] \in Review /\ IsBatch(batches[b])
         /\ \A b \in 1..MaxBatches \ Batches : batches[b] = NoReview
  <1>1. Batches \subseteq 1..MaxBatches
    BY DEF Batches
  <1>2. IsFiniteSet(1..MaxBatches)
    BY FS_Interval
  <1>3. IsFiniteSet(Batches) /\ Cardinality(Batches) \in Nat
    BY <1>1, <1>2, FS_Subset, FS_CardinalityType
  <1>4. ASSUME NEW b \in Batches PROVE batches[b] \in Review
    BY <1>4, <1>1, NoReviewIsNone DEF Batches, Written, CaptureInv
  <1>5. \A r \in Review : IsBatch(r)
    BY DEF Review, IsBatch
  <1>6. ASSUME NEW b \in 1..MaxBatches \ Batches PROVE batches[b] = NoReview
    BY <1>6, NoReviewIsNone DEF Batches, Written, CaptureInv
  <1> QED
    BY <1>1, <1>3, <1>4, <1>5, <1>6

LEMMA CaptureTypes == CaptureInv => CaptureTypeOK
  <1> SUFFICES ASSUME CaptureInv PROVE CaptureTypeOK
    OBVIOUS
  <1>1. \A b \in 1..MaxBatches : Written(b) => IsBatch(batches[b])
    BY BatchFacts DEF Batches
  <1>2. ASSUME NEW s \in Shells, NEW i \in DOMAIN writing[s]
        PROVE  writing[s][i] \in Entries
    BY DEF CaptureInv
  <1>3. \A s \in Shells : \A i \in DOMAIN writing[s] :
          writing[s][i].file \in {"capture", "look", "inventory", "manifest",
                                  "candidate", "completed", "batch"}
    BY <1>2, EntryFiles
  <1> QED
    BY <1>1, <1>3 DEF CaptureInv, CaptureTypeOK, Staged

(* A command that begins to store disturbs nothing, if its queue is in order. *)
LEMMA StoresInv ==
  ASSUME CaptureInv, NEW s \in Shells, NEW q \in Seq(Entries), Stores(s, q),
         \A i \in DOMAIN q :
           /\ q[i].file = "candidate" =>
                q[1].file = "manifest" /\ q[1].value.output = q[i].value.output
           /\ q[i].file = "batch" =>
                q[i].value.sequence <= Cardinality(Batches) + 1
  PROVE  CaptureInv'
  <1>1. /\ UNCHANGED <<capture, inventory, manifest, candidates, batches>>
        /\ writing' = [writing EXCEPT ![s] = q]
    BY DEF Stores, captureVars
  <1>2. writing \in [Shells -> Seq(Entries)]
    BY DEF CaptureInv
  <1>3. /\ writing' \in [Shells -> Seq(Entries)] /\ writing'[s] = q
        /\ \A c \in Shells \ {s} : writing'[c] = writing[c]
    BY <1>1, <1>2
  <1>4. Batches' = Batches
    BY <1>1 DEF Batches, Written
  <1>5. ASSUME NEW c \in Shells PROVE Owned(writing[c])'
    <2>1. Owned(q)'
      BY <1>1 DEF Owned
    <2>2. Owned(writing[c]) /\ UNCHANGED manifest
      BY <1>1 DEF CaptureInv
    <2> QED
      BY <1>3, <2>1, <2>2 DEF Owned
  <1>6. Numbered'
    BY <1>1, <1>3, <1>4 DEF CaptureInv, Numbered
  <1>7. CompletedIsWhole'
    BY <1>1 DEF CaptureInv, CompletedIsWhole, Reviewable, IsWhole
  <1> QED
    BY <1>1, <1>3, <1>5, <1>6, <1>7 DEF CaptureInv

LEMMA StoresCaptureInv ==
  ASSUME CaptureInv, NEW s \in Shells, NEW r \in Staged, r.status # "completed",
         StoresCapture(s, r)
  PROVE  CaptureInv'
  <1> DEFINE q == <<Put("capture", r)>>
  <1>1. Put("capture", r) \in Entries /\ Put("capture", r).file = "capture"
    BY DEF Put, Entries
  <1>2. q \in Seq(Entries) /\ DOMAIN q = {1} /\ q[1] = Put("capture", r)
    BY <1>1
  <1>3. Stores(s, q)
    BY DEF StoresCapture
  <1> HIDE DEF q
  <1> QED
    BY <1>1, <1>2, <1>3, StoresInv

LEMMA Enclosed ==
  ASSUME NEW E, NEW first \in E, NEW last \in E, NEW c \in Seq(E),
         NEW n, n = Len(c), NEW q, q = <<first>> \o c \o <<last>>
  PROVE  /\ q \in Seq(E) /\ q[1] = first
         /\ \A i \in DOMAIN q : \/ i = 1 \/ q[i] = last
                               \/ (i - 1 \in 1..n /\ q[i] = c[i - 1])
  <1> DEFINE f == <<first>> \o c
  <1>1. n \in Nat
    OBVIOUS
  <1>2. /\ f \in Seq(E) /\ Len(f) = n + 1 /\ f[1] = first
        /\ \A j \in 2..n + 1 : f[j] = c[j - 1]
    BY <1>1
  <1>3. q = f \o <<last>>
    OBVIOUS
  <1> HIDE DEF f
  <1>4. /\ q \in Seq(E) /\ Len(q) = n + 2 /\ q[n + 2] = last
        /\ \A j \in 1..n + 1 : q[j] = f[j]
    BY <1>1, <1>2, <1>3
  <1>5. DOMAIN q = 1..n + 2
    BY <1>1, <1>4
  <1>6. ASSUME NEW i \in DOMAIN q
        PROVE  i = 1 \/ q[i] = last \/ (i - 1 \in 1..n /\ q[i] = c[i - 1])
    <2>1. i = 1 \/ i = n + 2 \/ i \in 2..n + 1
      BY <1>1, <1>5
    <2>2. CASE i \in 2..n + 1
      BY <1>1, <1>2, <1>4, <2>2
    <2> QED
      BY <1>4, <2>1, <2>2
  <1> QED
    BY <1>1, <1>2, <1>4, <1>6

LEMMA CaptureSteps ==
  ASSUME CaptureInv, NEW s \in Shells, Captures(s)
  PROVE  CaptureInv'
  <1>0. capture \in Staged
    BY DEF CaptureInv
  <1>1. CASE Prepare(s)
    BY <1>0, <1>1, StoresCaptureInv DEF Prepare, Staged, Record
  <1>2. ASSUME NEW f \in Forks, AttachFork(s, f) PROVE CaptureInv'
    BY <1>0, <1>2, StoresCaptureInv DEF AttachFork, Staged, Record
  <1>3. ASSUME NEW t \in StageTurns,
               AttachInventoryTurn(s, t) \/ AttachExtractionTurn(s, t)
        PROVE  CaptureInv'
    BY <1>0, <1>3, StoresCaptureInv
       DEF AttachInventoryTurn, AttachExtractionTurn, Staged, Record
  <1>4. ASSUME NEW o \in Inventories, CompleteInventory(s, o) PROVE CaptureInv'
    <2> DEFINE r == [capture EXCEPT !.status = "inventory_completed",
                                    !.inventory = o]
               q == <<Put("look", o), Put("inventory", o), Put("capture", r)>>
    <2>1. r \in Staged /\ r.status # "completed"
      BY <1>0 DEF Staged, Record
    <2> HIDE DEF r
    <2>2. /\ Put("look", o) \in Entries /\ Put("look", o).file = "look"
          /\ Put("inventory", o) \in Entries /\ Put("inventory", o).file = "inventory"
          /\ Put("capture", r) \in Entries /\ Put("capture", r).file = "capture"
      BY <2>1 DEF Put, Entries
    <2>3. /\ q \in Seq(Entries) /\ DOMAIN q = 1..3 /\ q[1] = Put("look", o)
          /\ q[2] = Put("inventory", o) /\ q[3] = Put("capture", r)
      BY <2>2
    <2>4. Stores(s, q)
      BY <1>4 DEF CompleteInventory, r
    <2> HIDE DEF q
    <2>5. \A i \in DOMAIN q : q[i].file \notin {"candidate", "batch"}
      BY <2>2, <2>3
    <2> QED
      BY <2>3, <2>4, <2>5, StoresInv
  <1>5. ASSUME NEW o \in Extractions, CompleteExtraction(s, o) PROVE CaptureInv'
    <2> DEFINE r == [capture EXCEPT !.status = "completed", !.extraction = o]
               m == [turn |-> capture.extractionTurn, output |-> o]
               n == SizeOf[o]
               c == [k \in 1..n |-> Put("candidate", [ordinal |-> k, output |-> o])]
               q == <<Put("manifest", m)>> \o c \o <<Put("completed", r)>>
    <2>1. r \in Staged /\ r.status = "completed" /\ m \in Manifest
      BY <1>0, <1>5 DEF CompleteExtraction, Staged, Record, Manifest
    <2>2. n \in 0..MaxCandidates
      OBVIOUS
    <2>3. Stores(s, q)
      BY <1>5 DEF CompleteExtraction
    <2>4. Put("manifest", m) \in Entries /\ Put("completed", r) \in Entries
      BY <2>1 DEF Put, Entries
    <2>5. ASSUME NEW k \in 1..n
          PROVE  Put("candidate", [ordinal |-> k, output |-> o]) \in Entries
      <3>1. [ordinal |-> k, output |-> o] \in Candidates
        BY <2>2 DEF Candidates, Ordinals
      <3> QED
        BY <3>1, <2>2 DEF Put, Entries
    <2>6. c \in Seq(Entries) /\ Len(c) = n
      <3>1. n \in Nat
        BY <2>2
      <3> HIDE DEF n
      <3>2. c \in [1..n -> Entries]
        BY <2>5
      <3> HIDE DEF c
      <3> DEFINE E == Entries
      <3> HIDE DEF E
      <3>3. c \in [1..n -> E]
        BY <3>2 DEF E
      <3>4. c \in Seq(E) /\ Len(c) = n
        BY <3>1, <3>3
      <3> QED
        BY <3>4 DEF E
    <2>7. /\ Put("manifest", m).file = "manifest"
          /\ Put("manifest", m).value.output = o
          /\ Put("completed", r).file = "completed"
          /\ \A k \in 1..n : c[k].file = "candidate" /\ c[k].value.output = o
      BY DEF Put
    <2> HIDE DEF r, m, c, n
    <2>9. /\ q \in Seq(Entries) /\ q[1] = Put("manifest", m)
          /\ \A i \in DOMAIN q : \/ i = 1 \/ q[i] = Put("completed", r)
                                 \/ (i - 1 \in 1..n /\ q[i] = c[i - 1])
      <3>1. n = Len(c) /\ c \in Seq(Entries)
        BY <2>6
      <3> DEFINE first == Put("manifest", m)
                 last == Put("completed", r)
      <3>2. first \in Entries /\ last \in Entries
        BY <2>4
      <3> HIDE DEF first, last
      <3>3. q = <<first>> \o c \o <<last>>
        BY DEF q, first, last
      <3> HIDE DEF q
      <3>4. /\ q \in Seq(Entries) /\ q[1] = first
            /\ \A i \in DOMAIN q : \/ i = 1 \/ q[i] = last
                                   \/ (i - 1 \in 1..n /\ q[i] = c[i - 1])
        BY <3>1, <3>2, <3>3, Enclosed
      <3> QED
        BY <3>4 DEF first, last
    <2> HIDE DEF q
    <2>10. \A i \in DOMAIN q :
             /\ q[i].file = "candidate" =>
                  q[1].file = "manifest" /\ q[1].value.output = q[i].value.output
             /\ q[i].file # "batch"
      BY <2>7, <2>9
    <2> QED
      BY <2>3, <2>9, <2>10, StoresInv
  <1>6. CASE FailStage(s)
    BY <1>0, <1>6, StoresCaptureInv DEF FailStage, Staged, Record
  <1> QED
    BY <1>1, <1>2, <1>3, <1>4, <1>5, <1>6 DEF Captures

LEMMA LastSequence ==
  ASSUME CaptureInv
  PROVE  Max({batches[b].sequence : b \in Batches} \cup {0})
           \in 0..Cardinality(Batches)
  <1> DEFINE S == {batches[b].sequence : b \in Batches} \cup {0}
             n == Cardinality(Batches)
  <1>1. n \in Nat
    BY BatchFacts
  <1>2. ASSUME NEW b \in Batches PROVE batches[b].sequence \in 0..n
    <2>1. batches[b] \in Review
      BY BatchFacts
    <2>2. batches[b].sequence \in Nat
      BY <2>1 DEF Review
    <2> QED
      BY <1>1, <2>2 DEF CaptureInv, Numbered
  <1> HIDE DEF n
  <1>3. S \in SUBSET (0..n) /\ S # {}
    BY <1>1, <1>2
  <1> HIDE DEF S
  <1>4. PICK x \in S : \A y \in S : x >= y
    BY <1>1, <1>3, LargestOf
  <1>5. Max(S) \in S
    BY <1>4 DEF Max
  <1> QED
    BY <1>3, <1>5 DEF S, n

LEMMA ReviewSteps ==
  ASSUME CaptureInv, NEW s \in Shells, Reviews(s)
  PROVE  CaptureInv'
  <1>1. PICK t \in Turns, items \in Selections : RecordReview(s, t, items)
    BY DEF Reviews
  <1> DEFINE n == Max({batches[b].sequence : b \in Batches} \cup {0})
             r == [turn |-> t, sequence |-> n + 1, items |-> items]
             q == <<Put("batch", r)>>
  <1>2. n \in 0..Cardinality(Batches) /\ Cardinality(Batches) \in Nat
    BY LastSequence, BatchFacts
  <1>3. Stores(s, q) /\ Cardinality(Batches) < MaxBatches
    BY <1>1 DEF RecordReview
  <1> HIDE DEF n
  <1>4. n + 1 \in 1..MaxBatches
    BY <1>2, <1>3
  <1>5. DOMAIN items \subseteq Ordinals
    <2>1. capture.extraction \in Extractions
      BY <1>1 DEF RecordReview, Reviewable, CaptureInv, Staged
    <2>2. SizeOf[capture.extraction] \in 0..MaxCandidates
      BY <2>1
    <2> QED
      BY <1>1, <2>2 DEF RecordReview, Ordinals
  <1>6. r \in Review
    BY <1>4, <1>5 DEF Review
  <1>7. Put("batch", r) \in Entries /\ Put("batch", r).file = "batch"
    BY <1>6 DEF Put, Entries
  <1>8. Put("batch", r).value.sequence <= Cardinality(Batches) + 1
    BY <1>2 DEF Put
  <1>9. q \in Seq(Entries) /\ DOMAIN q = {1} /\ q[1] = Put("batch", r)
    BY <1>7
  <1> HIDE DEF q, r
  <1> QED
    BY <1>3, <1>7, <1>8, <1>9, StoresInv

LEMMA GoesQueues ==
  ASSUME CaptureInv, NEW s \in Shells, writing[s] # <<>>, Goes(s)
  PROVE  /\ writing' \in [Shells -> Seq(Entries)]
         /\ Head(writing[s]) \in Entries /\ Head(writing[s]) = writing[s][1]
         /\ 1 \in DOMAIN writing[s]
         /\ \A c \in Shells \ {s} : writing'[c] = writing[c]
         /\ \A i \in DOMAIN writing'[s] :
              i + 1 \in DOMAIN writing[s] /\ writing'[s][i] = writing[s][i + 1]
  <1>1. writing \in [Shells -> Seq(Entries)]
    BY DEF CaptureInv
  <1>2. writing[s] \in Seq(Entries)
    BY <1>1
  <1>3. /\ Head(writing[s]) \in Entries /\ Head(writing[s]) = writing[s][1]
        /\ 1 \in DOMAIN writing[s] /\ Tail(writing[s]) \in Seq(Entries)
        /\ \A i \in DOMAIN Tail(writing[s]) :
             i + 1 \in DOMAIN writing[s] /\ Tail(writing[s])[i] = writing[s][i + 1]
    BY <1>2, QueueFacts
  <1>4. writing' = [writing EXCEPT ![s] = Tail(writing[s])]
    BY DEF Goes
  <1>5. writing'[s] = Tail(writing[s])
    BY <1>1, <1>4
  <1> QED
    BY <1>1, <1>3, <1>4, <1>5

(* Nothing but the manifest's own write gives Candidates their manifest.      *)
LEMMA GoesOwned ==
  ASSUME CaptureInv, NEW s \in Shells, writing[s] # <<>>, Goes(s),
         \/ UNCHANGED manifest /\ Head(writing[s]).file # "manifest"
         \/ PutManifest(s)
  PROVE  \A c \in Shells : Owned(writing[c])'
  <1>1. /\ Head(writing[s]) \in Entries /\ Head(writing[s]) = writing[s][1]
        /\ \A c \in Shells \ {s} : writing'[c] = writing[c]
        /\ \A i \in DOMAIN writing'[s] :
             i + 1 \in DOMAIN writing[s] /\ writing'[s][i] = writing[s][i + 1]
    BY GoesQueues
  <1>2. \A c \in Shells : Owned(writing[c])
    BY DEF CaptureInv
  <1>3. manifest # None => manifest' = manifest
    BY DEF PutManifest
  <1>4. Head(writing[s]).file = "manifest" =>
          manifest' = writing[s][1].value /\ manifest' # None
    BY <1>1, EntryFiles DEF PutManifest, Value, Before
  <1>5. Owned(writing[s])'
    <2>1. ASSUME NEW i \in DOMAIN writing'[s], writing'[s][i].file = "candidate"
          PROVE  manifest' # None /\ manifest'.output = writing'[s][i].value.output
      <3>1. /\ i + 1 \in DOMAIN writing[s] /\ writing'[s][i] = writing[s][i + 1]
        BY <1>1
      <3>2. \/ manifest # None /\ manifest.output = writing[s][i + 1].value.output
            \/ /\ writing[s][1].file = "manifest"
               /\ writing[s][1].value.output = writing[s][i + 1].value.output
        BY <1>2, <2>1, <3>1 DEF Owned
      <3> QED
        BY <1>1, <1>3, <1>4, <3>1, <3>2
    <2> QED
      BY <2>1 DEF Owned
  <1>6. ASSUME NEW c \in Shells \ {s} PROVE Owned(writing[c])'
    BY <1>1, <1>2, <1>3 DEF Owned
  <1> QED
    BY <1>5, <1>6

LEMMA GoesNumbered ==
  ASSUME CaptureInv, NEW s \in Shells, writing[s] # <<>>, Goes(s),
         UNCHANGED batches
  PROVE  Numbered'
  <1>1. Batches' = Batches
    BY DEF Batches, Written
  <1>2. /\ \A c \in Shells \ {s} : writing'[c] = writing[c]
        /\ \A i \in DOMAIN writing'[s] :
             i + 1 \in DOMAIN writing[s] /\ writing'[s][i] = writing[s][i + 1]
    BY GoesQueues
  <1>3. ASSUME NEW c \in Shells, NEW i \in DOMAIN writing'[c],
               writing'[c][i].file = "batch"
        PROVE  writing'[c][i].value.sequence <= Cardinality(Batches) + 1
    <2>1. CASE c = s
      BY <1>2, <1>3, <2>1 DEF CaptureInv, Numbered
    <2>2. CASE c # s
      BY <1>2, <1>3, <2>2 DEF CaptureInv, Numbered
    <2> QED
      BY <2>1, <2>2
  <1> QED
    BY <1>1, <1>3 DEF CaptureInv, Numbered

(* A write that leaves manifest and Candidates alone.                        *)
LEMMA RecordWrites ==
  ASSUME CaptureInv, NEW s \in Shells,
         PutCapture(s) \/ LookForInventory(s) \/ PutInventory(s) \/ PutCompleted(s)
  PROVE  CaptureInv'
  <1>1. /\ writing[s] # <<>> /\ Goes(s) /\ UNCHANGED <<manifest, candidates, batches>>
        /\ Head(writing[s]).file # "manifest"
    BY DEF PutCapture, LookForInventory, PutInventory, PutCompleted, Before, captureVars
  <1>2. Head(writing[s]) \in Entries /\ writing' \in [Shells -> Seq(Entries)]
    BY <1>1, GoesQueues
  <1>3. Numbered' /\ \A c \in Shells : Owned(writing[c])'
    BY <1>1, GoesOwned, GoesNumbered
  <1>4. capture' \in Staged
    BY <1>2, EntryFiles
       DEF CaptureInv, PutCapture, LookForInventory, PutInventory, PutCompleted,
           Before, Value, captureVars
  <1>5. inventory' \in Inventories \cup {None}
    BY <1>2, EntryFiles
       DEF CaptureInv, PutCapture, LookForInventory, PutInventory, PutCompleted,
           Before, Value, captureVars
  <1>6. CompletedIsWhole'
    <2>1. CASE PutCapture(s)
      BY <1>2, <2>1, EntryFiles DEF PutCapture, Before, Value, CompletedIsWhole
    <2>2. CASE LookForInventory(s) \/ PutInventory(s)
      BY <2>2 DEF LookForInventory, PutInventory, captureVars, CaptureInv,
                  CompletedIsWhole, Reviewable, IsWhole
    <2>3. CASE PutCompleted(s)
      BY <2>3 DEF PutCompleted, CompletedIsWhole, Reviewable, IsWhole
    <2> QED
      BY <2>1, <2>2, <2>3
  <1> QED
    BY <1>1, <1>2, <1>3, <1>4, <1>5, <1>6 DEF CaptureInv

LEMMA ManifestWrite ==
  ASSUME CaptureInv, NEW s \in Shells, PutManifest(s)
  PROVE  CaptureInv'
  <1>1. /\ writing[s] # <<>> /\ Goes(s)
        /\ UNCHANGED <<capture, inventory, candidates, batches>>
        /\ Head(writing[s]).file = "manifest"
    BY DEF PutManifest, Before
  <1>2. Head(writing[s]) \in Entries /\ writing' \in [Shells -> Seq(Entries)]
    BY <1>1, GoesQueues
  <1>3. Numbered' /\ \A c \in Shells : Owned(writing[c])'
    BY <1>1, GoesOwned, GoesNumbered
  <1>4. manifest' \in Manifest
    BY <1>1, <1>2, EntryFiles DEF PutManifest, Value
  <1>5. manifest # None => UNCHANGED manifest
    BY DEF PutManifest
  <1>6. CompletedIsWhole'
    <2>1. SUFFICES ASSUME capture.status = "completed" PROVE Reviewable'
      BY <1>1 DEF CompletedIsWhole
    <2>2. Reviewable /\ capture \in Staged
      BY <2>1 DEF CaptureInv, CompletedIsWhole
    <2>3. manifest # None
      BY <2>1, <2>2 DEF Reviewable, IsWhole, Staged, Manifest
    <2> QED
      BY <1>1, <1>5, <2>2, <2>3 DEF Reviewable, IsWhole
  <1> QED
    BY <1>1, <1>2, <1>3, <1>4, <1>6 DEF CaptureInv

LEMMA CandidateWrite ==
  ASSUME CaptureInv, NEW s \in Shells, PutCandidate(s)
  PROVE  CaptureInv'
  <1>1. /\ writing[s] # <<>> /\ Goes(s)
        /\ UNCHANGED <<capture, inventory, manifest, batches>>
        /\ Head(writing[s]).file = "candidate"
    BY DEF PutCandidate, Before
  <1>2. /\ Head(writing[s]) \in Entries /\ writing' \in [Shells -> Seq(Entries)]
        /\ Head(writing[s]) = writing[s][1] /\ 1 \in DOMAIN writing[s]
    BY <1>1, GoesQueues
  <1>3. Numbered' /\ \A c \in Shells : Owned(writing[c])'
    BY <1>1, GoesOwned, GoesNumbered
  <1>4. Value(s) \in Candidates /\ Value(s).ordinal <= SizeOf[Value(s).output]
    BY <1>1, <1>2, EntryFiles DEF Value
  <1> DEFINE k == Value(s).ordinal
             o == Value(s).output
  <1>5. k \in Ordinals /\ o \in Extractions
    BY <1>4 DEF Candidates
  <1>6. candidates' = [candidates EXCEPT ![k] = o] /\ candidates[k] \in {None, o}
    BY DEF PutCandidate
  <1>7. candidates' \in [Ordinals -> Extractions \cup {None}]
    BY <1>5, <1>6 DEF CaptureInv
  <1>8. CompletedIsWhole'
    <2>1. SUFFICES ASSUME capture.status = "completed" PROVE Reviewable'
      BY <1>1 DEF CompletedIsWhole
    <2>2. Reviewable /\ capture \in Staged
      BY <2>1 DEF CaptureInv, CompletedIsWhole
    <2> DEFINE m == [turn |-> capture.extractionTurn, output |-> capture.extraction]
    <2>3. /\ manifest = m /\ m.output \in Extractions
          /\ \A j \in Ordinals :
               candidates[j] = IF j <= SizeOf[m.output] THEN m.output ELSE None
      BY <2>1, <2>2 DEF Reviewable, IsWhole, Staged
    <2>4. manifest.output = o
      BY <1>1, <1>2 DEF CaptureInv, Owned, Value
    <2>5. m.output = o
      BY <2>3, <2>4
    <2> HIDE DEF m, k, o
    <2>6. candidates[k] = o
      BY <1>4, <1>5, <2>3, <2>5 DEF k, o
    <2>7. candidates' = candidates
      BY <1>5, <1>6, <2>6 DEF CaptureInv
    <2> QED
      BY <1>1, <2>2, <2>7 DEF Reviewable, IsWhole
  <1> QED
    BY <1>1, <1>2, <1>3, <1>7, <1>8 DEF CaptureInv

LEMMA BatchWrite ==
  ASSUME CaptureInv, NEW s \in Shells, NEW b \in 1..MaxBatches, PutBatch(s, b)
  PROVE  /\ CaptureInv'
         /\ Batches' = Batches \cup {b} /\ b \notin Batches
         /\ \A c \in Batches : batches'[c] = batches[c]
  <1>1. /\ writing[s] # <<>> /\ Goes(s)
        /\ UNCHANGED captureVars /\ b \notin Batches
        /\ Head(writing[s]).file = "batch"
        /\ batches' = [batches EXCEPT ![b] = Value(s)]
    BY DEF PutBatch, Before, Batches
  <1>2. /\ Head(writing[s]) \in Entries /\ writing' \in [Shells -> Seq(Entries)]
        /\ Head(writing[s]) = writing[s][1] /\ 1 \in DOMAIN writing[s]
        /\ \A c \in Shells \ {s} : writing'[c] = writing[c]
        /\ \A i \in DOMAIN writing'[s] :
             i + 1 \in DOMAIN writing[s] /\ writing'[s][i] = writing[s][i + 1]
    BY <1>1, GoesQueues
  <1>3. \A c \in Shells : Owned(writing[c])'
    BY <1>1, GoesOwned DEF captureVars
  <1>4. Value(s) \in Review
    BY <1>1, <1>2, EntryFiles DEF Value
  <1>5. batches' \in [1..MaxBatches -> Review \cup {NoReview}] /\ batches'[b] = Value(s)
        /\ \A c \in 1..MaxBatches \ {b} : batches'[c] = batches[c]
    BY <1>1, <1>4 DEF CaptureInv
  <1>6. Batches' = Batches \cup {b}
    BY <1>4, <1>5, NoReviewIsNone DEF Batches, Written
  <1>7. \A c \in Batches : batches'[c] = batches[c]
    BY <1>1, <1>5 DEF Batches
  <1> DEFINE n == Cardinality(Batches)
  <1>8. n \in Nat /\ Cardinality(Batches') = n + 1
    BY <1>1, <1>6, BatchFacts, FS_AddElement
  <1>9. Numbered'
    <2>1. Value(s).sequence <= n + 1
      BY <1>1, <1>2 DEF CaptureInv, Numbered, Value
    <2>2. \A c \in Batches : batches[c].sequence <= n /\ batches[c].sequence \in Nat
      BY BatchFacts DEF CaptureInv, Numbered, Review
    <2>3. ASSUME NEW c \in Batches' PROVE batches'[c].sequence <= n + 1
      BY <1>5, <1>6, <1>7, <1>8, <2>1, <2>2
    <2>4. ASSUME NEW c \in Shells, NEW i \in DOMAIN writing'[c],
                 writing'[c][i].file = "batch"
          PROVE  writing'[c][i].value.sequence <= n + 2
      <3>1. PICK j \in DOMAIN writing[c] : writing'[c][i] = writing[c][j]
        BY <1>2
      <3>2. writing[c][j].value.sequence <= n + 1
        BY <2>4, <3>1 DEF CaptureInv, Numbered
      <3>3. writing[c][j] \in Entries
        BY DEF CaptureInv
      <3>4. writing[c][j].value.sequence \in Nat
        BY <2>4, <3>1, <3>3, EntryFiles DEF Review
      <3> QED
        BY <1>8, <3>1, <3>2, <3>4
    <2> QED
      BY <1>8, <2>3, <2>4 DEF Numbered
  <1>10. CompletedIsWhole'
    BY <1>1 DEF captureVars, CaptureInv, CompletedIsWhole, Reviewable, IsWhole
  <1> QED
    BY <1>1, <1>2, <1>3, <1>5, <1>6, <1>7, <1>9, <1>10 DEF CaptureInv, captureVars

LEMMA CutOffInv ==
  ASSUME CaptureInv, NEW s \in Shells, CutOff(s)
  PROVE  CaptureInv'
  <1>1. /\ UNCHANGED <<capture, inventory, manifest, candidates, batches>>
        /\ writing' = [writing EXCEPT ![s] = <<>>]
    BY DEF CutOff, captureVars
  <1>2. /\ writing' \in [Shells -> Seq(Entries)] /\ DOMAIN writing'[s] = {}
        /\ \A c \in Shells \ {s} : writing'[c] = writing[c]
    <2>1. writing \in [Shells -> Seq(Entries)] /\ <<>> \in Seq(Entries)
      BY DEF CaptureInv
    <2>2. writing'[s] = <<>>
      BY <1>1, <2>1
    <2> QED
      BY <1>1, <2>1, <2>2
  <1>3. Batches' = Batches
    BY <1>1 DEF Batches, Written
  <1>4. \A c \in Shells : Owned(writing[c])'
    BY <1>1, <1>2 DEF CaptureInv, Owned
  <1>5. Numbered'
    BY <1>1, <1>2, <1>3 DEF CaptureInv, Numbered
  <1>6. CompletedIsWhole'
    BY <1>1 DEF CaptureInv, CompletedIsWhole, Reviewable, IsWhole
  <1> QED
    BY <1>1, <1>2, <1>4, <1>5, <1>6 DEF CaptureInv

LEMMA CaptureInitInv == Init => CaptureInv
  <1> SUFFICES ASSUME Init PROVE CaptureInv
    OBVIOUS
  <1> USE DEF Init, CaptureInit
  <1>1. capture \in Staged
    BY DEF Staged, Record
  <1>2. candidates \in [Ordinals -> Extractions \cup {None}]
    OBVIOUS
  <1>3. \A s \in Shells : writing[s] = <<>> /\ DOMAIN writing[s] = {}
    OBVIOUS
  <1>4. writing \in [Shells -> Seq(Entries)]
    <2>1. <<>> \in Seq(Entries)
      OBVIOUS
    <2> QED
      BY <2>1
  <1>5. batches = [b \in 1..MaxBatches |-> NoReview]
    BY DEF NoReview
  <1>6. Batches = {}
    BY <1>5, NoReviewIsNone DEF Batches, Written
  <1>7. Numbered /\ \A s \in Shells : Owned(writing[s])
    BY <1>3, <1>6 DEF Numbered, Owned
  <1>8. CompletedIsWhole
    BY DEF CompletedIsWhole
  <1> QED
    BY <1>1, <1>2, <1>4, <1>5, <1>7, <1>8 DEF CaptureInv

Works(s) == Captures(s) \/ Reviews(s) \/ Writes(s)

(* Review batches are written once.                                         *)
BatchesGrow ==
  /\ Batches \subseteq Batches'
  /\ \A b \in Batches : batches'[b] = batches[b]

LEMMA WorksInv ==
  ASSUME CaptureInv, NEW s \in Shells, Works(s)
  PROVE  CaptureInv' /\ BatchesGrow
  <1>0. UNCHANGED batches => BatchesGrow
    BY DEF BatchesGrow, Batches, Written
  <1>1. CASE Captures(s)
    <2>1. UNCHANGED batches
      BY <1>1 DEF Captures, Prepare, AttachFork, AttachInventoryTurn,
                  AttachExtractionTurn, CompleteInventory, CompleteExtraction,
                  FailStage, StoresCapture, Stores
    <2> QED
      BY <1>0, <1>1, <2>1, CaptureSteps
  <1>2. CASE Reviews(s)
    <2>1. UNCHANGED batches
      BY <1>2 DEF Reviews, RecordReview, Stores
    <2> QED
      BY <1>0, <1>2, <2>1, ReviewSteps
  <1>3. CASE PutCapture(s) \/ LookForInventory(s) \/ PutInventory(s) \/ PutCompleted(s)
    <2>1. UNCHANGED batches
      BY <1>3 DEF PutCapture, LookForInventory, PutInventory, PutCompleted
    <2> QED
      BY <1>0, <1>3, <2>1, RecordWrites
  <1>4. CASE PutManifest(s)
    BY <1>0, <1>4, ManifestWrite DEF PutManifest
  <1>5. CASE PutCandidate(s)
    BY <1>0, <1>5, CandidateWrite DEF PutCandidate
  <1>6. CASE CutOff(s)
    BY <1>0, <1>6, CutOffInv DEF CutOff
  <1>7. ASSUME NEW b \in 1..MaxBatches, PutBatch(s, b)
        PROVE  CaptureInv' /\ BatchesGrow
    BY <1>7, BatchWrite DEF BatchesGrow
  <1> QED
    BY <1>1, <1>2, <1>3, <1>4, <1>5, <1>6, <1>7 DEF Works, Writes

LEMMA CaptureStays ==
  ASSUME CaptureInv, UNCHANGED <<captureVars, batches, writing>>
  PROVE  CaptureInv' /\ BatchesGrow
  <1>1. Batches' = Batches
    BY DEF Batches, Written
  <1>2. \A s \in Shells : Owned(writing[s])'
    BY DEF CaptureInv, captureVars, Owned
  <1>3. Numbered'
    BY <1>1 DEF CaptureInv, Numbered
  <1>4. CompletedIsWhole'
    BY DEF captureVars, CaptureInv, CompletedIsWhole, Reviewable, IsWhole
  <1> QED
    BY <1>1, <1>2, <1>3, <1>4 DEF CaptureInv, captureVars, BatchesGrow

-----------------------------------------------------------------------------
(* The steps of the composition.                                            *)

StayCapture == UNCHANGED <<captureVars, batches, writing>>
StayGit == UNCHANGED <<commits, head, remote, worktree>>

LEMMA NextSteps ==
  ASSUME [Next]_vars
  PROVE  \/ \E s \in Shells :
              \/ /\ At(s, "idle") /\ Works(s)
                 /\ UNCHANGED <<gitVars, pubs, receipts, publishing>>
              \/ Publishes(s) /\ StayCapture
         \/ /\ ForeignPush \/ OperatorPull
            /\ StayCapture /\ UNCHANGED <<pubs, receipts, publishing>>
         \/ StayCapture /\ UNCHANGED <<gitVars, pubs, receipts, publishing>>
  BY DEF Next, vars, Works, StayCapture

LEMMA CaptureNext ==
  ASSUME CaptureInv, [Next]_vars
  PROVE  CaptureInv' /\ BatchesGrow
  BY NextSteps, WorksInv, CaptureStays DEF StayCapture

-----------------------------------------------------------------------------
(* The commit graph.                                                        *)

(* A new commit has its parent's ancestors and itself, and no other commit   *)
(* changes.                                                                 *)
LEMMA NewCommit ==
  ASSUME GitTypeOK, History, NEW parent \in DOMAIN commits, NEW p \in Preview,
         commits' = WithCommit(parent, p)
  PROVE  LET n == Len(commits) + 1
         IN  /\ commits' \in Seq(Commit) /\ Len(commits') = n
             /\ DOMAIN commits' = DOMAIN commits \cup {n}
             /\ n \in Nat /\ n \notin DOMAIN commits
             /\ \A i \in DOMAIN commits : commits'[i] = commits[i]
             /\ commits'[n] = [parent |-> parent, by |-> p,
                               past |-> commits[parent].past \cup {n}]
  <1> DEFINE n == Len(commits) + 1
             e == [parent |-> parent, by |-> p,
                   past |-> commits[parent].past \cup {n}]
  <1>1. commits \in Seq(Commit)
    BY DEF GitTypeOK
  <1>2. n \in Nat /\ DOMAIN commits = 1 .. Len(commits) /\ Len(commits) \in Nat
    BY <1>1
  <1>3. commits[parent] \in Commit
    BY <1>1, <1>2
  <1>4. commits[parent].past \in SUBSET Nat
    BY <1>3 DEF Commit
  <1>5. e \in Commit
    BY <1>2, <1>4 DEF Commit
  <1>6. commits' = Append(commits, e)
    BY DEF WithCommit
  <1> HIDE DEF e
  <1>7. /\ commits' \in Seq(Commit) /\ Len(commits') = n
        /\ \A i \in 1 .. Len(commits) : commits'[i] = commits[i]
        /\ commits'[n] = e
    BY <1>1, <1>5, <1>6, <1>2
  <1>8. DOMAIN commits' = 1 .. n
    BY <1>7
  <1> QED
    BY <1>2, <1>7, <1>8 DEF e

LEMMA HistoryGrows ==
  ASSUME GitTypeOK, History, NEW parent \in DOMAIN commits, NEW p \in Preview,
         commits' = WithCommit(parent, p)
  PROVE  History'
  <1> DEFINE n == Len(commits) + 1
  <1>0. DOMAIN commits = 1 .. n - 1
    BY DEF GitTypeOK
  <1>1. /\ n \in Nat /\ n \notin DOMAIN commits
        /\ DOMAIN commits' = DOMAIN commits \cup {n}
        /\ \A i \in DOMAIN commits : commits'[i] = commits[i]
        /\ commits'[n] = [parent |-> parent, by |-> p,
                          past |-> commits[parent].past \cup {n}]
    BY NewCommit
  <1> DEFINE Good(i) ==
         /\ commits'[i].past \subseteq 1 .. i /\ i \in commits'[i].past
         /\ commits'[i].parent < i
         /\ commits'[i].parent # 0 =>
              commits'[i].past = commits'[commits'[i].parent].past \cup {i}
         /\ \A j \in commits'[i].past : commits'[j].past \subseteq commits'[i].past
  <1> HIDE DEF n
  <1>2. ASSUME NEW i \in DOMAIN commits PROVE Good(i)
    <2>1. commits'[i] = commits[i] /\ i \in 1 .. n - 1
      BY <1>0, <1>1
    <2>2. commits[i].past \subseteq 1 .. i /\ commits[i].parent < i
      BY DEF History
    <2>3. commits[i].past \subseteq DOMAIN commits
      BY <1>0, <1>1, <2>1, <2>2
    <2>4. commits[i].parent # 0 => commits[i].parent \in DOMAIN commits
      <3>1. commits[i] \in Commit
        BY DEF GitTypeOK
      <3>2. commits[i].parent \in Nat
        BY <3>1 DEF Commit
      <3> QED  BY <1>0, <1>1, <2>1, <2>2, <3>2
    <2> QED
      BY <1>0, <1>1, <2>1, <2>2, <2>3, <2>4 DEF History
  <1>3. Good(n)
    <2>1. /\ commits[parent].past \subseteq 1 .. parent
          /\ \A j \in commits[parent].past :
               commits[j].past \subseteq commits[parent].past
      BY DEF History
    <2>2. commits[parent].past \subseteq DOMAIN commits /\ parent \in 1 .. n - 1
      BY <1>0, <1>1, <2>1
    <2>3. commits'[n].past = commits[parent].past \cup {n}
      BY <1>0, <1>1
    <2>4. commits'[n].past \subseteq 1 .. n
      BY <1>0, <1>1, <2>2, <2>3
    <2>5. commits'[n].parent = parent /\ parent < n /\ parent # 0
      BY <1>0, <1>1, <2>2
    <2>6. ASSUME NEW j \in commits'[n].past
          PROVE  commits'[j].past \subseteq commits'[n].past
      BY <1>0, <1>1, <2>1, <2>2, <2>3, <2>6
    <2> QED
      BY <1>0, <1>1, <2>3, <2>4, <2>5, <2>6
  <1> QED
    BY <1>0, <1>1, <1>2, <1>3 DEF History

(* No commit changes, and the remote main only moves to a descendant.       *)
CommitsGrow ==
  /\ DOMAIN commits \subseteq DOMAIN commits'
  /\ \A i \in DOMAIN commits : commits'[i] = commits[i]

Extended == CommitsGrow /\ commits[remote].past \subseteq commits'[remote'].past

LEMMA PastFacts ==
  ASSUME GitTypeOK, History, NEW c \in DOMAIN commits
  PROVE  commits[c].past \subseteq DOMAIN commits
  <1>1. DOMAIN commits = 1..Len(commits) /\ Len(commits) \in Nat
    BY DEF GitTypeOK
  <1>2. commits[c].past \subseteq 1..c
    BY DEF History
  <1> QED
    BY <1>1, <1>2

LEMMA TreeStays ==
  ASSUME GitTypeOK, History, CommitsGrow, NEW c \in DOMAIN commits
  PROVE  Tree(c)' = Tree(c)
  BY PastFacts DEF CommitsGrow, Tree

LEMMA AcceptedStays ==
  ASSUME BatchesGrow, NEW b \in Batches
  PROVE  Accepted(b)' = Accepted(b)
  BY DEF BatchesGrow, Accepted

LEMMA TracedTree ==
  ASSUME GitTypeOK, History, Traced, NEW c \in DOMAIN commits, NEW q \in Tree(c)
  PROVE  q.batch \in Batches
  BY PastFacts DEF Traced, Tree

LEMMA DisjointStays ==
  ASSUME GitTypeOK, History, Traced, CommitsGrow, BatchesGrow,
         NEW c \in DOMAIN commits, Disjoint(c)
  PROVE  Disjoint(c)'
  BY TreeStays, AcceptedStays, TracedTree DEF Disjoint

LEMMA ClearedStays ==
  ASSUME GitTypeOK, History, Traced, CommitsGrow, BatchesGrow, NEW p,
         p.base \in DOMAIN commits, p.batch \in Batches, Cleared(p)
  PROVE  Cleared(p)'
  BY TreeStays, AcceptedStays, TracedTree DEF Cleared

(* A new commit of a cleared preview, or of none, publishes nothing twice.   *)
LEMMA CommitDisjoint ==
  ASSUME GitTypeOK, History, Traced, BatchesGrow,
         NEW parent \in DOMAIN commits, NEW p \in Preview,
         commits' = WithCommit(parent, p), Disjoint(parent),
         p = NoPreview \/ (p.base = parent /\ p.batch \in Batches /\ Cleared(p)),
         NEW n, n = Len(commits) + 1
  PROVE  CommitsGrow /\ Disjoint(n)'
  <1>1. /\ n \notin DOMAIN commits
        /\ DOMAIN commits' = DOMAIN commits \cup {n}
        /\ \A i \in DOMAIN commits : commits'[i] = commits[i]
        /\ commits'[n] = [parent |-> parent, by |-> p,
                          past |-> commits[parent].past \cup {n}]
    BY NewCommit
  <1>2. CommitsGrow
    BY <1>1 DEF CommitsGrow
  <1>3. commits[parent].past \subseteq DOMAIN commits
    BY PastFacts
  <1>4. Tree(n)' = Tree(parent) \cup ({p} \ {NoPreview})
    <2> DEFINE past == commits[parent].past
    <2>1. commits'[n].past = past \cup {n} /\ commits'[n].by = p
      BY <1>1
    <2>2. \A i \in past : commits'[i].by = commits[i].by
      BY <1>1, <1>3
    <2> HIDE DEF past
    <2>3. {commits'[i].by : i \in commits'[n].past} = {commits[i].by : i \in past} \cup {p}
      BY <2>1, <2>2
    <2> QED
      BY <2>3 DEF Tree, past
  <1>5. \A q \in Tree(parent) : q.batch \in Batches /\ Accepted(q.batch)' = Accepted(q.batch)
    BY AcceptedStays, TracedTree
  <1>6. ASSUME NEW q \in Tree(n)', NEW r \in Tree(n)', q # r
        PROVE  Accepted(q.batch)' \cap Accepted(r.batch)' = {}
    <2>1. CASE q \in Tree(parent) /\ r \in Tree(parent)
      BY <1>5, <1>6, <2>1 DEF Disjoint
    <2>2. CASE q = p /\ q # NoPreview /\ r \in Tree(parent)
      BY <1>5, <2>2, AcceptedStays DEF Cleared
    <2>3. CASE r = p /\ r # NoPreview /\ q \in Tree(parent)
      BY <1>5, <2>3, AcceptedStays DEF Cleared
    <2> QED
      BY <1>4, <1>6, <2>1, <2>2, <2>3
  <1>7. Disjoint(n)'
    BY <1>6 DEF Disjoint
  <1> QED
    BY <1>2, <1>7

-----------------------------------------------------------------------------
(* What a publication command may do to Git.                                *)

Quiet ==
  UNCHANGED <<commits, head, remote, worktree>> /\ origin' \in {origin, remote}

LEMMA PublishKinds ==
  ASSUME NEW s \in Shells, Publishes(s)
  PROVE  Quiet \/ WriteExact(s) \/ CommitExact(s) \/ Push(s)
  <1> USE DEF Quiet, gitVars, Fetch
  <1>1. ASSUME NEW b, StartPreview(s, b) PROVE Quiet
    BY <1>1 DEF StartPreview
  <1>2. FreezePreview(s) \/ CreatePreview(s) \/ Compare(s) \/ Replace(s) => Quiet
    BY DEF FreezePreview, CreatePreview, Compare, Replace
  <1>3. ASSUME NEW p, Resume(s, p) PROVE Quiet
    BY <1>3 DEF Resume
  <1>4. ASSUME NEW p, NEW t, ConfirmFresh(s, p, t) PROVE Quiet
    BY <1>4 DEF ConfirmFresh
  <1>5. Reconcile(s) \/ ResumePending(s) \/ ResumeCompleted(s) => Quiet
    BY DEF Reconcile, ResumePending, ResumeCompleted
  <1>6. PutReceipt(s) \/ ReceiptsStand(s) \/ BreaksOff(s) => Quiet
    BY DEF PutReceipt, ReceiptsStand, BreaksOff
  <1> QED
    BY <1>1, <1>2, <1>3, <1>4, <1>5, <1>6 DEF Publishes

LEMMA TracedStays ==
  ASSUME Traced, BatchesGrow, UNCHANGED commits
  PROVE  Traced'
  BY DEF Traced, BatchesGrow

LEMMA SameCommits ==
  ASSUME GitInv, BatchesGrow, UNCHANGED commits,
         {head', origin', remote'} \subseteq DOMAIN commits, worktree' \in Preview
  PROVE  GitInv' /\ CommitsGrow
  <1>1. CommitsGrow
    BY DEF CommitsGrow
  <1>2. History' /\ GitTypeOK'
    BY DEF GitInv, History, GitTypeOK
  <1>3. \A c \in DOMAIN commits : Disjoint(c)'
    BY <1>1, DisjointStays DEF GitInv
  <1> QED
    BY <1>1, <1>2, <1>3, TracedStays DEF GitInv

LEMMA AnotherCommit ==
  ASSUME GitInv, BatchesGrow, NEW parent \in DOMAIN commits, NEW p \in Preview,
         commits' = WithCommit(parent, p),
         p = NoPreview \/ (p.base = parent /\ p.batch \in Batches /\ Cleared(p)),
         \A c \in {head', origin', remote'} : c \in DOMAIN commits \/ c = Len(commits'),
         worktree' \in Preview
  PROVE  GitInv' /\ CommitsGrow
  <1> PICK n : n = Len(commits) + 1
    OBVIOUS
  <1>1. /\ commits' \in Seq(Commit) /\ Len(commits') = n
        /\ DOMAIN commits' = DOMAIN commits \cup {n}
        /\ \A i \in DOMAIN commits : commits'[i] = commits[i]
        /\ commits'[n] = [parent |-> parent, by |-> p,
                          past |-> commits[parent].past \cup {n}]
    BY NewCommit DEF GitInv
  <1>2. CommitsGrow /\ Disjoint(n)'
    BY CommitDisjoint DEF GitInv
  <1>3. \A c \in DOMAIN commits : Disjoint(c)'
    BY <1>2, DisjointStays DEF GitInv
  <1>4. History'
    BY HistoryGrows DEF GitInv
  <1>5. GitTypeOK'
    BY <1>1 DEF GitTypeOK
  <1>6. Traced'
    BY <1>1 DEF Traced, BatchesGrow, GitInv
  <1>7. \A c \in DOMAIN commits' : Disjoint(c)'
    BY <1>1, <1>2, <1>3
  <1> QED
    BY <1>2, <1>4, <1>5, <1>6, <1>7 DEF GitInv

-----------------------------------------------------------------------------
(* What outlives every step.                                                *)

(* An approved publication is never a preview again.                        *)
PubsGrow ==
  /\ DOMAIN pubs \subseteq DOMAIN pubs'
  /\ \A p \in DOMAIN pubs :
       pubs[p].state # "previewed" => pubs'[p].state # "previewed"

ReceiptsStay == \A k \in Ordinals : HasReceipt(k) => receipts'[k] = receipts[k]

Grows == Extended /\ BatchesGrow /\ PubsGrow /\ ReceiptsStay

LEMMA AcceptedOrdinals ==
  ASSUME CaptureInv, NEW b \in Batches
  PROVE  Accepted(b) \subseteq Ordinals
  BY BatchFacts DEF Accepted, IsBatch

LEMMA CommittedStays ==
  ASSUME CommitsGrow, NEW c, NEW p, Committed(c, p)
  PROVE  Committed(c, p)'
  BY DEF CommitsGrow, Committed, IsExactCommit

LEMMA ReceiptsOfStays ==
  ASSUME CaptureInv, BatchesGrow, ReceiptsStay, NEW p, p.batch \in Batches,
         ReceiptsOf(p)
  PROVE  ReceiptsOf(p)'
  BY AcceptedStays, AcceptedOrdinals DEF ReceiptsOf, ReceiptsStay, HasReceipt

LEMMA SoundStays ==
  ASSUME CaptureInv, Grows, NEW r, NEW p, p.batch \in Batches, Sound(r, p)
  PROVE  Sound(r, p)'
  <1>1. CommitsGrow /\ commits[remote].past \subseteq commits'[remote'].past
        /\ BatchesGrow /\ ReceiptsStay
    BY DEF Grows, Extended
  <1>2. r.state \in {"committed_pending_push", "completed"} =>
          Committed(r.commit, p)' /\ ReceiptsOf(p)'
    BY <1>1, CommittedStays, ReceiptsOfStays DEF Sound
  <1>3. r.state = "completed" => IsAncestor(r.commit, remote)'
    BY <1>1 DEF Sound, IsAncestor
  <1> QED
    BY <1>2, <1>3 DEF Sound

LEMMA RecordedStays ==
  ASSUME CaptureInv, GitInv, Grows, NEW p \in DOMAIN pubs, Recorded(p),
         pubs'[p] = pubs[p]
  PROVE  Recorded(p)'
  <1>1. p.batch \in Batches' /\ p.base \in DOMAIN commits' /\ p \in Preview
    BY DEF Recorded, Grows, Extended, CommitsGrow, BatchesGrow
  <1>2. CASE pubs[p] = Previewed
    BY <1>1, <1>2 DEF Recorded
  <1>3. CASE Sound(pubs[p], p) /\ Cleared(p)
    <2> PICK r : r = pubs[p]
      OBVIOUS
    <2>1. Sound(r, p)'
      BY <1>3, SoundStays DEF Recorded
    <2>2. Cleared(p)'
      BY <1>3, ClearedStays DEF Recorded, GitInv, Grows, Extended
    <2> QED
      BY <1>1, <2>1, <2>2 DEF Recorded
  <1> QED
    BY <1>2, <1>3 DEF Recorded

LEMMA ReceiptedStays ==
  ASSUME CaptureInv, RecordsInv, Grows, NEW k \in Ordinals,
         receipts'[k] = receipts[k]
  PROVE  Receipted(k)'
  <1> SUFFICES ASSUME HasReceipt(k) PROVE Receipted(k)'
    BY DEF Receipted, HasReceipt
  <1> PICK r : r = receipts[k]
    OBVIOUS
  <1>1. /\ r.turn \in Turns /\ Committed(r.commit, r.preview)
        /\ r.preview \in DOMAIN pubs /\ pubs[r.preview].state # "previewed"
        /\ k \in Accepted(r.preview.batch)
    BY DEF RecordsInv, Receipted
  <1>2. r.preview.batch \in Batches
    BY <1>1 DEF RecordsInv, Recorded
  <1>3. Committed(r.commit, r.preview)'
    BY <1>1, CommittedStays DEF Grows, Extended
  <1>4. Accepted(r.preview.batch)' = Accepted(r.preview.batch)
    BY <1>2, AcceptedStays DEF Grows
  <1>5. r.preview \in DOMAIN pubs' /\ pubs'[r.preview].state # "previewed"
    BY <1>1 DEF Grows, PubsGrow
  <1> QED
    BY <1>1, <1>3, <1>4, <1>5 DEF Receipted

LEMMA KnowsStays ==
  ASSUME CaptureInv, GitInv, RecordsInv, Grows, NEW c, Knows(c)
  PROVE  Knows(c)'
  <1>1. CommitsGrow /\ BatchesGrow /\ PubsGrow
    BY DEF Grows, Extended
  <1>2. c.p \in DOMAIN pubs => c.p.batch \in Batches /\ c.p.base \in DOMAIN commits
    BY DEF RecordsInv, Recorded
  <1>3. c.at \in {"compare", "replace"} =>
          c.p \in DOMAIN pubs' /\ Cleared(c.p)' /\ Sound(c.next, c.p)'
    BY <1>1, <1>2, ClearedStays, SoundStays DEF Knows, PubsGrow, GitInv
  <1>4. c.at \in {"resume", "write", "commit", "receipts", "remote"} =>
          c.p \in DOMAIN pubs' /\ pubs'[c.p].state # "previewed"
    BY <1>1 DEF Knows, PubsGrow
  <1>5. c.at = "receipts" => Committed(c.held.commit, c.p)'
    BY <1>1, CommittedStays DEF Knows
  <1>6. c.at = "remote" => Sound(c.held, c.p)'
    BY <1>2, SoundStays DEF Knows
  <1>7. /\ c.at \in {"look", "create"} => c.p.batch \in Batches'
        /\ c.at = "create" => c.p.base \in DOMAIN commits'
    BY <1>1 DEF Knows, BatchesGrow, CommitsGrow
  <1> QED
    BY <1>3, <1>4, <1>5, <1>6, <1>7 DEF Knows

-----------------------------------------------------------------------------
(* Each step keeps the history and what outlives it.                        *)

LEMMA CommandFacts ==
  ASSUME PublicationInv, NEW s \in Shells
  PROVE  /\ Knows(publishing[s]) /\ publishing[s] \in Command /\ P(s) \in Preview
         /\ P(s) \in DOMAIN pubs /\ pubs[P(s)].state # "previewed" =>
              Sound(pubs[P(s)], P(s)) /\ Cleared(P(s))
         /\ P(s) \in DOMAIN pubs =>
              P(s).batch \in Batches /\ P(s).base \in DOMAIN commits
  BY DEF PublicationInv, CommandsInv, RecordsInv, Recorded, Previewed, P, Command

LEMMA GitStep ==
  ASSUME CaptureInv, PublicationInv, [Next]_vars, BatchesGrow
  PROVE  GitInv' /\ Extended
  <1>1. /\ GitInv /\ GitTypeOK /\ {head, origin, remote} \subseteq DOMAIN commits
        /\ worktree \in Preview /\ NoPreview \in Preview /\ Mixed \in Preview
    BY DEF PublicationInv, GitInv, GitTypeOK, Preview, NoPreview, Mixed
  <1>2. ASSUME UNCHANGED <<commits, remote>>, {head', origin'} \subseteq DOMAIN commits,
               worktree' \in Preview
        PROVE  GitInv' /\ Extended
    BY <1>1, <1>2, SameCommits DEF Extended
  <1>3. CASE UNCHANGED gitVars
    BY <1>1, <1>2, <1>3 DEF gitVars
  <1>4. CASE OperatorPull
    BY <1>1, <1>2, <1>4 DEF OperatorPull, Fetch
  <1>5. CASE ForeignPush
    <2>1. /\ commits' = WithCommit(remote, NoPreview) /\ remote' = Len(commits')
          /\ UNCHANGED <<head, origin, worktree>>
      BY <1>5 DEF ForeignPush
    <2>2. GitInv' /\ CommitsGrow
      <3>1. \A c \in {head', origin', remote'} : c \in DOMAIN commits \/ c = Len(commits')
        BY <1>1, <2>1
      <3> QED
        BY <1>1, <2>1, <3>1, AnotherCommit
    <2>3. commits[remote].past \subseteq commits'[remote'].past
      <3> PICK n : n = Len(commits) + 1
        OBVIOUS
      <3>0. GitTypeOK /\ History /\ remote \in DOMAIN commits
        BY <1>1 DEF GitInv
      <3>2. /\ Len(commits') = n
            /\ commits'[n] = [parent |-> remote, by |-> NoPreview,
                              past |-> commits[remote].past \cup {n}]
        BY <3>0, <1>1, <2>1, NewCommit
      <3>1. Len(commits') = n /\ commits'[n].past = commits[remote].past \cup {n}
        BY <3>2
      <3> QED
        BY <2>1, <3>1
    <2> QED
      BY <2>2, <2>3 DEF Extended
  <1>6. ASSUME NEW s \in Shells, Publishes(s) PROVE GitInv' /\ Extended
    <2>1. CASE Quiet
      BY <1>1, <1>2, <2>1 DEF Quiet
    <2>2. CASE WriteExact(s)
      <3>1. worktree' \in {NoPreview, P(s), Mixed} /\ UNCHANGED <<commits, head, origin, remote>>
        BY <2>2 DEF WriteExact
      <3> QED
        BY <1>1, <1>2, <3>1, CommandFacts
    <2>3. CASE CommitExact(s)
      <3>1. /\ commits' = WithCommit(head, P(s)) /\ head' = Len(commits')
            /\ worktree' = NoPreview /\ UNCHANGED <<origin, remote>>
            /\ head = P(s).base /\ publishing[s].at = "commit"
        BY <2>3 DEF CommitExact, At
      <3>2. Cleared(P(s)) /\ P(s).batch \in Batches /\ P(s) \in Preview
        BY <3>1, CommandFacts DEF Knows, P
      <3> PICK p : p = P(s)
        OBVIOUS
      <3>3. GitInv' /\ CommitsGrow
        BY <1>1, <3>1, <3>2, AnotherCommit
      <3>4. remote \in DOMAIN commits /\ commits'[remote] = commits[remote]
        BY <1>1, <3>3 DEF CommitsGrow
      <3> QED
        BY <3>1, <3>3, <3>4 DEF Extended
    <2>4. CASE Push(s)
      <3> DEFINE c == Held(s).commit
      <3>1. /\ UNCHANGED <<commits, head, worktree>> /\ origin' = remote'
            /\ \/ UNCHANGED remote
               \/ remote = P(s).base /\ remote' = c
        BY <2>4 DEF Push
      <3>2. Committed(c, P(s))
        BY <2>4, CommandFacts DEF Push, At, Knows, Sound, P, Held
      <3>3. c \in DOMAIN commits /\ commits[c].parent = P(s).base
        BY <3>2 DEF Committed, IsExactCommit
      <3>4. CommitsGrow /\ GitInv'
        BY <1>1, <3>1, <3>3, SameCommits
      <3>5. remote = P(s).base => commits[remote].past \subseteq commits[c].past
        <4>1. DOMAIN commits = 1..Len(commits)
          BY <1>1 DEF GitTypeOK
        <4>2. remote # 0
          BY <1>1, <4>1
        <4>3. commits[c].parent # 0 =>
                commits[c].past = commits[commits[c].parent].past \cup {c}
          BY <1>1, <3>3 DEF GitInv, History
        <4> QED
          BY <3>3, <4>2, <4>3
      <3> QED
        BY <3>1, <3>4, <3>5 DEF Extended
    <2> QED
      BY <1>6, <2>1, <2>2, <2>3, <2>4, PublishKinds
  <1> QED
    BY <1>3, <1>4, <1>5, <1>6, NextSteps DEF gitVars

(* Only three steps store a publication or a receipt.                        *)
LEMMA StoreKinds ==
  ASSUME NEW s \in Shells, Publishes(s)
  PROVE  \/ UNCHANGED <<pubs, receipts>>
         \/ CreatePreview(s) /\ UNCHANGED receipts
         \/ Replace(s) /\ UNCHANGED receipts
         \/ PutReceipt(s) /\ UNCHANGED pubs
  <1>1. ASSUME NEW b, StartPreview(s, b) PROVE UNCHANGED <<pubs, receipts>>
    BY <1>1 DEF StartPreview
  <1>2. FreezePreview(s) \/ Compare(s) => UNCHANGED <<pubs, receipts>>
    BY DEF FreezePreview, Compare
  <1>3. CreatePreview(s) \/ Replace(s) => UNCHANGED receipts
    BY DEF CreatePreview, Replace
  <1>4. ASSUME NEW p, Resume(s, p) PROVE UNCHANGED <<pubs, receipts>>
    BY <1>4 DEF Resume
  <1>5. ASSUME NEW p, NEW t, ConfirmFresh(s, p, t) PROVE UNCHANGED <<pubs, receipts>>
    BY <1>5 DEF ConfirmFresh
  <1>6. Reconcile(s) \/ ResumePending(s) \/ ResumeCompleted(s) \/ WriteExact(s)
          => UNCHANGED <<pubs, receipts>>
    BY DEF Reconcile, ResumePending, ResumeCompleted, WriteExact
  <1>7. CommitExact(s) \/ ReceiptsStand(s) \/ Push(s) \/ BreaksOff(s)
          => UNCHANGED <<pubs, receipts>>
    BY DEF CommitExact, ReceiptsStand, Push, BreaksOff
  <1>8. PutReceipt(s) => UNCHANGED pubs
    BY DEF PutReceipt
  <1> QED
    BY <1>1, <1>2, <1>3, <1>4, <1>5, <1>6, <1>7, <1>8 DEF Publishes

LEMMA FirstMissing ==
  ASSUME CaptureInv, PublicationInv, NEW s \in Shells, PutReceipt(s)
  PROVE  Min(Missing(s)) \in Missing(s) /\ Missing(s) \subseteq Ordinals
  <1>1. P(s).batch \in Batches
    BY CommandFacts DEF PutReceipt, At, Knows, P
  <1>2. Missing(s) \subseteq Ordinals
    BY <1>1, AcceptedOrdinals DEF Missing
  <1>3. Missing(s) \in SUBSET Nat /\ Missing(s) # {}
    BY <1>2 DEF Ordinals, PutReceipt
  <1> QED
    BY <1>2, <1>3, MinIn

LEMMA StoresGrow ==
  ASSUME CaptureInv, PublicationInv, [Next]_vars
  PROVE  PubsGrow /\ ReceiptsStay
  <1>1. CASE UNCHANGED <<pubs, receipts>>
    BY <1>1 DEF PubsGrow, ReceiptsStay
  <1>2. ASSUME NEW s \in Shells, Publishes(s) PROVE PubsGrow /\ ReceiptsStay
    <2>1. UNCHANGED pubs => PubsGrow
      BY DEF PubsGrow
    <2>2. UNCHANGED receipts => ReceiptsStay
      BY DEF ReceiptsStay
    <2>3. CreatePreview(s) => PubsGrow
      BY DEF CreatePreview, PubsGrow
    <2>4. CASE Replace(s)
      <3>1. pubs' = [pubs EXCEPT ![P(s)] = publishing[s].next]
        BY <2>4 DEF Replace
      <3>2. publishing[s].next.state # "previewed"
        BY <2>4, CommandFacts DEF Replace, At, Knows, Sound
      <3>3. PubsGrow
        BY <3>1, <3>2 DEF PubsGrow
      <3> QED
        BY <2>2, <2>4, <3>3 DEF Replace
    <2>5. CASE PutReceipt(s)
      <3>1. PICK k : ~HasReceipt(k) /\ receipts' = [receipts EXCEPT ![k] = Receipt(s)]
        BY <2>5 DEF PutReceipt
      <3>2. ReceiptsStay
        BY <3>1 DEF ReceiptsStay, PublicationInv, RecordsInv
      <3> QED
        BY <2>1, <2>5, <3>2 DEF PutReceipt
    <2> QED
      BY <1>2, <2>1, <2>2, <2>3, <2>4, <2>5, StoreKinds
  <1> QED
    BY <1>1, <1>2, NextSteps

LEMMA RecordsStay ==
  ASSUME CaptureInv, GitInv, RecordsInv, Grows, UNCHANGED <<pubs, receipts>>
  PROVE  RecordsInv'
  BY RecordedStays, ReceiptedStays DEF RecordsInv

LEMMA PublicationStored ==
  ASSUME CaptureInv, PublicationInv, Grows, NEW s \in Shells,
         \/ CreatePreview(s) /\ UNCHANGED receipts
         \/ Replace(s) /\ UNCHANGED receipts
  PROVE  RecordsInv'
  <1>0. GitInv /\ RecordsInv
    BY DEF PublicationInv
  <1>1. receipts' = receipts /\ \A k \in Ordinals : Receipted(k)'
    BY <1>0, ReceiptedStays
  <1> PICK p : p = P(s)
    OBVIOUS
  <1>2. CASE CreatePreview(s)
    <2>1. /\ DOMAIN pubs' = DOMAIN pubs \cup {p} /\ pubs'[p] = Previewed
          /\ \A x \in DOMAIN pubs \ {p} : pubs'[x] = pubs[x]
      BY <1>2 DEF CreatePreview, Previewed
    <2>2. p \in Preview /\ p.batch \in Batches /\ p.base \in DOMAIN commits
      BY <1>2, CommandFacts DEF CreatePreview, At, Knows, P
    <2>3. p.batch \in Batches' /\ p.base \in DOMAIN commits'
      BY <2>2 DEF Grows, BatchesGrow, Extended, CommitsGrow
    <2>4. Recorded(p)'
      BY <2>1, <2>2, <2>3 DEF Recorded, Previewed
    <2>5. \A x \in DOMAIN pubs \ {p} : Recorded(x)'
      BY <1>0, <2>1, RecordedStays DEF RecordsInv
    <2> QED
      BY <1>0, <1>1, <2>1, <2>4, <2>5 DEF RecordsInv
  <1>3. CASE Replace(s)
    <2> PICK r : r = publishing[s].next
      OBVIOUS
    <2>1. /\ p \in DOMAIN pubs /\ Cleared(p) /\ Sound(r, p)
          /\ p \in Preview /\ p.batch \in Batches /\ p.base \in DOMAIN commits
      BY <1>3, CommandFacts DEF Replace, At, Knows, P
    <2>2. /\ DOMAIN pubs' = DOMAIN pubs /\ pubs'[p] = r
          /\ \A x \in DOMAIN pubs \ {p} : pubs'[x] = pubs[x]
      BY <1>3, <2>1 DEF Replace
    <2>3. Cleared(p)' /\ Sound(r, p)'
      BY <1>0, <2>1, ClearedStays, SoundStays DEF GitInv, Grows, Extended
    <2>4. p.batch \in Batches' /\ p.base \in DOMAIN commits'
      BY <2>1 DEF Grows, BatchesGrow, Extended, CommitsGrow
    <2>5. Recorded(p)'
      BY <2>1, <2>2, <2>3, <2>4 DEF Recorded
    <2>6. \A x \in DOMAIN pubs \ {p} : Recorded(x)'
      BY <1>0, <2>2, RecordedStays DEF RecordsInv
    <2> QED
      BY <1>0, <1>1, <2>2, <2>5, <2>6 DEF RecordsInv
  <1> QED
    BY <1>2, <1>3

LEMMA ReceiptStored ==
  ASSUME CaptureInv, PublicationInv, Grows, NEW s \in Shells, PutReceipt(s),
         UNCHANGED pubs
  PROVE  RecordsInv'
  <1>0. GitInv /\ RecordsInv
    BY DEF PublicationInv
  <1> PICK k : k = Min(Missing(s))
    OBVIOUS
  <1> PICK r : r = Receipt(s)
    OBVIOUS
  <1>1. k \in Missing(s) /\ k \in Ordinals
    BY FirstMissing
  <1>2. receipts' = [receipts EXCEPT ![k] = r]
    BY DEF PutReceipt
  <1>3. r = [preview |-> P(s), commit |-> Held(s).commit, turn |-> Held(s).turn]
    BY DEF Receipt
  <1>4. /\ Held(s).turn \in Turns /\ Committed(Held(s).commit, P(s))
        /\ P(s) \in DOMAIN pubs /\ pubs[P(s)].state # "previewed" /\ P(s) \in Preview
        /\ P(s).batch \in Batches
    BY CommandFacts DEF PutReceipt, At, Knows, P, Held
  <1>5. Held(s).commit \in Nat
    BY <1>0, <1>4 DEF Committed, GitInv, GitTypeOK
  <1>6. k \in Accepted(P(s).batch)
    BY <1>1 DEF Missing
  <1>7. /\ receipts' \in [Ordinals -> [preview : Preview, commit : Nat,
                                       turn : Turns \cup {None}]]
        /\ receipts'[k] = r /\ \A j \in Ordinals \ {k} : receipts'[j] = receipts[j]
    BY <1>0, <1>1, <1>2, <1>3, <1>4, <1>5 DEF RecordsInv
  <1>8. /\ r.turn \in Turns /\ Committed(r.commit, r.preview)
        /\ r.preview \in DOMAIN pubs /\ pubs[r.preview].state # "previewed"
        /\ r.preview.batch \in Batches /\ k \in Accepted(r.preview.batch)
    BY <1>3, <1>4, <1>6
  <1>9. Receipted(k)'
    <2>1. Committed(r.commit, r.preview)'
      BY <1>8, CommittedStays DEF Grows, Extended
    <2>2. Accepted(r.preview.batch)' = Accepted(r.preview.batch)
      BY <1>8, AcceptedStays DEF Grows
    <2> QED
      BY <1>7, <1>8, <2>1, <2>2 DEF Receipted
  <1>10. \A j \in Ordinals \ {k} : Receipted(j)'
    BY <1>0, <1>7, ReceiptedStays
  <1>11. \A x \in DOMAIN pubs' : Recorded(x)'
    BY <1>0, RecordedStays DEF RecordsInv
  <1> QED
    BY <1>7, <1>9, <1>10, <1>11 DEF RecordsInv

LEMMA RecordsStep ==
  ASSUME CaptureInv, PublicationInv, [Next]_vars, Grows
  PROVE  RecordsInv'
  <1>1. CASE UNCHANGED <<pubs, receipts>>
    BY <1>1, RecordsStay DEF PublicationInv
  <1>2. ASSUME NEW s \in Shells, Publishes(s) PROVE RecordsInv'
    BY <1>1, <1>2, StoreKinds, PublicationStored, ReceiptStored
  <1> QED
    BY <1>1, <1>2, NextSteps

-----------------------------------------------------------------------------
(* What the commands know.                                                  *)

LEMMA IdleKnows == Idle \in Command /\ Idle.at = "idle" /\ Knows(Idle)
  BY DEF Idle, Command, Steps, Knows, Preview, NoPreview

(* One command moves to c, of which it knows what c's step needs.            *)
LEMMA CommandMoves ==
  ASSUME CaptureInv, PublicationInv, Grows, NEW s \in Shells, NEW c \in Command,
         publishing' = [publishing EXCEPT ![s] = c], UNCHANGED writing,
         Knows(c) \/ Knows(c)',
         c.at # "idle" => writing[s] = <<>>
  PROVE  CommandsInv'
  <1>1. /\ GitInv /\ RecordsInv /\ publishing \in [Shells -> Command]
        /\ \A x \in Shells : Knows(publishing[x])
        /\ \A x \in Shells : publishing[x].at # "idle" => writing[x] = <<>>
    BY DEF PublicationInv, CommandsInv
  <1>2. /\ publishing' \in [Shells -> Command] /\ publishing'[s] = c
        /\ \A x \in Shells \ {s} : publishing'[x] = publishing[x]
    BY <1>1
  <1>3. Knows(c)'
    BY <1>1, KnowsStays
  <1>4. ASSUME NEW x \in Shells PROVE Knows(publishing[x])'
    <2>1. CASE x = s
      <3>1. publishing'[x] = c
        BY <1>2, <2>1
      <3> QED
        BY <1>3, <3>1 DEF Knows
    <2>2. CASE x # s
      <3> PICK d : d = publishing[x]
        OBVIOUS
      <3>1. Knows(d)' /\ publishing'[x] = d
        BY <1>1, <1>2, <2>2, KnowsStays
      <3> QED
        BY <3>1 DEF Knows
    <2> QED
      BY <2>1, <2>2
  <1> QED
    BY <1>1, <1>2, <1>4 DEF CommandsInv

LEMMA CommandsStay ==
  ASSUME CaptureInv, PublicationInv, Grows, UNCHANGED publishing,
         \A x \in Shells : writing'[x] # writing[x] => publishing[x].at = "idle"
  PROVE  CommandsInv'
  <1>1. GitInv /\ RecordsInv /\ CommandsInv
    BY DEF PublicationInv
  <1>2. ASSUME NEW x \in Shells PROVE Knows(publishing[x])'
    <2> PICK d : d = publishing[x]
      OBVIOUS
    <2>1. Knows(d)' /\ publishing'[x] = d
      BY <1>1, KnowsStays DEF CommandsInv
    <2> QED
      BY <2>1 DEF Knows
  <1> QED
    BY <1>1, <1>2 DEF CommandsInv

(* Where a replacement that stands leads.                                   *)
LEMMA ReplacedMoves ==
  ASSUME CaptureInv, PublicationInv, Grows, NEW s \in Shells, UNCHANGED writing,
         publishing[s].at \in {"compare", "replace"}, Replaced(s),
         pubs'[P(s)] = publishing[s].next
  PROVE  CommandsInv'
  <1> PICK p : p = P(s)
    OBVIOUS
  <1> PICK r : r = publishing[s].next
    OBVIOUS
  <1>1. /\ publishing[s] \in Command /\ writing[s] = <<>>
        /\ publishing \in [Shells -> Command]
    BY DEF PublicationInv, CommandsInv
  <1>2. /\ p \in DOMAIN pubs /\ Sound(r, p) /\ p.batch \in Batches /\ p = publishing[s].p
    BY CommandFacts DEF Knows, P
  <1>3. /\ p \in DOMAIN pubs' /\ pubs'[p] = r /\ r.state # "previewed"
    BY <1>2 DEF Grows, PubsGrow, Sound
  <1>4. Sound(r, p)' /\ r \in Publications
    BY <1>2, SoundStays DEF Sound
  <1>5. CASE r.state = "completed"
    <2>1. publishing' = [publishing EXCEPT ![s] = Idle]
      BY <1>5 DEF Replaced
    <2> QED
      BY <2>1, IdleKnows, CommandMoves
  <1>6. CASE r.state = "committed_pending_push"
    <2> PICK c : c = [publishing[s] EXCEPT !.at = "remote", !.held = r]
      OBVIOUS
    <2>1. publishing' = [publishing EXCEPT ![s] = c]
      BY <1>6 DEF Replaced
    <2>2. /\ c \in Command /\ c.at = "remote" /\ c.p = p /\ c.held = r
      BY <1>1, <1>2, <1>4 DEF Command, Steps
    <2>3. Knows(c)'
      BY <1>3, <1>4, <1>6, <2>2 DEF Knows
    <2> QED
      BY <1>1, <2>1, <2>2, <2>3, CommandMoves
  <1>7. CASE r.state \notin {"completed", "committed_pending_push"}
    <2> PICK c : c = [publishing[s] EXCEPT !.at = "resume"]
      OBVIOUS
    <2>1. publishing' = [publishing EXCEPT ![s] = c]
      BY <1>7 DEF Replaced, Goto
    <2>2. /\ c \in Command /\ c.at = "resume" /\ c.p = p
      BY <1>1, <1>2 DEF Command, Steps
    <2>3. Knows(c)'
      BY <1>3, <2>2 DEF Knows
    <2> QED
      BY <1>1, <2>1, <2>2, <2>3, CommandMoves
  <1> QED
    BY <1>5, <1>6, <1>7

Setting(s) ==
  CaptureInv /\ PublicationInv /\ GitInv' /\ Grows /\ s \in Shells /\ UNCHANGED writing

(* The record of an approved publication.                                   *)
LEMMA ApprovedRecord ==
  ASSUME PublicationInv, NEW s \in Shells,
         publishing[s].at \in {"resume", "write", "commit", "receipts", "remote"}
  PROVE  /\ P(s) \in DOMAIN pubs /\ Cleared(P(s)) /\ Sound(pubs[P(s)], P(s))
         /\ P(s) \in Preview /\ P(s).batch \in Batches /\ writing[s] = <<>>
         /\ pubs[P(s)].turn \in Turns /\ pubs[P(s)].state # "previewed"
  <1>1. P(s) \in DOMAIN pubs /\ pubs[P(s)].state # "previewed"
    BY CommandFacts DEF Knows, P
  <1>2. Cleared(P(s)) /\ Sound(pubs[P(s)], P(s)) /\ P(s) \in Preview /\ P(s).batch \in Batches
    BY <1>1, CommandFacts
  <1>3. pubs[P(s)].turn \in Turns
    BY <1>2 DEF Sound, HasShape, Publications
  <1>4. writing[s] = <<>>
    BY DEF PublicationInv, CommandsInv
  <1> QED
    BY <1>1, <1>2, <1>3, <1>4

LEMMA PreviewCommands ==
  ASSUME NEW s \in Shells, Setting(s),
         \/ \E b \in 1..MaxBatches : StartPreview(s, b)
         \/ FreezePreview(s) \/ CreatePreview(s) \/ BreaksOff(s) \/ ResumeCompleted(s)
         \/ \E p \in DOMAIN pubs : Resume(s, p)
  PROVE  CommandsInv'
  <1> USE DEF Setting
  <1>1. CASE CreatePreview(s) \/ BreaksOff(s) \/ ResumeCompleted(s)
    <2>1. publishing' = [publishing EXCEPT ![s] = Idle]
      BY <1>1 DEF CreatePreview, BreaksOff, ResumeCompleted
    <2> QED
      BY <2>1, IdleKnows, CommandMoves
  <1>2. ASSUME NEW b \in 1..MaxBatches, StartPreview(s, b) PROVE CommandsInv'
    <2> PICK c : c = [Idle EXCEPT !.at = "look", !.p = [batch |-> b, base |-> 0]]
      OBVIOUS
    <2>1. /\ publishing' = [publishing EXCEPT ![s] = c] /\ writing[s] = <<>>
          /\ b \in Batches
      BY <1>2 DEF StartPreview, Starts, Batches
    <2>4. b \in Nat /\ [batch |-> b, base |-> 0] \in Preview
      BY DEF Preview
    <2>5. c = [at |-> "look", p |-> [batch |-> b, base |-> 0], turn |-> None,
               held |-> None, next |-> None]
      BY DEF Idle
    <2>2. c \in Command /\ c.at = "look" /\ c.p.batch = b
      BY <2>4, <2>5 DEF Command, Steps
    <2>3. Knows(c)
      BY <2>1, <2>2 DEF Knows
    <2> QED
      BY <2>1, <2>2, <2>3, CommandMoves
  <1>3. CASE FreezePreview(s)
    <2> PICK c : c = [publishing[s] EXCEPT !.at = "create", !.p.base = head]
      OBVIOUS
    <2>1. publishing' = [publishing EXCEPT ![s] = c] /\ publishing[s].at = "look"
      BY <1>3 DEF FreezePreview, At
    <2>2. head \in Nat /\ head \in DOMAIN commits
      BY DEF PublicationInv, GitInv, GitTypeOK
    <2>3. publishing[s] \in Command /\ Knows(publishing[s]) /\ writing[s] = <<>>
      BY <2>1 DEF PublicationInv, CommandsInv
    <2>4. /\ c \in Command /\ c.at = "create" /\ c.p.base = head
          /\ c.p.batch = publishing[s].p.batch
      BY <2>2, <2>3 DEF Command, Steps, Preview
    <2>5. Knows(c)
      BY <2>1, <2>2, <2>3, <2>4 DEF Knows
    <2> QED
      BY <2>1, <2>3, <2>4, <2>5, CommandMoves
  <1>4. ASSUME NEW p \in DOMAIN pubs, Resume(s, p) PROVE CommandsInv'
    <2> PICK c : c = [Idle EXCEPT !.at = "resume", !.p = p]
      OBVIOUS
    <2>1. /\ publishing' = [publishing EXCEPT ![s] = c] /\ writing[s] = <<>>
          /\ pubs[p].state # "previewed"
      BY <1>4 DEF Resume, Starts
    <2>2. p \in Preview
      BY DEF PublicationInv, RecordsInv, Recorded
    <2>3. c \in Command /\ c.at = "resume" /\ c.p = p
      BY <2>2 DEF Idle, Command, Steps
    <2>4. Knows(c)
      BY <2>1, <2>3 DEF Knows
    <2> QED
      BY <2>1, <2>3, <2>4, CommandMoves
  <1> QED
    BY <1>1, <1>2, <1>3, <1>4

LEMMA ApprovedPreview ==
  ASSUME NEW t \in Turns, NEW p, NEW o \in Publications, o.commit = 0, NEW r,
         r = [o EXCEPT !.state = "confirmed", !.turn = t]
  PROVE  r \in Publications /\ Sound(r, p)
  <1>1. r \in Publications /\ r.state = "confirmed" /\ r.turn = t
    BY DEF Publications
  <1>2. r.commit = 0
    BY DEF Publications
  <1>3. r.turn # None
    BY <1>1
  <1>4. HasShape(r)
    BY <1>1, <1>2, <1>3 DEF HasShape
  <1> QED
    BY <1>1, <1>4 DEF Sound

LEMMA ConfirmCommand ==
  ASSUME NEW s \in Shells, Setting(s), NEW p \in DOMAIN pubs, NEW t \in Turns,
         ConfirmFresh(s, p, t)
  PROVE  CommandsInv'
  <1> USE DEF Setting
  <1> PICK r : r = [pubs[p] EXCEPT !.state = "confirmed", !.turn = t]
    OBVIOUS
  <1> PICK c : c = [at |-> "compare", p |-> p, turn |-> t, held |-> pubs[p], next |-> r]
    OBVIOUS
  <1>1. /\ publishing' = [publishing EXCEPT ![s] = c] /\ writing[s] = <<>>
        /\ pubs[p].state = "previewed" /\ ~AlreadyHead(p.batch) /\ head = p.base
    BY DEF ConfirmFresh, Starts, Fresh, ExactMain
  <1>2. Recorded(p) /\ p \in Preview
    BY DEF PublicationInv, RecordsInv, Recorded
  <1>3. pubs[p] = Previewed
    BY <1>1, <1>2 DEF Recorded, Sound
  <1>4. /\ Previewed \in Publications /\ r \in Publications
        /\ Sound(r, p)
    <2>1. Previewed \in Publications /\ Previewed.commit = 0
      BY DEF Previewed, Publications
    <2> QED
      BY <1>3, <2>1, ApprovedPreview
  <1>6. Cleared(p)
    BY <1>1 DEF Cleared, AlreadyHead
  <1>7. /\ c \in Command /\ c.at = "compare" /\ c.p = p /\ c.next = r
    BY <1>2, <1>3, <1>4 DEF Command, Steps
  <1>8. Knows(c)
    BY <1>4, <1>6, <1>7 DEF Knows
  <1> QED
    BY <1>1, <1>7, <1>8, CommandMoves

LEMMA ReplaceCommands ==
  ASSUME NEW s \in Shells, Setting(s), Compare(s) \/ Replace(s)
  PROVE  CommandsInv'
  <1> USE DEF Setting
  <1> PICK p : p = P(s)
    OBVIOUS
  <1> PICK r : r = publishing[s].next
    OBVIOUS
  <1>1. /\ publishing[s] \in Command /\ writing[s] = <<>> /\ Knows(publishing[s])
        /\ publishing[s].at \in {"compare", "replace"}
    BY DEF PublicationInv, CommandsInv, Compare, Replace, At
  <1>2. p \in DOMAIN pubs /\ Cleared(p) /\ Sound(r, p) /\ p = publishing[s].p
    BY <1>1 DEF Knows, P
  <1>3. CASE Replace(s)
    <2>1. pubs'[P(s)] = publishing[s].next
      BY <1>2, <1>3 DEF Replace
    <2> QED
      BY <1>1, <1>3, <2>1, ReplacedMoves DEF Replace
  <1>4. CASE Compare(s) /\ pubs[p] = r /\ Replaced(s)
    BY <1>1, <1>4, ReplacedMoves DEF Compare
  <1>5. CASE Compare(s) /\ Goto(s, "replace")
    <2> PICK c : c = [publishing[s] EXCEPT !.at = "replace"]
      OBVIOUS
    <2>1. publishing' = [publishing EXCEPT ![s] = c]
      BY <1>5 DEF Goto
    <2>2. c \in Command /\ c.at = "replace" /\ c.p = p /\ c.next = r
      BY <1>1, <1>2 DEF Command, Steps
    <2>3. Knows(c)
      BY <1>2, <2>2 DEF Knows
    <2> QED
      BY <1>1, <2>1, <2>2, <2>3, CommandMoves
  <1>6. CASE Compare(s) /\ pubs[p].turn = r.turn /\ Goto(s, "resume")
    <2> PICK c : c = [publishing[s] EXCEPT !.at = "resume"]
      OBVIOUS
    <2>1. publishing' = [publishing EXCEPT ![s] = c]
      BY <1>6 DEF Goto
    <2>2. c \in Command /\ c.at = "resume" /\ c.p = p
      BY <1>1, <1>2 DEF Command, Steps
    <2>3. r.turn # None
      BY <1>2 DEF Sound, HasShape
    <2>4. Recorded(p)
      BY <1>2 DEF PublicationInv, RecordsInv
    <2>5. pubs[p].state # "previewed"
      BY <1>6, <2>3, <2>4 DEF Recorded, Previewed, Sound
    <2>6. Knows(c)
      BY <1>2, <2>2, <2>5 DEF Knows
    <2> QED
      BY <1>1, <2>1, <2>2, <2>6, CommandMoves
  <1> QED
    BY <1>3, <1>4, <1>5, <1>6 DEF Compare

(* The command of s goes on with another record in its hand.                 *)
LEMMA AdoptsMoves ==
  ASSUME NEW s \in Shells, Setting(s), NEW r \in Publications, Adopts(s, r),
         publishing[s].at \in {"resume", "commit"}, r.turn \in Turns,
         r.state \in {"confirmed", "committed_pending_push"},
         Committed(r.commit, P(s)) \/ Committed(r.commit, publishing[s].p)'
  PROVE  CommandsInv'
  <1> USE DEF Setting
  <1> PICK p : p = P(s)
    OBVIOUS
  <1> PICK c : c = [publishing[s] EXCEPT !.at = "receipts", !.held = r]
    OBVIOUS
  <1>1. publishing' = [publishing EXCEPT ![s] = c]
    BY DEF Adopts
  <1>2. /\ publishing[s] \in Command /\ publishing \in [Shells -> Command]
        /\ p = publishing[s].p /\ writing[s] = <<>>
    BY DEF PublicationInv, CommandsInv, P
  <1>3. /\ c \in Command /\ c.at = "receipts" /\ c.p = p /\ c.held = r
    BY <1>2 DEF Command, Steps
  <1>4. publishing'[s].p = p
    BY <1>1, <1>2, <1>3
  <1>5. Committed(r.commit, p)'
    BY <1>2, <1>4, CommittedStays DEF Grows, Extended, Committed, P
  <1>6. p \in DOMAIN pubs' /\ pubs'[p].state # "previewed"
    BY ApprovedRecord DEF Grows, PubsGrow
  <1>7. Knows(c)'
    BY <1>3, <1>5, <1>6 DEF Knows
  <1> QED
    BY <1>1, <1>2, <1>3, <1>7, CommandMoves

LEMMA ReconcileCommand ==
  ASSUME NEW s \in Shells, Setting(s), Reconcile(s) \/ ResumePending(s)
  PROVE  CommandsInv'
  <1> USE DEF Setting
  <1> PICK r : r = pubs[P(s)]
    OBVIOUS
  <1>1. publishing[s].at = "resume"
    BY DEF Reconcile, ResumePending, At
  <1>2. /\ P(s) \in DOMAIN pubs /\ Sound(r, P(s)) /\ r \in Publications
        /\ r.turn \in Turns /\ writing[s] = <<>> /\ r.state # "previewed"
    BY <1>1, ApprovedRecord DEF Sound
  <1>3. publishing[s] \in Command /\ publishing[s].p = P(s)
    BY DEF PublicationInv, CommandsInv, P
  <1>4. CASE ResumePending(s)
    <2>1. r.state = "committed_pending_push" /\ Adopts(s, r)
      BY <1>4 DEF ResumePending
    <2>2. Committed(r.commit, P(s))
      BY <1>2, <2>1 DEF Sound
    <2> QED
      BY <1>1, <1>2, <2>1, <2>2, AdoptsMoves
  <1>5. CASE Reconcile(s)
    <2>1. r.state = "confirmed"
      BY <1>5 DEF Reconcile
    <2>2. CASE publishing' = [publishing EXCEPT ![s].at = "write", ![s].held = r]
      <3> PICK c : c = [publishing[s] EXCEPT !.at = "write", !.held = r]
        OBVIOUS
      <3>1. publishing' = [publishing EXCEPT ![s] = c]
        BY <2>2
      <3>2. c \in Command /\ c.at = "write" /\ c.p = P(s) /\ c.held = r
        BY <1>2, <1>3 DEF Command, Steps
      <3>3. Knows(c)
        BY <1>2, <2>1, <3>2 DEF Knows
      <3> QED
        BY <1>2, <3>1, <3>2, <3>3, CommandMoves
    <2>3. CASE IsExactCommit(head, P(s)) /\ Adopts(s, [r EXCEPT !.commit = head])
      <3>1. head \in DOMAIN commits /\ head \in Nat
        BY DEF PublicationInv, GitInv, GitTypeOK
      <3> PICK h : h = [r EXCEPT !.commit = head]
        OBVIOUS
      <3>2. /\ h \in Publications /\ h.turn = r.turn /\ h.state = r.state
            /\ h.commit = head
        BY <1>2, <3>1 DEF Publications
      <3>3. Committed(h.commit, P(s))
        BY <2>3, <3>1, <3>2 DEF Committed
      <3> QED
        BY <1>1, <1>2, <2>1, <2>3, <3>2, <3>3, AdoptsMoves
    <2> QED
      BY <1>5, <2>2, <2>3 DEF Reconcile
  <1> QED
    BY <1>4, <1>5

LEMMA CommitCommand ==
  ASSUME NEW s \in Shells, Setting(s), WriteExact(s) \/ CommitExact(s)
  PROVE  CommandsInv'
  <1> USE DEF Setting
  <1> PICK p : p = P(s)
    OBVIOUS
  <1>1. /\ publishing[s].at \in {"write", "commit"} /\ publishing[s] \in Command
        /\ publishing[s].p = p /\ Knows(publishing[s]) /\ p \in DOMAIN pubs
        /\ publishing \in [Shells -> Command]
    BY ApprovedRecord DEF PublicationInv, CommandsInv, P, WriteExact, CommitExact, At
  <1>2. writing[s] = <<>> /\ p \in Preview
    BY <1>1, ApprovedRecord
  <1>3. CASE WriteExact(s)
    <2> PICK c : c = [publishing[s] EXCEPT !.at = "commit"]
      OBVIOUS
    <2>1. publishing' = [publishing EXCEPT ![s] = c] /\ publishing[s].at = "write"
      BY <1>3 DEF WriteExact, Goto, At
    <2>2. c \in Command /\ c.at = "commit" /\ c.p = p /\ c.held = publishing[s].held
      BY <1>1 DEF Command, Steps
    <2>3. Knows(c)
      BY <1>1, <2>1, <2>2 DEF Knows
    <2> QED
      BY <1>2, <2>1, <2>2, <2>3, CommandMoves
  <1>4. CASE CommitExact(s)
    <2> PICK n : n = Len(commits')
      OBVIOUS
    <2> PICK h : h = Held(s)
      OBVIOUS
    <2> PICK r : r = [h EXCEPT !.commit = n]
      OBVIOUS
    <2>1. /\ commits' = WithCommit(head, p) /\ head = p.base /\ Adopts(s, r)
          /\ publishing[s].at = "commit"
      BY <1>4 DEF CommitExact, At
    <2>2. h \in Publications /\ h.state = "confirmed" /\ h.turn \in Turns
      BY <1>1, <2>1 DEF Knows, Held
    <2>3. GitTypeOK /\ History /\ head \in DOMAIN commits
      BY DEF PublicationInv, GitInv, GitTypeOK
    <2>4. /\ n \in Nat /\ DOMAIN commits' = DOMAIN commits \cup {n}
          /\ commits'[n] = [parent |-> head, by |-> p,
                            past |-> commits[head].past \cup {n}]
      <3> PICK k : k = Len(commits) + 1
        OBVIOUS
      <3>1. /\ Len(commits') = k /\ k \in Nat
            /\ DOMAIN commits' = DOMAIN commits \cup {k}
            /\ commits'[k] = [parent |-> head, by |-> p,
                              past |-> commits[head].past \cup {k}]
        BY <1>2, <2>1, <2>3, NewCommit
      <3>2. k = n
        BY <3>1
      <3> QED
        BY <3>1, <3>2
    <2>5. r \in Publications /\ r.commit = n /\ r.state = "confirmed" /\ r.turn \in Turns
      BY <2>2, <2>4 DEF Publications
    <2>6. publishing'[s].p = p
      BY <1>1, <2>1 DEF Adopts
    <2>7. n \in DOMAIN commits' /\ commits'[n].parent = p.base /\ commits'[n].by = p
      BY <2>1, <2>4
    <2>8. Committed(r.commit, publishing[s].p)'
      BY <2>5, <2>6, <2>7 DEF Committed, IsExactCommit
    <2> QED
      BY <2>1, <2>5, <2>8, AdoptsMoves
  <1> QED
    BY <1>3, <1>4

LEMMA AllReceiptsStand ==
  ASSUME NEW s \in Shells, Setting(s), ReceiptsStand(s)
  PROVE  ReceiptsOf(P(s))
  <1> USE DEF Setting
  <1>1. Held(s).turn \in Turns
    BY CommandFacts DEF ReceiptsStand, At, Knows, Held
  <1>2. ASSUME NEW k \in Accepted(P(s).batch)
        PROVE  HasReceipt(k) /\ receipts[k].preview = P(s)
    <2>1. receipts[k] = Receipt(s)
      BY DEF ReceiptsStand, Missing
    <2>2. Receipt(s).preview = P(s) /\ Receipt(s).turn # NoReceipt.turn
      BY <1>1 DEF Receipt, NoReceipt
    <2> QED
      BY <2>1, <2>2 DEF HasReceipt
  <1> QED
    BY <1>2 DEF ReceiptsOf

LEMMA ReceiptsCommand ==
  ASSUME NEW s \in Shells, Setting(s), ReceiptsStand(s)
  PROVE  CommandsInv'
  <1> USE DEF Setting
  <1> PICK p : p = P(s)
    OBVIOUS
  <1> PICK h : h = Held(s)
    OBVIOUS
  <1>1. /\ publishing[s].at = "receipts" /\ publishing[s] \in Command
        /\ publishing[s].p = p /\ publishing[s].held = h
        /\ h \in Publications /\ h.turn \in Turns /\ Committed(h.commit, p)
        /\ h.state \in {"confirmed", "committed_pending_push"}
    BY CommandFacts DEF ReceiptsStand, At, Knows, P, Held
  <1>2. /\ p \in DOMAIN pubs /\ Cleared(p) /\ writing[s] = <<>>
        /\ pubs[p].state # "previewed"
    BY <1>1, ApprovedRecord
  <1>3. ReceiptsOf(p)
    BY AllReceiptsStand
  <1>4. h.commit # 0
    <2>1. DOMAIN commits = 1..Len(commits)
      BY DEF PublicationInv, GitInv, GitTypeOK
    <2> QED
      BY <1>1, <2>1 DEF Committed
  <1>5. CASE h.state = "confirmed"
    <2> PICK o : o = [h EXCEPT !.commit = 0]
      OBVIOUS
    <2> PICK r : r = [h EXCEPT !.state = "committed_pending_push"]
      OBVIOUS
    <2> PICK c : c = [publishing[s] EXCEPT !.at = "compare", !.held = o, !.next = r]
      OBVIOUS
    <2>1. publishing' = [publishing EXCEPT ![s] = c]
      BY <1>5 DEF ReceiptsStand, Replaces
    <2>2. o \in Publications
      BY <1>1 DEF Publications
    <2>3. /\ r \in Publications /\ r.state = "committed_pending_push"
          /\ r.turn = h.turn /\ r.commit = h.commit
      BY <1>1 DEF Publications
    <2>4. c \in Command /\ c.at = "compare" /\ c.p = p /\ c.next = r
      BY <1>1, <2>2, <2>3 DEF Command, Steps
    <2>5. HasShape(r)
      BY <1>1, <1>4, <2>3 DEF HasShape
    <2>6. Sound(r, p)
      BY <1>1, <1>3, <2>3, <2>5 DEF Sound
    <2>7. Knows(c)
      BY <1>2, <2>4, <2>6 DEF Knows
    <2> QED
      BY <1>2, <2>1, <2>4, <2>7, CommandMoves
  <1>6. CASE h.state # "confirmed"
    <2> PICK c : c = [publishing[s] EXCEPT !.at = "remote"]
      OBVIOUS
    <2>1. publishing' = [publishing EXCEPT ![s] = c]
      BY <1>6 DEF ReceiptsStand, Goto
    <2>2. c \in Command /\ c.at = "remote" /\ c.p = p /\ c.held = h
      BY <1>1 DEF Command, Steps
    <2>3. HasShape(h) /\ h.state = "committed_pending_push"
      BY <1>1, <1>4, <1>6 DEF HasShape
    <2>4. Sound(h, p)
      BY <1>1, <1>3, <2>3 DEF Sound
    <2>5. Knows(c)
      BY <1>2, <2>2, <2>3, <2>4 DEF Knows
    <2> QED
      BY <1>2, <2>1, <2>2, <2>5, CommandMoves
  <1> QED
    BY <1>5, <1>6

LEMMA PushCommand ==
  ASSUME NEW s \in Shells, Setting(s), Push(s)
  PROVE  CommandsInv'
  <1> USE DEF Setting
  <1> PICK p : p = P(s)
    OBVIOUS
  <1> PICK h : h = Held(s)
    OBVIOUS
  <1> PICK r : r = [h EXCEPT !.state = "completed"]
    OBVIOUS
  <1> PICK c : c = [publishing[s] EXCEPT !.at = "compare", !.held = h, !.next = r]
    OBVIOUS
  <1>1. /\ publishing[s].at = "remote" /\ publishing[s] \in Command
        /\ publishing[s].p = p /\ publishing[s].held = h
        /\ Sound(h, p) /\ h.state = "committed_pending_push"
    BY CommandFacts DEF Push, At, Knows, P, Held
  <1>2. /\ p \in DOMAIN pubs /\ Cleared(p) /\ p.batch \in Batches /\ writing[s] = <<>>
        /\ p.base \in DOMAIN commits
    BY <1>1, ApprovedRecord, CommandFacts
  <1>3. publishing' = [publishing EXCEPT ![s] = c]
    BY DEF Push, Replaces
  <1>4. /\ r \in Publications /\ r.state = "completed"
        /\ r.turn = h.turn /\ r.commit = h.commit
    BY <1>1 DEF Publications, Sound
  <1>5. HasShape(r)
    BY <1>1, <1>4 DEF HasShape, Sound
  <1>6. Sound(h, p)' /\ Cleared(p)'
    BY <1>1, <1>2, SoundStays, ClearedStays DEF PublicationInv, GitInv, Grows, Extended
  <1>7. IsAncestor(h.commit, remote)'
    <2>1. commits' = commits
      BY DEF Push
    <2>2. h.commit \in commits[h.commit].past
      BY <1>1 DEF Sound, Committed, PublicationInv, GitInv, History
    <2> QED
      BY <2>1, <2>2 DEF Push, IsAncestor
  <1>8. Sound(r, p)'
    BY <1>1, <1>4, <1>5, <1>6, <1>7 DEF Sound
  <1>9. /\ c \in Command /\ c.at = "compare" /\ c.p = p /\ c.next = r
    BY <1>1, <1>4 DEF Command, Steps, Sound
  <1>10. p \in DOMAIN pubs'
    BY <1>2 DEF Grows, PubsGrow
  <1>11. Knows(c)'
    BY <1>6, <1>8, <1>9, <1>10 DEF Knows
  <1> QED
    BY <1>2, <1>3, <1>9, <1>11, CommandMoves

LEMMA CommandsStep ==
  ASSUME CaptureInv, PublicationInv, [Next]_vars, GitInv', Grows
  PROVE  CommandsInv'
  <1>1. CASE /\ UNCHANGED publishing
             /\ \A x \in Shells : writing'[x] # writing[x] => publishing[x].at = "idle"
    BY <1>1, CommandsStay
  <1>2. ASSUME NEW s \in Shells, At(s, "idle"), Works(s), UNCHANGED publishing
        PROVE  CommandsInv'
    <2>1. \E q : writing' = [writing EXCEPT ![s] = q]
      <3>1. Captures(s) \/ Reviews(s) => \E q : Stores(s, q)
        BY DEF Captures, Prepare, AttachFork, AttachInventoryTurn,
               AttachExtractionTurn, CompleteInventory, CompleteExtraction,
               FailStage, StoresCapture, Reviews, RecordReview
      <3>2. Writes(s) => Goes(s) \/ CutOff(s)
        BY DEF Writes, PutCapture, LookForInventory, PutInventory, PutManifest,
               PutCandidate, PutCompleted, PutBatch
      <3> QED
        BY <1>2, <3>1, <3>2 DEF Works, Stores, Goes, CutOff
    <2>2. \A x \in Shells \ {s} : writing'[x] = writing[x]
      BY <2>1 DEF CaptureInv
    <2> QED
      BY <1>1, <1>2, <2>2 DEF At
  <1>3. ASSUME NEW s \in Shells, Publishes(s), UNCHANGED writing
        PROVE  CommandsInv'
    <2>1. Setting(s)
      BY <1>3 DEF Setting
    <2>2. ASSUME NEW p \in DOMAIN pubs, NEW t \in Turns, ConfirmFresh(s, p, t)
          PROVE  CommandsInv'
      BY <2>1, <2>2, ConfirmCommand
    <2>3. CASE \/ \E b \in 1..MaxBatches : StartPreview(s, b)
               \/ FreezePreview(s) \/ CreatePreview(s) \/ BreaksOff(s)
               \/ ResumeCompleted(s) \/ \E p \in DOMAIN pubs : Resume(s, p)
      BY <2>1, <2>3, PreviewCommands
    <2>4. CASE Compare(s) \/ Replace(s)
      BY <2>1, <2>4, ReplaceCommands
    <2>5. CASE Reconcile(s) \/ ResumePending(s)
      BY <2>1, <2>5, ReconcileCommand
    <2>6. CASE WriteExact(s) \/ CommitExact(s)
      BY <2>1, <2>6, CommitCommand
    <2>7. CASE PutReceipt(s)
      BY <1>1, <1>3, <2>7 DEF PutReceipt
    <2>8. CASE ReceiptsStand(s)
      BY <2>1, <2>8, ReceiptsCommand
    <2>9. CASE Push(s)
      BY <2>1, <2>9, PushCommand
    <2> QED
      BY <1>3, <2>2, <2>3, <2>4, <2>5, <2>6, <2>7, <2>8, <2>9 DEF Publishes
  <1> QED
    BY <1>1, <1>2, <1>3, NextSteps DEF StayCapture

-----------------------------------------------------------------------------
(* The invariant and what it says.                                          *)

LEMMA PublicationInit == Init => PublicationInv
  <1> SUFFICES ASSUME Init PROVE PublicationInv
    OBVIOUS
  <1> PICK e : e = [parent |-> 0, by |-> NoPreview, past |-> {1}]
    OBVIOUS
  <1>1. /\ commits = <<e>> /\ head = 1 /\ origin = 1 /\ remote = 1
        /\ worktree = NoPreview
    BY DEF Init, GitInit
  <1>2. e \in Commit /\ NoPreview \in Preview
    BY DEF Commit, Preview, NoPreview
  <1>3. DOMAIN commits = {1} /\ commits[1] = e /\ commits \in Seq(Commit)
    BY <1>1, <1>2
  <1>4. GitTypeOK
    BY <1>1, <1>2, <1>3 DEF GitTypeOK
  <1>5. History /\ Traced
    BY <1>3 DEF History, Traced
  <1>6. \A c \in DOMAIN commits : Disjoint(c)
    BY <1>3 DEF Disjoint, Tree
  <1>7. RecordsInv
    <2>1. NoReceipt \in [preview : Preview, commit : Nat, turn : Turns \cup {None}]
      BY <1>2 DEF NoReceipt
    <2> QED
      BY <2>1 DEF Init, RecordsInv, Receipted, HasReceipt
  <1>8. CommandsInv
    BY IdleKnows DEF Init, CommandsInv
  <1> QED
    BY <1>4, <1>5, <1>6, <1>7, <1>8 DEF PublicationInv, GitInv

LEMMA ManualStep ==
  ASSUME ManualInv, [Next]_vars
  PROVE  ManualInv'
  <1>1. CaptureInv /\ PublicationInv
    BY DEF ManualInv
  <1>2. CaptureInv' /\ BatchesGrow
    BY <1>1, CaptureNext
  <1>3. GitInv' /\ Extended
    BY <1>1, <1>2, GitStep
  <1>4. Grows
    BY <1>1, <1>2, <1>3, StoresGrow DEF Grows
  <1>5. RecordsInv' /\ CommandsInv'
    BY <1>1, <1>3, <1>4, RecordsStep, CommandsStep
  <1> QED
    BY <1>2, <1>3, <1>5 DEF ManualInv, PublicationInv

(* However many commands overlap and whichever of them are killed, the         *)
(* invariant of files, repository and commands holds.                        *)
THEOREM ManualInvCorrect == Spec => []ManualInv
  <1>1. Init => ManualInv
    BY CaptureInitInv, PublicationInit DEF ManualInv
  <1>2. ManualInv /\ [Next]_vars => ManualInv'
    BY ManualStep
  <1> QED
    BY <1>1, <1>2, PTL DEF Spec

(* The private files, the repository and the commands have their types.      *)
THEOREM ManualTypesCorrect == Spec => []TypeOK
  <1>1. ManualInv => TypeOK
    <2> SUFFICES ASSUME ManualInv PROVE TypeOK
      OBVIOUS
    <2>1. CaptureTypeOK /\ GitTypeOK
      BY CaptureTypes DEF ManualInv, PublicationInv, GitInv
    <2>2. ASSUME NEW p \in DOMAIN pubs
          PROVE  p \in Preview /\ pubs[p] \in Publications /\ HasShape(pubs[p])
      <3>1. Recorded(p)
        BY DEF ManualInv, PublicationInv, RecordsInv
      <3>2. Previewed \in Publications /\ HasShape(Previewed)
        BY DEF Previewed, Publications, HasShape
      <3> QED
        BY <3>1, <3>2 DEF Recorded, Sound
    <2>3. \A k \in Ordinals : receipts[k].turn \in Turns \/ receipts[k] = NoReceipt
      BY DEF ManualInv, PublicationInv, RecordsInv, Receipted, HasReceipt
    <2>4. ASSUME NEW s \in Shells
          PROVE  /\ publishing[s].at \in Steps /\ publishing[s].p \in Preview
                 /\ publishing[s].at # "idle" => writing[s] = <<>>
      BY DEF ManualInv, PublicationInv, CommandsInv, Command
    <2> QED
      BY <2>1, <2>2, <2>3, <2>4 DEF TypeOK
  <1> QED
    BY <1>1, ManualInvCorrect, PTL

(* A Capture that says completed has the manifest and exactly the Candidates   *)
(* of its output (capture/service.py _complete_extraction).                  *)
THEOREM CapturesAreWhole == Spec => []CompletedIsWhole
  <1>1. ManualInv => CompletedIsWhole
    BY DEF ManualInv, CaptureInv
  <1> QED
    BY <1>1, ManualInvCorrect, PTL

(* No history holds two publications of a Candidate (registry/service.py       *)
(* _require_preview_fresh).                                                  *)
THEOREM PublicationsAreSingle == Spec => []PublishedOnce
  <1>1. ManualInv => PublishedOnce
    BY DEF ManualInv, PublicationInv, GitInv, GitTypeOK, Disjoint, PublishedOnce
  <1> QED
    BY <1>1, ManualInvCorrect, PTL

(* Receipts and completed publications are true of Git (registry/service.py    *)
(* _adopt_commit, _resume_pending).                                          *)
THEOREM RecordsTellTheTruth == Spec => []RecordsAreTrue
  <1>1. ManualInv => RecordsAreTrue
    <2> SUFFICES ASSUME ManualInv PROVE RecordsAreTrue
      OBVIOUS
    <2>1. ASSUME NEW k \in Ordinals, HasReceipt(k)
          PROVE  /\ IsExactCommit(receipts[k].commit, receipts[k].preview)
                 /\ pubs[receipts[k].preview].state # "previewed"
                 /\ k \in Accepted(receipts[k].preview.batch)
      BY <2>1 DEF ManualInv, PublicationInv, RecordsInv, Receipted, Committed
    <2>2. ASSUME NEW p \in DOMAIN pubs, pubs[p].state = "completed"
          PROVE  /\ IsAncestor(pubs[p].commit, remote)
                 /\ \A k \in Accepted(p.batch) : receipts[k].preview = p
      <3>1. Sound(pubs[p], p)
        BY <2>2 DEF ManualInv, PublicationInv, RecordsInv, Recorded, Previewed
      <3> QED
        BY <2>2, <3>1 DEF Sound, ReceiptsOf
    <2> QED
      BY <2>1, <2>2 DEF RecordsAreTrue
  <1> QED
    BY <1>1, ManualInvCorrect, PTL
=============================================================================
