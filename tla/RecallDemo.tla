----------------------------- MODULE RecallDemo -----------------------------
(***************************************************************************)
(* The local Recall provider (recall/demo): an operator installs the models  *)
(* of a retrieval profile (model_store.py), a completed publication signs    *)
(* the Registry's active Decisions as a bundle and selects it                *)
(* (publication.py), and the Agent retrieves a shortlist from the bundle the  *)
(* user confirmed (provider.py).                                            *)
(*                                                                          *)
(* All of them are processes over one directory tree without a lock: two     *)
(* prepare-models commands, Central and the runbook's seeding command        *)
(* (docs/demo-recall-provider.md, 5), and the Agent's MCP process.  A step    *)
(* ends where the code changes or reads again something the others see;      *)
(* staging directories have unique names and are nobody else's business.     *)
(* Any of them may fail or be killed at any step.                           *)
(*                                                                          *)
(* Digests are the values they digest: a pointer's generation_digest is the   *)
(* pointer, a bundle's manifest_digest its Decisions, and an install's        *)
(* manifest, which holds nothing else, its profile.                         *)
(***************************************************************************)
EXTENDS Integers

CONSTANTS
  Installers,     \* prepare-models commands
  Publishers,     \* processes that call DemoBundlePublisher.refresh
  Profiles,       \* retrieval profiles an operator may prepare
  Leftover,       \* a work tree that holds files of no commit
  NoInstall, NoBundle, NoPointer,
  MaxCommit,      \* bound: commits of the checkout
  MaxInstalls     \* bound: runs of prepare-models

ASSUME RecallDemoAssumption ==
  /\ MaxCommit \in Nat \ {0} /\ MaxInstalls \in Nat
  /\ Leftover \notin 1..MaxCommit

VARIABLES
  head,           \* HEAD of the Registry checkout
  product,        \* what its product directory holds: a commit's files, or not
  profile,        \* the profile file the configuration names
  configured,     \* does recall-demo.json exist?
  installs,       \* models/installs, by path
  selected,       \* models/current.json
  runs,           \* runs of prepare-models so far
  installer,      \* prepare_models in progress
  bundles,        \* bundles/<commit>: generation.json and the signed bundle
  current,        \* the bundles' current.json
  publisher,      \* refresh in progress
  reader,         \* the Agent's preflight and retrieval
  shortlist       \* the shortlist it returned, with what was confirmed

registry == <<head, product, profile>>
models == <<installs, selected, runs, installer>>
publishing == <<bundles, current, publisher>>
reading == <<reader, shortlist>>
vars == <<registry, configured, models, publishing, reading>>

(* installs/<profile digest>, with a suffix when that was taken.            *)
Path(pr, suffix) == <<pr, suffix>>
ProfileOf(path) == path[1]

Generation(files, pr) == [files |-> files, profile |-> pr]

(* What a shortlist is drawn from: the signed snapshot of a bundle.         *)
Decisions(g) == g.files

(* DemoBundlePointer: the metadata of its generation, numbered.             *)
Pointer(n, c, g) ==
  [generation |-> n, commit |-> c, files |-> g.files, profile |-> g.profile]
Described(p) == Generation(p.files, p.profile)

IdleInstaller == [step |-> "idle", id |-> 0, path |-> NoInstall]
IdlePublisher == [step |-> "idle", commit |-> 1, previous |-> NoPointer,
                  built |-> NoBundle]
IdleReader == [step |-> "idle", confirmed |-> NoPointer, read |-> NoPointer]

(* _prepare_state_directories: nothing is installed.                        *)
ModelsInit ==
  /\ installs = {} /\ selected = NoInstall /\ runs = 0
  /\ installer = [i \in Installers |-> IdleInstaller]

Init ==
  /\ head = 1 /\ product = 1 /\ profile \in Profiles
  /\ configured = FALSE
  /\ ModelsInit
  /\ bundles = [c \in {} |-> NoBundle] /\ current = NoPointer
  /\ publisher = [p \in Publishers |-> IdlePublisher]
  /\ reader = IdleReader /\ shortlist = NoPointer

-----------------------------------------------------------------------------
(* The Registry checkout, outside this component *)

(* A publication, or an operator's pull, moves HEAD and the work tree.      *)
HeadMoves ==
  /\ head < MaxCommit
  /\ head' = head + 1 /\ product' = head + 1
  /\ UNCHANGED <<profile, configured, models, publishing, reading>>

(* The files of a publication whose commit failed stay in the work tree.    *)
FilesLeftBehind ==
  /\ product' = Leftover
  /\ UNCHANGED <<head, profile, configured, models, publishing, reading>>

(* An upgrade of the package brings another profile.                        *)
ProfileChanges ==
  /\ profile' \in Profiles \ {profile}
  /\ UNCHANGED <<head, product, configured, models, publishing, reading>>

-----------------------------------------------------------------------------
(* Installing models *)

(* The files of the profile are there, byte for byte, and sealed.           *)
Whole(path) == \E d \in installs : d.path = path /\ d.sealed

(* The same of everything but the bytes.                                    *)
WholeMetadata(path) == Whole(path)

(* load_installed_models: the selected install, which is of this profile.    *)
Prepared(pr) ==
  selected # NoInstall /\ ProfileOf(selected.path) = pr /\ Whole(selected.path)

(* load_installed_model_metadata.                                           *)
PreparedMetadata(pr) ==
  selected # NoInstall /\ ProfileOf(selected.path) = pr /\ WholeMetadata(selected.path)

Taken(path) == \E d \in installs : d.path = path

Installing(i, step) ==
  /\ installer[i].step = step
  /\ UNCHANGED <<registry, configured, publishing, reading>>

Advance(i, step) == installer' = [installer EXCEPT ![i].step = step]

(* The profile's own path, or a unique one when that exists.                *)
FreePath(pr, id) == IF Taken(Path(pr, 0)) THEN Path(pr, id) ELSE Path(pr, 0)

(* Both snapshots are cloned and validated in a staging directory, and their *)
(* path is chosen.                                                          *)
StageModels(i, pr) ==
  /\ Installing(i, "idle")
  /\ runs < MaxInstalls /\ runs' = runs + 1
  /\ installer' = [installer EXCEPT
       ![i] = [step |-> "staged", id |-> runs + 1, path |-> FreePath(pr, runs + 1)]]
  /\ UNCHANGED <<installs, selected>>

(* What was cloned, which is writable still.                                *)
Clone(i) == [path |-> installer[i].path, id |-> installer[i].id, sealed |-> FALSE]

(* os.rename fails when another command has taken the path since.           *)
MoveIntoPlace(i) ==
  /\ Installing(i, "staged")
  /\ ~Taken(installer[i].path)
  /\ installs' = installs \cup {Clone(i)}
  /\ Advance(i, "moved")
  /\ UNCHANGED <<selected, runs>>

Seal(id) == {[d EXCEPT !.sealed = @ \/ d.id = id] : d \in installs}

(* Its directories are sealed and the install is validated where it is.     *)
SealInstall(i) ==
  /\ Installing(i, "moved")
  /\ installs' = Seal(installer[i].id)
  /\ Advance(i, "sealed")
  /\ UNCHANGED <<selected, runs>>

(* The pointer file a command writes.                                       *)
Candidate(i) == [by |-> installer[i].id, path |-> installer[i].path]

(* It replaces models/current.json.                                         *)
SelectInstall(i) ==
  /\ Installing(i, "sealed")
  /\ selected' = Candidate(i)
  /\ Advance(i, "selected")
  /\ UNCHANGED <<installs, runs>>

(* Only the pointer file this command wrote tells it that it committed.     *)
Committed(i) == selected # NoInstall /\ selected.by = installer[i].id

(* Mutant: what is at the path is removed, whoever put it there.            *)
OthersThanPath(i) == {d \in installs : d.path # installer[i].path}

(* _remove_uncommitted_install: of its path, if it is still its directory.  *)
OthersThan(i) ==
  {d \in installs : ~(d.path = installer[i].path /\ d.id = installer[i].id)}

(* Returned, or refused to load what another command selected: all is done.  *)
InstallEnds(i) ==
  /\ Installing(i, "selected")
  /\ installer' = [installer EXCEPT ![i] = IdleInstaller]
  /\ UNCHANGED <<installs, selected, runs>>

InstallFails(i) ==
  /\ installer[i].step # "idle" /\ Installing(i, installer[i].step)
  /\ installs' = IF Committed(i) THEN installs ELSE OthersThan(i)
  /\ installer' = [installer EXCEPT ![i] = IdleInstaller]
  /\ UNCHANGED <<selected, runs>>

InstallerKilled(i) ==
  /\ installer[i].step # "idle" /\ Installing(i, installer[i].step)
  /\ installer' = [installer EXCEPT ![i] = IdleInstaller]
  /\ UNCHANGED <<installs, selected, runs>>

(* recall-demo configure: only over prepared models of the profile, once.   *)
Configure ==
  /\ ~configured /\ Prepared(profile)
  /\ configured' = TRUE
  /\ UNCHANGED <<registry, models, publishing, reading>>

-----------------------------------------------------------------------------
(* Publishing bundles *)

Publishing(p, step) ==
  /\ publisher[p].step = step
  /\ UNCHANGED <<registry, configured, models, reading>>

Goes(p, step) == publisher' = [publisher EXCEPT ![p].step = step]

(* _verify_existing_generation: complete, signed, and of the installed       *)
(* models.                                                                  *)
Verified(c) == c \in DOMAIN bundles /\ Prepared(bundles[c].profile)

(* What is retained for the pointer's commit is what the pointer describes.  *)
Genuine(pointer) == Described(pointer) = bundles[pointer.commit]

(* load_demo_bundle_pointer.                                                *)
Proved(pointer) == Verified(pointer.commit) /\ Genuine(pointer)

(* refresh(HEAD) and _current_or_none: Central's publication has just been    *)
(* proved to be exact main, the seeding command asks Git.  When HEAD is       *)
(* selected already there is no more to do.                                 *)
Refresh(p) ==
  /\ configured /\ Publishing(p, "idle")
  /\ current # NoPointer => Proved(current) /\ current.commit # head
  /\ publisher' = [publisher EXCEPT
       ![p] = [step |-> "looking", commit |-> head, previous |-> current,
               built |-> NoBundle]]
  /\ UNCHANGED <<bundles, current>>

Takes(p, c) ==
  /\ Verified(c)
  /\ publisher' = [publisher EXCEPT ![p].step = "switching", ![p].built = bundles[c]]
  /\ UNCHANGED <<bundles, current>>

ReuseGeneration(p) ==
  /\ Publishing(p, "looking") /\ Takes(p, publisher[p].commit)

(* build_signed_bundle reads the work tree and the profile file, whatever    *)
(* the commit; _prepared_model_digest binds it to the installed models.     *)
BuildBundle(p) ==
  /\ Publishing(p, "looking") /\ publisher[p].commit \notin DOMAIN bundles
  /\ Prepared(profile)
  /\ publisher' = [publisher EXCEPT
       ![p].step = "built", ![p].built = Generation(product, profile)]
  /\ UNCHANGED <<bundles, current>>

With(c, g) == [b \in DOMAIN bundles \cup {c} |-> IF b = c THEN g ELSE bundles[b]]

(* Mutant: the rename replaces a generation another process retained.       *)
ReplaceGeneration(p) ==
  /\ Publishing(p, "built")
  /\ bundles' = With(publisher[p].commit, publisher[p].built)
  /\ Goes(p, "switching")
  /\ UNCHANGED current

(* _rename_no_replace, or the generation another process has retained.      *)
RetainGeneration(p) ==
  /\ Publishing(p, "built")
  /\ LET c == publisher[p].commit
     IN  \/ /\ c \notin DOMAIN bundles
            /\ bundles' = With(c, publisher[p].built)
            /\ Goes(p, "switching")
            /\ UNCHANGED current
         \/ c \in DOMAIN bundles /\ Takes(p, c)

NextGeneration(previous) == IF previous = NoPointer THEN 1 ELSE previous.generation + 1

(* _replace_pointer.                                                        *)
SwitchPointer(p) ==
  /\ Publishing(p, "switching")
  /\ current' = Pointer(NextGeneration(publisher[p].previous), publisher[p].commit,
                        publisher[p].built)
  /\ publisher' = [publisher EXCEPT ![p] = IdlePublisher]
  /\ UNCHANGED bundles

(* A step is refused, fails or never comes: what is retained stays.         *)
RefreshFails(p) ==
  /\ publisher[p].step # "idle" /\ Publishing(p, publisher[p].step)
  /\ publisher' = [publisher EXCEPT ![p] = IdlePublisher]
  /\ UNCHANGED <<bundles, current>>

-----------------------------------------------------------------------------
(* Recalling *)

Reading(step) ==
  /\ reader.step = step
  /\ UNCHANGED <<registry, configured, models, publishing>>

(* current.json, bound to the metadata of its generation.                   *)
Selection == current

(* _current_metadata: what the selection binds, but for the bytes.          *)
Available(pointer) == Genuine(pointer) /\ PreparedMetadata(pointer.profile)

(* preflight: the selection, the installed models it needs, and what the     *)
(* user is shown of them and confirms.                                      *)
Preflight ==
  /\ configured /\ Reading("idle")
  /\ Selection # NoPointer /\ Available(Selection)
  /\ reader' = [IdleReader EXCEPT !.step = "confirmed", !.confirmed = Selection]
  /\ shortlist' = NoPointer

(* Mutant: only the generation's number is compared.                        *)
SameNumber(read, confirmed) == read.generation = confirmed.generation

(* _validate_preflight.                                                     *)
SameSelection(read, confirmed) == read = confirmed

(* load_transformers_runtime: the installed models, validated once more.    *)
Loads(pr) == Prepared(pr)

(* Models and bundle are loaded and checked in full, then ranked.           *)
Retrieve ==
  /\ Reading("confirmed")
  /\ SameSelection(Selection, reader.confirmed)
  /\ Loads(Selection.profile) /\ Genuine(Selection)
  /\ reader' = [reader EXCEPT !.step = "ranked", !.read = Selection]
  /\ UNCHANGED shortlist

(* A shortlist is returned when the selection has not moved meanwhile.      *)
ReturnShortlist ==
  /\ Reading("ranked")
  /\ Selection = reader.read /\ Available(reader.read)
  /\ shortlist' = [confirmed |-> reader.confirmed,
                   decisions |-> Decisions(bundles[reader.read.commit])]
  /\ reader' = IdleReader

(* Any of it fails or is refused, or the Agent stops: no shortlist.         *)
Unavailable ==
  /\ reader.step # "idle" /\ Reading(reader.step)
  /\ reader' = IdleReader
  /\ UNCHANGED shortlist

-----------------------------------------------------------------------------
Outside == HeadMoves \/ FilesLeftBehind \/ ProfileChanges

Installs(i) ==
  \/ \E pr \in Profiles : StageModels(i, pr)
  \/ MoveIntoPlace(i) \/ SealInstall(i) \/ SelectInstall(i)
  \/ InstallEnds(i) \/ InstallFails(i) \/ InstallerKilled(i)

Publishes(p) ==
  \/ Refresh(p) \/ ReuseGeneration(p) \/ BuildBundle(p)
  \/ RetainGeneration(p) \/ SwitchPointer(p) \/ RefreshFails(p)

Recalls ==
  Preflight \/ Retrieve \/ ReturnShortlist \/ Unavailable

Next ==
  \/ Outside \/ Configure \/ Recalls
  \/ \E i \in Installers : Installs(i)
  \/ \E p \in Publishers : Publishes(p)

Spec == Init /\ [][Next]_vars

-----------------------------------------------------------------------------
(* The models' pointer always names a complete, sealed install, though two   *)
(* commands install the same profile at once and either may fail or be       *)
(* killed at any step and cleans up after itself.                           *)
ModelsAreWhole ==
  selected # NoInstall =>
    \E d \in installs : d.path = selected.path /\ d.sealed

(* A selection, and what a user was shown of it, always describes the        *)
(* retained bundle of its commit: a generation is never replaced, whichever  *)
(* processes build the same commit from a work tree and a profile that       *)
(* change under them.                                                       *)
SelectionIsRetained ==
  \A p \in {current, reader.confirmed} \ {NoPointer} :
    p.commit \in DOMAIN bundles /\ Described(p) = bundles[p.commit]

(* A shortlist holds the Decisions of the very bundle the user confirmed,    *)
(* though publishers that race may number two generations alike.            *)
RetrievedIsConfirmed ==
  shortlist # NoPointer => shortlist.decisions = shortlist.confirmed.files
=============================================================================
