-------------------------- MODULE RecallDemoProofs --------------------------
(***************************************************************************)
(* Proofs about RecallDemo for any number of prepare-models commands and    *)
(* publishers, any profiles, commits and leftover files.  The models and    *)
(* the bundles are proved about apart: neither needs to know of the other.  *)
(***************************************************************************)
EXTENDS RecallDemo, TLAPS

(* Paths of installs, and the steps of a command.                           *)
Paths == Profiles \X Nat
InstallerSteps == {"idle", "staged", "moved", "sealed", "selected"}

(* What a command put where it said it would is still there, sealed from    *)
(* the moment it sealed it.                                                 *)
Kept(dirs, path, id) == \E d \in dirs : d.path = path /\ d.id = id
KeptSealed(dirs, path, id) == \E d \in dirs : d.path = path /\ d.id = id /\ d.sealed

ModelTypes ==
  /\ runs \in Nat
  /\ installs \subseteq [path : Paths, id : Nat, sealed : BOOLEAN]
  /\ installer \in [Installers ->
       [step : InstallerSteps, id : 0..runs, path : Paths \cup {NoInstall}]]
  /\ \A i \in Installers : installer[i].step # "idle" => installer[i].path \in Paths

(* The invariant of the models.  Commands that run have ids of their own,    *)
(* which is why one that cleans up never takes another's directory.         *)
OwnIds ==
  \A i, j \in Installers :
    i # j /\ installer[i].step # "idle" /\ installer[j].step # "idle" =>
      installer[i].id # installer[j].id

OwnInstalls ==
  \A i \in Installers :
    /\ installer[i].step \in {"moved", "sealed", "selected"} =>
         Kept(installs, installer[i].path, installer[i].id)
    /\ installer[i].step \in {"sealed", "selected"} =>
         KeptSealed(installs, installer[i].path, installer[i].id)

SelectedIsKept ==
  selected # NoInstall => KeptSealed(installs, selected.path, selected.by)

ModelsInv == ModelTypes /\ OwnIds /\ OwnInstalls /\ SelectedIsKept

(* The invariant of the bundles: what a publisher is about to select is what *)
(* is retained for its commit, and what the Agent ranked is what the user    *)
(* confirmed.                                                               *)
Files == 1..MaxCommit \cup {Leftover}
Bundle == [files : Files, profile : Profiles]
Selectable == [generation : Nat, commit : 1..MaxCommit, files : Files, profile : Profiles]

Refreshing ==
  [step : {"idle", "looking", "built", "switching"}, commit : 1..MaxCommit,
   previous : Selectable \cup {NoPointer}, built : Bundle \cup {NoBundle}]

BundleTypes ==
  /\ head \in 1..MaxCommit /\ product \in Files /\ profile \in Profiles
  /\ DOMAIN bundles \subseteq 1..MaxCommit
  /\ \A c \in DOMAIN bundles : bundles[c] \in Bundle
  /\ current \in Selectable \cup {NoPointer}
  /\ publisher \in [Publishers -> Refreshing]
  /\ reader \in [step : {"idle", "confirmed", "ranked"},
                 confirmed : Selectable \cup {NoPointer},
                 read : Selectable \cup {NoPointer}]

BuiltIsRetained ==
  \A p \in Publishers :
    /\ publisher[p].step = "built" => publisher[p].built \in Bundle
    /\ publisher[p].step = "switching" =>
         /\ publisher[p].commit \in DOMAIN bundles
         /\ publisher[p].built = bundles[publisher[p].commit]

RankedIsConfirmed ==
  /\ reader.step # "idle" => reader.confirmed # NoPointer
  /\ reader.step = "ranked" => reader.read = reader.confirmed

BundlesInv ==
  BundleTypes /\ BuiltIsRetained /\ SelectionIsRetained /\ RankedIsConfirmed

USE RecallDemoAssumption

-----------------------------------------------------------------------------
(* Models.                                                                  *)

(* The four things a command does to the installs.                          *)
LEMMA SealKeeps ==
  ASSUME installs \subseteq [path : Paths, id : Nat, sealed : BOOLEAN],
         NEW n \in Nat
  PROVE  /\ Seal(n) \subseteq [path : Paths, id : Nat, sealed : BOOLEAN]
         /\ \A path, id : Kept(installs, path, id) => Kept(Seal(n), path, id)
         /\ \A path, id : KeptSealed(installs, path, id) => KeptSealed(Seal(n), path, id)
         /\ \A path : Kept(installs, path, n) => KeptSealed(Seal(n), path, n)
  <1> DEFINE Sealed(d) == [d EXCEPT !.sealed = d.sealed \/ d.id = n]
  <1>1. ASSUME NEW d \in installs
        PROVE  /\ Sealed(d) \in Seal(n)
               /\ Sealed(d) \in [path : Paths, id : Nat, sealed : BOOLEAN]
               /\ Sealed(d).path = d.path /\ Sealed(d).id = d.id
               /\ d.sealed => Sealed(d).sealed
               /\ d.id = n => Sealed(d).sealed
    <2>1. d \in [path : Paths, id : Nat, sealed : BOOLEAN]
      OBVIOUS
    <2>2. (d.sealed \/ d.id = n) \in BOOLEAN
      BY Zenon
    <2>3. \A b : [d EXCEPT !.sealed = b] = [path |-> d.path, id |-> d.id, sealed |-> b]
      BY <2>1
    <2>4. Sealed(d) = [path |-> d.path, id |-> d.id, sealed |-> d.sealed \/ d.id = n]
      BY <2>3, Zenon
    <2> QED  BY <2>1, <2>2, <2>4 DEF Seal
  <1>2. \A e \in Seal(n) : \E d \in installs : e = Sealed(d)
    BY DEF Seal
  <1> HIDE DEF Sealed
  <1> QED  BY <1>1, <1>2 DEF Kept, KeptSealed

LEMMA InstallerStep ==
  ASSUME ModelsInv, NEW i \in Installers, Installs(i)
  PROVE  ModelsInv'
  <1> USE DEF ModelsInv, ModelTypes, InstallerSteps, OwnIds, OwnInstalls, SelectedIsKept,
              Installing, Advance
  <1>1. ASSUME NEW pr \in Profiles, StageModels(i, pr) PROVE ModelsInv'
    <2>1. FreePath(pr, runs + 1) \in Paths
      BY DEF FreePath, Path, Paths
    <2> QED  BY <1>1, <2>1 DEF StageModels
  <1>2. CASE MoveIntoPlace(i)
    <2>1. Clone(i) \in [path : Paths, id : Nat, sealed : BOOLEAN]
      BY <1>2 DEF MoveIntoPlace, Clone
    <2>2. Kept(installs', installer[i].path, installer[i].id)
      <3>1. /\ Clone(i) \in installs'
            /\ Clone(i).path = installer[i].path /\ Clone(i).id = installer[i].id
        BY <1>2 DEF MoveIntoPlace, Clone
      <3> QED  BY <3>1 DEF Kept
    <2>3. \A path, id : /\ Kept(installs, path, id) => Kept(installs', path, id)
                        /\ KeptSealed(installs, path, id) => KeptSealed(installs', path, id)
      BY <1>2 DEF MoveIntoPlace, Kept, KeptSealed
    <2>4. ModelTypes' /\ OwnIds'
      BY <1>2, <2>1 DEF MoveIntoPlace
    <2>5. OwnInstalls' /\ SelectedIsKept'
      BY <1>2, <2>2, <2>3 DEF MoveIntoPlace
    <2> QED  BY <2>4, <2>5
  <1>3. CASE SealInstall(i)
    <2>1. installer[i].id \in Nat
      OBVIOUS
    <2> QED  BY <1>3, <2>1, SealKeeps DEF SealInstall
  <1>4. CASE SelectInstall(i)
    BY <1>4 DEF SelectInstall, Candidate
  <1>5. CASE InstallEnds(i)
    BY <1>5 DEF InstallEnds, IdleInstaller
  <1>6. CASE InstallFails(i)
    <2>1. ASSUME NEW path, NEW id, id # installer[i].id
          PROVE  /\ Kept(installs, path, id) => Kept(installs', path, id)
                 /\ KeptSealed(installs, path, id) => KeptSealed(installs', path, id)
      BY <1>6, <2>1 DEF InstallFails, OthersThan, Kept, KeptSealed
    <2>2. installs' \subseteq installs
      BY <1>6 DEF InstallFails, OthersThan
    <2>3. ModelTypes' /\ OwnIds'
      BY <1>6, <2>2 DEF InstallFails, IdleInstaller
    <2>4. OwnInstalls'
      BY <1>6, <2>1 DEF InstallFails, IdleInstaller
    <2>5. SelectedIsKept'
      BY <1>6, <2>1 DEF InstallFails, Committed
    <2> QED  BY <2>3, <2>4, <2>5
  <1>7. CASE InstallerKilled(i)
    BY <1>7 DEF InstallerKilled, IdleInstaller
  <1> QED
    BY <1>1, <1>2, <1>3, <1>4, <1>5, <1>6, <1>7 DEF Installs

LEMMA ModelsRest == ModelsInv /\ UNCHANGED models => ModelsInv'
  BY DEF models, ModelsInv, ModelTypes, OwnIds, OwnInstalls, SelectedIsKept

LEMMA ModelsStep == ModelsInv /\ [Next]_vars => ModelsInv'
  <1> SUFFICES ASSUME ModelsInv, [Next]_vars PROVE ModelsInv'
    OBVIOUS
  <1>1. CASE Outside \/ Configure \/ Recalls \/ UNCHANGED vars
    BY <1>1, ModelsRest
       DEF vars, Outside, HeadMoves, FilesLeftBehind, ProfileChanges, Configure, Recalls,
           Preflight, Retrieve, ReturnShortlist, Unavailable, Reading
  <1>2. ASSUME NEW p \in Publishers, Publishes(p) PROVE ModelsInv'
    BY <1>2, ModelsRest
       DEF Publishes, Refresh, ReuseGeneration, BuildBundle, RetainGeneration, Takes,
           SwitchPointer, RefreshFails, Publishing
  <1> QED  BY <1>1, <1>2, InstallerStep DEF Next

(* The models' pointer always names a complete, sealed install: two          *)
(* commands never take each other's directory away, whichever fails or is    *)
(* killed where (model_store.py prepare_models, _remove_uncommitted_install).*)
THEOREM ModelsCorrect == Spec => []ModelsAreWhole
  <1>1. Init => ModelsInv
    BY DEF Init, ModelsInit, ModelsInv, ModelTypes, OwnIds, OwnInstalls, SelectedIsKept,
           IdleInstaller, InstallerSteps
  <1>2. ModelsInv => ModelsAreWhole
    BY DEF ModelsInv, SelectedIsKept, ModelsAreWhole, KeptSealed
  <1> QED  BY <1>1, <1>2, ModelsStep, PTL DEF Spec

-----------------------------------------------------------------------------
(* Bundles.                                                                 *)

(* A generation that is retained is never replaced or removed.              *)
Retained == \A c \in DOMAIN bundles : c \in DOMAIN bundles' /\ bundles'[c] = bundles[c]

LEMMA BundlesRest ==
  BundlesInv /\ UNCHANGED <<registry, publishing, reading>> => BundlesInv' /\ Retained
  BY DEF registry, publishing, reading, BundlesInv, BundleTypes, BuiltIsRetained,
         SelectionIsRetained, RankedIsConfirmed, Retained

LEMMA OutsideStep == BundlesInv /\ (Outside \/ Configure) => BundlesInv' /\ Retained
  <1> SUFFICES ASSUME BundlesInv, Outside \/ Configure PROVE BundlesInv' /\ Retained
    OBVIOUS
  <1>1. /\ head' \in 1..MaxCommit /\ product' \in Files /\ profile' \in Profiles
        /\ UNCHANGED <<publishing, reading>>
    BY DEF BundlesInv, BundleTypes, Outside, HeadMoves, FilesLeftBehind, ProfileChanges,
           Configure, Files, registry
  <1> QED
    BY <1>1 DEF publishing, reading, BundlesInv, BundleTypes, BuiltIsRetained,
                SelectionIsRetained, RankedIsConfirmed, Retained

(* A pointer to what is retained for a commit describes it.                 *)
LEMMA PointerDescribes ==
  ASSUME NEW n \in Nat, NEW c \in 1..MaxCommit, NEW g \in Bundle
  PROVE  /\ Pointer(n, c, g) \in Selectable
         /\ Pointer(n, c, g).commit = c
         /\ Described(Pointer(n, c, g)) = g
  BY DEF Pointer, Selectable, Described, Generation, Bundle

LEMMA BuiltRow ==
  ASSUME NEW f \in [Publishers -> Refreshing], NEW p \in Publishers, NEW g \in Bundle
  PROVE  [f EXCEPT ![p].step = "built", ![p].built = g] \in [Publishers -> Refreshing]
  BY DEF Refreshing

LEMMA PublisherStep ==
  ASSUME BundlesInv, NEW p \in Publishers, Publishes(p)
  PROVE  BundlesInv' /\ Retained
  <1> USE DEF BundlesInv, BundleTypes, BuiltIsRetained, Publishing, Goes, Retained
  <1>1. /\ UNCHANGED <<head, product, profile, reader, shortlist>>
        /\ RankedIsConfirmed'
    BY DEF Publishes, Refresh, ReuseGeneration, BuildBundle, RetainGeneration, Takes,
           SwitchPointer, RefreshFails, registry, reading, RankedIsConfirmed
  <1>2. ASSUME UNCHANGED <<bundles, current>> PROVE SelectionIsRetained'
    BY <1>1, <1>2 DEF SelectionIsRetained
  <1>3. CASE Refresh(p)
    BY <1>1, <1>2, <1>3 DEF Refresh, Refreshing
  <1>4. ASSUME Takes(p, publisher[p].commit), publisher[p].step \in {"looking", "built"}
        PROVE  BundlesInv' /\ Retained
    BY <1>1, <1>2, <1>4 DEF Takes, Verified, Refreshing
  <1>5. CASE BuildBundle(p)
    <2>1. Generation(product, profile) \in Bundle
      BY DEF Generation, Bundle
    <2>2. publisher' = [publisher EXCEPT ![p].step = "built",
                                         ![p].built = Generation(product, profile)]
      BY <1>5 DEF BuildBundle
    <2>3. UNCHANGED <<bundles, current>>
      BY <1>5 DEF BuildBundle
    <2> HIDE DEF Retained
    <2>4. publisher' \in [Publishers -> Refreshing]
      BY <2>1, <2>2, BuiltRow
    <2>6. BundleTypes'
      BY <1>1, <2>3, <2>4
    <2>5. BuiltIsRetained'
      BY <2>1, <2>2, <2>3
    <2> QED  BY <1>1, <1>2, <2>3, <2>5, <2>6 DEF Retained
  <1>6. CASE /\ Publishing(p, "built") /\ publisher[p].commit \notin DOMAIN bundles
             /\ bundles' = With(publisher[p].commit, publisher[p].built)
             /\ Goes(p, "switching") /\ UNCHANGED current
    <2> DEFINE c == publisher[p].commit
    <2>1. /\ DOMAIN bundles' = DOMAIN bundles \cup {c}
          /\ bundles'[c] = publisher[p].built
          /\ \A b \in DOMAIN bundles : bundles'[b] = bundles[b]
      BY <1>6 DEF With
    <2>2. c \in 1..MaxCommit /\ publisher[p].built \in Bundle
      BY <1>6 DEF Refreshing
    <2>3. BundleTypes' /\ BuiltIsRetained'
      BY <1>1, <1>6, <2>1, <2>2 DEF Refreshing
    <2>4. SelectionIsRetained'
      BY <1>1, <1>6, <2>1 DEF SelectionIsRetained
    <2> QED  BY <1>1, <2>1, <2>3, <2>4
  <1>7. CASE SwitchPointer(p)
    <2> DEFINE n == NextGeneration(publisher[p].previous)
               c == publisher[p].commit
               g == publisher[p].built
    <2>1. n \in Nat
      BY DEF NextGeneration, Selectable, Refreshing
    <2>2. c \in DOMAIN bundles /\ c \in 1..MaxCommit /\ g = bundles[c] /\ g \in Bundle
      BY <1>7 DEF SwitchPointer, Refreshing
    <2>3. current' = Pointer(n, c, g) /\ UNCHANGED bundles
      BY <1>7 DEF SwitchPointer
    <2>4. /\ current' \in Selectable /\ current'.commit = c
          /\ Described(current') = bundles[c]
      BY <2>1, <2>2, <2>3, PointerDescribes
    <2>5. SelectionIsRetained'
      BY <1>1, <2>2, <2>3, <2>4 DEF SelectionIsRetained
    <2>6. BuiltIsRetained'
      BY <1>7, <2>3 DEF SwitchPointer, IdlePublisher
    <2>7. IdlePublisher \in Refreshing
      BY DEF IdlePublisher, Refreshing
    <2>8. BundleTypes'
      BY <1>1, <1>7, <2>3, <2>4, <2>7 DEF SwitchPointer
    <2> QED  BY <1>1, <2>3, <2>5, <2>6, <2>8
  <1>8. CASE RefreshFails(p)
    BY <1>1, <1>2, <1>8 DEF RefreshFails, IdlePublisher, Refreshing
  <1> QED
    BY <1>3, <1>4, <1>5, <1>6, <1>7, <1>8 DEF Publishes, ReuseGeneration, RetainGeneration

LEMMA RecallStep == BundlesInv /\ Recalls => BundlesInv' /\ Retained
  <1> SUFFICES ASSUME BundlesInv, Recalls PROVE BundlesInv' /\ Retained
    OBVIOUS
  <1> USE DEF BundlesInv, BundleTypes, RankedIsConfirmed, SelectionIsRetained, IdleReader,
              Selection, Reading
  <1>1. UNCHANGED <<registry, publishing>>
    BY DEF Recalls, Preflight, Retrieve, ReturnShortlist, Unavailable
  <1>2. BuiltIsRetained' /\ Retained
    BY <1>1 DEF publishing, BuiltIsRetained, Retained
  <1>3. CASE Preflight
    BY <1>1, <1>2, <1>3 DEF Preflight, registry, publishing
  <1>4. CASE Retrieve
    BY <1>1, <1>2, <1>4 DEF Retrieve, SameSelection, registry, publishing
  <1>5. CASE ReturnShortlist
    BY <1>1, <1>2, <1>5 DEF ReturnShortlist, registry, publishing
  <1>6. CASE Unavailable
    BY <1>1, <1>2, <1>6 DEF Unavailable, registry, publishing
  <1> QED  BY <1>3, <1>4, <1>5, <1>6 DEF Recalls

LEMMA BundlesStep == BundlesInv /\ [Next]_vars => BundlesInv' /\ Retained
  <1> SUFFICES ASSUME BundlesInv, [Next]_vars PROVE BundlesInv' /\ Retained
    OBVIOUS
  <1>1. ASSUME NEW i \in Installers, Installs(i) PROVE BundlesInv' /\ Retained
    BY <1>1, BundlesRest
       DEF Installs, StageModels, MoveIntoPlace, SealInstall, SelectInstall, InstallEnds,
           InstallFails, InstallerKilled, Installing
  <1> QED
    BY <1>1, BundlesRest, OutsideStep, PublisherStep, RecallStep DEF Next, vars

LEMMA BundlesInit == Init => BundlesInv
  BY DEF Init, BundlesInv, BundleTypes, BuiltIsRetained, SelectionIsRetained,
         RankedIsConfirmed, IdlePublisher, IdleReader, Refreshing, Files

(* What is selected, and what a user was shown of a selection, is retained    *)
(* as it was described, whichever processes build the same commit from a     *)
(* work tree and a profile that change (publication.py _create_generation).  *)
THEOREM SelectionCorrect == Spec => []SelectionIsRetained
  <1>1. BundlesInv => SelectionIsRetained
    BY DEF BundlesInv
  <1> QED  BY <1>1, BundlesInit, BundlesStep, PTL DEF Spec

(* A retained generation is never replaced (publication.py                   *)
(* _create_generation, bundle.py _rename_no_replace).                       *)
THEOREM GenerationsStay == Spec => [][Retained]_vars
  BY BundlesInit, BundlesStep, PTL DEF Spec

(* The shortlist is of the bundle the user confirmed, however often the       *)
(* selection moved since, and though two selections may be numbered alike    *)
(* (provider.py retrieve, _validate_preflight).                             *)
THEOREM RetrievedCorrect == Spec => []RetrievedIsConfirmed
  <1>1. Init => RetrievedIsConfirmed
    BY DEF Init, RetrievedIsConfirmed
  <1>2. BundlesInv /\ RetrievedIsConfirmed /\ [Next]_vars => RetrievedIsConfirmed'
    <2> SUFFICES ASSUME BundlesInv, RetrievedIsConfirmed, [Next]_vars
                 PROVE  RetrievedIsConfirmed'
      OBVIOUS
    <2>1. CASE UNCHANGED shortlist
      BY <2>1 DEF RetrievedIsConfirmed
    <2>2. CASE Preflight
      BY <2>2 DEF Preflight, RetrievedIsConfirmed
    <2>3. CASE ReturnShortlist
      <3> DEFINE confirmed == reader.confirmed
      <3>1. reader.read = confirmed /\ confirmed \in Selectable
        BY <2>3 DEF ReturnShortlist, Reading, BundlesInv, BundleTypes, RankedIsConfirmed
      <3>2. Described(confirmed) = bundles[confirmed.commit]
        BY <2>3 DEF ReturnShortlist, Reading, BundlesInv, RankedIsConfirmed,
                    SelectionIsRetained
      <3>3. Decisions(bundles[confirmed.commit]) = confirmed.files
        BY <3>2 DEF Decisions, Described, Generation
      <3> QED  BY <2>3, <3>1, <3>3 DEF ReturnShortlist, RetrievedIsConfirmed
    <2> QED
      BY <2>1, <2>2, <2>3
         DEF Next, vars, reading, Outside, HeadMoves, FilesLeftBehind, ProfileChanges,
             Configure, Recalls, Retrieve, Unavailable, Publishes, Refresh,
             ReuseGeneration, BuildBundle, RetainGeneration, Takes, SwitchPointer,
             RefreshFails, Publishing, Installs, StageModels, MoveIntoPlace, SealInstall,
             SelectInstall, InstallEnds, InstallFails, InstallerKilled, Installing
  <1> QED  BY <1>1, <1>2, BundlesInit, BundlesStep, PTL DEF Spec
=============================================================================
