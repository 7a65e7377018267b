---------------------------- MODULE RegistryGit ----------------------------
(***************************************************************************)
(* The Git repository of the Decision Registry as registry/git.py and        *)
(* registry/catalog.py see it: a growing graph of commits, the branch main   *)
(* Central has checked out, its copy of origin/main, the true main of the    *)
(* remote, and the formal files an interrupted publication left uncommitted. *)
(*                                                                          *)
(* A commit is Central's exact commit of one preview, or changes no formal   *)
(* file (the contract allows code-only commits of others).  A preview is      *)
(* named by what its id digests: the review batch and the base commit.      *)
(***************************************************************************)
EXTENDS Integers, Sequences, FiniteSets

CONSTANT MaxForeign      \* bound: commits others push

ASSUME GitAssumption == MaxForeign \in Nat

VARIABLES
  commits,               \* the commits, in the order they were made
  head,                  \* HEAD and refs/heads/main
  origin,                \* refs/remotes/origin/main, as of the last fetch
  remote,                \* main in the remote repository
  worktree               \* the preview whose files lie uncommitted

gitVars == <<commits, head, origin, remote, worktree>>

Preview == [batch : Nat, base : Nat]
NoPreview == [batch |-> 0, base |-> 0]

Commit == [parent : Nat, by : Preview, past : SUBSET Nat]

GitTypeOK ==
  /\ commits \in Seq(Commit)
  /\ head \in DOMAIN commits
  /\ origin \in DOMAIN commits
  /\ remote \in DOMAIN commits
  /\ worktree \in Preview

GitInit ==
  /\ commits = <<[parent |-> 0, by |-> NoPreview, past |-> {1}]>>
  /\ head = 1 /\ origin = 1 /\ remote = 1
  /\ worktree = NoPreview

-----------------------------------------------------------------------------
(* merge-base --is-ancestor: past holds a commit and its ancestors.         *)
IsAncestor(a, b) == a \in commits[b].past

(* The decision-registry tree of a commit: the previews it has published.   *)
Tree(c) == {commits[i].by : i \in commits[c].past} \ {NoPreview}

(* _verify_exact_commit: parent, message (which names the preview), changed  *)
(* paths and blobs.                                                         *)
IsExactCommit(c, p) == commits[c].parent = p.base /\ commits[c].by = p

WithCommit(parent, p) ==
  Append(commits,
         [parent |-> parent, by |-> p,
          past |-> commits[parent].past \cup {Len(commits) + 1}])

(* fetch_and_require_exact_main: HEAD, main and the fetched main agree.     *)
ExactMain(c) == head = c /\ remote = c

Fetch == origin' = remote

(* require_clean_registry: nothing but p's own exact files is uncommitted.  *)
(* Mutant: the allowed files are ignored.                                   *)
CleanNow(p) == worktree = NoPreview

CleanExcept(p) == worktree \in {NoPreview, p}

ForeignPush ==
  /\ Cardinality({i \in DOMAIN commits : commits[i].by = NoPreview}) <= MaxForeign
  /\ commits' = WithCommit(remote, NoPreview)
  /\ remote' = Len(commits')
  /\ UNCHANGED <<head, origin, worktree>>

(* An operator fast-forwards Central's checkout.                            *)
OperatorPull ==
  /\ head # remote /\ IsAncestor(head, remote)
  /\ head' = remote /\ Fetch
  /\ UNCHANGED <<commits, remote, worktree>>
=============================================================================
