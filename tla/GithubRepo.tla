------------------------------ MODULE GithubRepo ------------------------------
(***************************************************************************)
(* CreatePR of the GitHub client (scheduler/githubrepo.go): one call to    *)
(* GitHub after the other, any of which may fail, or take effect although  *)
(* it reports an error.  The GitOps repo controller retries a failed call, *)
(* often within the same second; the name of the branch is the second.     *)
(* Meanwhile users merge or close what has been proposed.                  *)
(*                                                                         *)
(* A crash of the manager is a failure of the call that comes next.  Only  *)
(* the files of the base branch and of deployment branches are modelled;   *)
(* a commit is the tree it holds.                                          *)
(***************************************************************************)
EXTENDS Naturals, Sequences, FiniteSets

CONSTANTS
    Contents,   \* what the controller may ask for (RepoContentType)
    BaseTree,   \* what the base branch holds at first
    None,
    Adversity,  \* "trailing": the list of pull requests misses the last one
                \* "revert": the content reverts to the recorded one after a failed call
    MaxSeconds, MaxEdits, MaxFaults

\* A tree holds a path once; a package comes with its cluster type.
OnePerPath(files) == \A f, g \in files : f.path = g.path => f = g

ASSUME ConstantsAssumption ==
    /\ Adversity \subseteq {"trailing", "revert"}
    /\ MaxSeconds \in Nat /\ MaxEdits \in Nat /\ MaxFaults \in Nat
    /\ \A c \in Contents : \A d \in DOMAIN c.packages : d = <<d[1], d[2]>> /\ d[1] \in c.types
    /\ BaseTree = [files |-> BaseTree.files, promoted |-> BaseTree.promoted]
    /\ OnePerPath(BaseTree.files)

Seconds == 1..MaxSeconds

(***************************************************************************)
(* Trees.  A path is a sequence of folder names that ends in a file name.  *)
(* A content has the cluster types, the package of each <<cluster type,    *)
(* target>>, and the promoted commit, None when it is empty.  A package    *)
(* gives each kind of manifests its content type and its text; the text of *)
(* a config may be None.                                                   *)
(***************************************************************************)
Kinds == {"reconciler", "namespace", "platform-config"}

\* getFullManifestsFileName
FileName(kind, contentType) == <<kind, IF contentType = "env" THEN "sh" ELSE "yaml">>

\* Only a config may be empty: no file is written for it then.
Entries(c) ==
    {[path |-> <<t, "README.md">>, text |-> "readme"] : t \in c.types} \cup
    {e \in {[path |-> <<d[1], d[2], FileName(k, c.packages[d][k].contentType)>>,
             text |-> c.packages[d][k].text] : d \in DOMAIN c.packages, k \in Kinds} : e.text # None}

\* Files outside folders are left alone, as are hidden folders (not modelled but for
\* the promoted commit); a folder of a target is kept or deleted as a whole.
Kept(c, path) ==
    Len(path) > 1 =>
        /\ path[1] \in c.types
        /\ path[2] = "README.md" \/ <<path[1], path[2]>> \in DOMAIN c.packages

\* Mutant of NewTree: a target that is gone keeps its folder.
NewTreeKeepingFolders(tree, c) ==
    LET new == Entries(c)
    IN  [files    |-> new \cup {f \in tree.files : /\ Len(f.path) > 1 => f.path[1] \in c.types
                                                   /\ \A n \in new : n.path # f.path},
         promoted |-> IF c.commit = None THEN tree.promoted ELSE c.commit]

\* Mutant of NewTree: an empty config is written, too.
NewTreeWithEmptyConfig(tree, c) ==
    LET new == Entries(c) \cup
               {[path |-> <<d[1], d[2], FileName("platform-config", "env")>>,
                 text |-> c.packages[d]["platform-config"].text] : d \in DOMAIN c.packages}
    IN  [files    |-> new \cup {f \in tree.files : Kept(c, f.path) /\ \A n \in new : n.path # f.path},
         promoted |-> IF c.commit = None THEN tree.promoted ELSE c.commit]

\* getTree: the tree that CreateTree makes of the existing one.
NewTree(tree, c) ==
    LET new == Entries(c)
    IN  [files    |-> new \cup {f \in tree.files : Kept(c, f.path) /\ \A n \in new : n.path # f.path},
         promoted |-> IF c.commit = None THEN tree.promoted ELSE c.commit]

\* Mutant of IsPromoted: a promotion is what the base branch of an empty repository lacks.
IsFirstPromotion(tree, c) == c.commit # None /\ tree.promoted = None

\* addPromotedCommitId: is the commit new in the tree?
IsPromoted(tree, c) == c.commit \notin {None, tree.promoted}

VARIABLES
    base,     \* tree of the base branch
    branch,   \* each deployment branch: its tree and the one it was forked from, or None
    pulls,    \* pull requests by number: head, state, label "promoted", content
    wanted,   \* content whose hash the controller would compute now
    recorded, \* content whose hash it has recorded
    w,        \* the call in progress
    edits, faults

vars == <<base, branch, pulls, wanted, recorded, w, edits, faults>>

\* tree is the one at the head of the branch, reused says that the branch was there,
\* promoted that a label is due, old holds the pull requests to be removed.
Idle(name, failed) == [pc |-> "idle", name |-> name, failed |-> failed, content |-> None,
                       tree |-> None, reused |-> FALSE, promoted |-> FALSE, old |-> {}]

Init ==
    /\ base = BaseTree
    /\ branch = [s \in Seconds |-> None]
    /\ pulls = <<>>
    /\ wanted \in Contents
    /\ recorded = None
    /\ w = Idle(0, FALSE)
    /\ edits = 0 /\ faults = 0

Numbers == 1..Len(pulls)
Open(i) == pulls[i].state = "open"
OpenOn(h) == {i \in Numbers : Open(i) /\ pulls[i].head = h}

(***************************************************************************)
(* Users.                                                                  *)
(***************************************************************************)
Edit == edits < MaxEdits /\ edits' = edits + 1

\* The packages, cluster types or the base repo change.
ChangeContent(c) ==
    /\ Edit
    /\ wanted # c
    /\ c = recorded => "revert" \in Adversity
    /\ wanted' = c
    /\ UNCHANGED <<base, branch, pulls, recorded, w, faults>>

\* The three-way merge of git, file by file.
Merged(head, fork) ==
    [files    |-> (base.files \ (fork.files \ head.files)) \cup (head.files \ fork.files),
     promoted |-> IF head.promoted = fork.promoted THEN base.promoted ELSE head.promoted]

Conflict(head, fork) ==
    \/ ~OnePerPath(Merged(head, fork).files)
    \/ Cardinality({base.promoted, head.promoted, fork.promoted}) = 3

\* A pull request is merged, or closed without a merge.
Settle(i, merge) ==
    /\ Edit
    /\ Open(i)
    /\ LET b == branch[pulls[i].head]
       IN  IF merge THEN ~Conflict(b.tree, b.fork) /\ base' = Merged(b.tree, b.fork)
                    ELSE UNCHANGED base
    /\ pulls' = [pulls EXCEPT ![i].state = "settled"]
    /\ UNCHANGED <<branch, wanted, recorded, w, faults>>

(***************************************************************************)
(* CreatePR, called by the GitOps repo controller.                         *)
(***************************************************************************)
Fault == faults < MaxFaults /\ faults' = faults + 1

\* A call that takes effect is answered, or its answer is lost.
Answered(ok) == IF ok THEN UNCHANGED faults ELSE Fault

\* CreatePR goes on, or returns the error.
Continue(ok, next) == w' = IF ok THEN next ELSE Idle(w.name, TRUE)

Frame == UNCHANGED <<base, wanted, recorded, edits>>

\* getDeploymentBranchName: the branch is named after the second.  Calls that share
\* a second are a failed one and its retry.
BeginCreatePR(name) ==
    /\ w.pc = "idle" /\ wanted # recorded
    /\ name = w.name + 1 \/ (name = w.name /\ w.failed)
    /\ w' = [Idle(name, FALSE) EXCEPT !.pc = "base", !.content = wanted]
    /\ Frame /\ UNCHANGED <<branch, pulls, faults>>

GetBaseBranch ==
    /\ w.pc = "base"
    /\ w' = [w EXCEPT !.pc = "branch", !.tree = base]
    /\ Frame /\ UNCHANGED <<branch, pulls, faults>>

\* Mutant of ReuseBranch: a branch that is there already is refused.
ReuseBranchRefused ==
    /\ w.pc = "branch" /\ branch[w.name] # None
    /\ w' = Idle(w.name, TRUE)
    /\ Frame /\ UNCHANGED <<branch, pulls, faults>>

\* The branch of an earlier attempt is taken as it is.
ReuseBranch ==
    /\ w.pc = "branch" /\ branch[w.name] # None
    /\ w' = [w EXCEPT !.pc = "push", !.tree = branch[w.name].tree, !.reused = TRUE]
    /\ Frame /\ UNCHANGED <<branch, pulls, faults>>

CreateBranch(ok) ==
    /\ w.pc = "branch" /\ branch[w.name] = None
    /\ branch' = [branch EXCEPT ![w.name] = [tree |-> w.tree, fork |-> w.tree]]
    /\ Answered(ok)
    /\ Continue(ok, [w EXCEPT !.pc = "push"])
    /\ Frame /\ UNCHANGED pulls

\* getTree and pushCommit: nothing is visible before the last call, UpdateRef.  An
\* open pull request shows its branch.
PushCommit(ok) ==
    /\ w.pc = "push"
    /\ branch' = [branch EXCEPT ![w.name].tree = NewTree(w.tree, w.content)]
    /\ pulls' = [i \in Numbers |-> IF i \in OpenOn(w.name)
                                    THEN [pulls[i] EXCEPT !.content = w.content] ELSE pulls[i]]
    /\ Answered(ok)
    /\ Continue(ok, [w EXCEPT !.pc = "list", !.promoted = IsPromoted(w.tree, w.content)])
    /\ Frame

\* Mutant of ListPullRequests: older pull requests are left open.
ListNoPullRequests(trailing) ==
    /\ w.pc = "list"
    /\ trailing => "trailing" \in Adversity
    /\ w' = [w EXCEPT !.pc = "create", !.old = {}]
    /\ Frame /\ UNCHANGED <<branch, pulls, faults>>

\* cleanPullRequests.
ListPullRequests(trailing) ==
    /\ w.pc = "list"
    /\ trailing => "trailing" \in Adversity
    /\ w' = [w EXCEPT !.pc = "clean",
                      !.old = {i \in Numbers : Open(i) /\ (trailing => i # Len(pulls))}]
    /\ Frame /\ UNCHANGED <<branch, pulls, faults>>

\* DeleteRef; GitHub closes what is open on the branch.  The call that follows, to
\* close the pull request, changes nothing: that it fails is the next call failing.
\* A branch that is gone cannot be deleted.
DeletePullRequest(i, ok) ==
    /\ w.pc = "clean" /\ i \in w.old /\ \A j \in w.old : j <= i
    /\ LET head == pulls[i].head
       IN  IF branch[head] # None
           THEN /\ branch' = [branch EXCEPT ![head] = None]
                /\ pulls' = [j \in Numbers |-> IF j \in OpenOn(head)
                                THEN [pulls[j] EXCEPT !.state = "replaced"] ELSE pulls[j]]
                /\ Answered(ok)
           ELSE ~ok /\ UNCHANGED <<branch, pulls, faults>>
    /\ Continue(ok, [w EXCEPT !.old = @ \ {i}])
    /\ Frame

CleanedPullRequests ==
    /\ w.pc = "clean" /\ w.old = {}
    /\ w' = [w EXCEPT !.pc = "create"]
    /\ Frame /\ UNCHANGED <<branch, pulls, faults>>

\* Mutant of CreatePullRequest: every refusal counts as success.
CreatePullRequestIgnoringErrors(ok) ==
    /\ w.pc = "create"
    /\ IF branch[w.name] = None \/ OpenOn(w.name) # {} THEN ok /\ UNCHANGED <<pulls, faults>>
       ELSE /\ pulls' = Append(pulls, [head |-> w.name, state |-> "open",
                                      promoted |-> FALSE, content |-> w.content])
            /\ Answered(ok)
    /\ Continue(ok, [w EXCEPT !.pc = "done"])
    /\ Frame /\ UNCHANGED branch

\* The answer that one exists already counts as success (ignorePrAlreadyExists).
\* A branch that was deleted a moment ago cannot be proposed.
CreatePullRequest(ok) ==
    /\ w.pc = "create"
    /\ CASE branch[w.name] = None -> ~ok /\ UNCHANGED <<pulls, faults>>
         [] branch[w.name] # None /\ OpenOn(w.name) # {} -> ok /\ UNCHANGED <<pulls, faults>>
         [] OTHER -> /\ pulls' = Append(pulls, [head |-> w.name, state |-> "open",
                                               promoted |-> FALSE, content |-> w.content])
                     /\ Answered(ok)
    /\ Continue(ok, [w EXCEPT !.pc = IF w.promoted /\ OpenOn(w.name) = {} THEN "label" ELSE "done"])
    /\ Frame /\ UNCHANGED branch

AddLabel(ok) ==
    /\ w.pc = "label"
    /\ pulls' = [pulls EXCEPT ![Len(pulls)].promoted = TRUE]
    /\ Answered(ok)
    /\ Continue(ok, [w EXCEPT !.pc = "done"])
    /\ Frame /\ UNCHANGED branch

\* A call fails without effect, or the manager restarts.
CallFails ==
    /\ w.pc \notin {"idle", "done"}
    /\ Fault
    /\ w' = Idle(w.name, TRUE)
    /\ Frame /\ UNCHANGED <<branch, pulls>>

\* Mutant of Return: the hash is computed again.
ReturnHashingAgain ==
    /\ w.pc = "done"
    /\ recorded' = wanted
    /\ w' = Idle(w.name, FALSE)
    /\ UNCHANGED <<base, branch, pulls, wanted, edits, faults>>

\* The controller records the hash of what has been proposed.
Return ==
    /\ w.pc = "done"
    /\ recorded' = w.content
    /\ w' = Idle(w.name, FALSE)
    /\ UNCHANGED <<base, branch, pulls, wanted, edits, faults>>

-----------------------------------------------------------------------------
UserStep ==
    \/ \E c \in Contents : ChangeContent(c)
    \/ \E i \in Numbers, merge \in BOOLEAN : Settle(i, merge)

Begin == \E name \in Seconds : BeginCreatePR(name)

WorkerStep ==
    \/ GetBaseBranch
    \/ ReuseBranch
    \/ \E ok \in BOOLEAN : CreateBranch(ok)
    \/ \E ok \in BOOLEAN : PushCommit(ok)
    \/ \E trailing \in BOOLEAN : ListPullRequests(trailing)
    \/ \E i \in Numbers, ok \in BOOLEAN : DeletePullRequest(i, ok)
    \/ CleanedPullRequests
    \/ \E ok \in BOOLEAN : CreatePullRequest(ok)
    \/ \E ok \in BOOLEAN : AddLabel(ok)
    \/ CallFails
    \/ Return

Next == UserStep \/ Begin \/ WorkerStep

Spec == Init /\ [][Next]_vars

\* A call that has begun goes on, and a failed one is retried.
FairSpec == Spec /\ WF_vars(WorkerStep) /\ WF_vars(Begin)

(***************************************************************************)
(* Properties.                                                             *)
(***************************************************************************)
AllFiles == BaseTree.files \cup (UNION {Entries(c) : c \in Contents})
Trees == [files : SUBSET AllFiles, promoted : {BaseTree.promoted} \cup {c.commit : c \in Contents}]

Branches == [tree : Trees, fork : Trees]

ASSUME NoneAssumption == None \notin Contents /\ None \notin Branches

PullRequests ==
    [head : Seconds, state : {"open", "settled", "replaced"}, promoted : BOOLEAN, content : Contents]

Workers ==
    [pc : {"idle", "base", "branch", "push", "list", "clean", "create", "label", "done"},
     name : Seconds \cup {0}, failed : BOOLEAN, content : Contents \cup {None},
     tree : Trees \cup {None}, reused : BOOLEAN, promoted : BOOLEAN, old : SUBSET Nat]

TypeOK ==
    /\ base \in Trees
    /\ branch \in [Seconds -> Branches \cup {None}]
    /\ pulls \in Seq(PullRequests)
    /\ wanted \in Contents /\ recorded \in Contents \cup {None}
    /\ w \in Workers
    /\ edits \in 0..MaxEdits /\ faults \in 0..MaxFaults
    /\ \A i \in Numbers : Open(i) => branch[pulls[i].head] # None

\* Every file of the content is there with its text, once; no folder of a target or
\* of a cluster type that is not in the content is there.
Shows(tree, c) ==
    /\ Entries(c) \subseteq tree.files
    /\ OnePerPath(tree.files)
    /\ \A f \in tree.files : Kept(c, f.path)
    /\ c.commit \in {None, tree.promoted}

\* An open pull request shows the content of the call that made it or pushed to its
\* branch last, although a retry builds upon the branch a failed attempt left behind.
PullRequestShowsContent ==
    \A i \in Numbers : Open(i) => Shows(branch[pulls[i].head].tree, pulls[i].content)

\* Never are two pull requests open, whichever call of a CreatePR fails.
OnePullRequest == \A i, j \in Numbers : Open(i) /\ Open(j) => i = j

\* A new promoted commit is labelled when the call succeeds, unless the branch was
\* pushed to by an attempt before: then the commit id is not new any more.
PromotionLabelled ==
    (w.pc = "done" /\ ~w.reused /\ w.content.commit \notin {None, branch[w.name].fork.promoted})
        => pulls[Len(pulls)].promoted

\* Content of the last pull request, unless the controller has withdrawn it.
Proposed ==
    IF pulls = <<>> \/ pulls[Len(pulls)].state = "replaced" THEN None ELSE pulls[Len(pulls)].content

\* At rest, what was recorded is what is proposed, or what the users have settled.
RestingProposed ==
    w.pc = "idle" /\ wanted = recorded => Proposed = recorded

\* A content that is wanted is proposed in the end.
EventuallyProposed == (wanted # recorded) ~> (wanted = recorded)

\* CreatePR is what the GitOps repo controller takes it for.
Promise == INSTANCE PullRequest WITH
    pr    <- Proposed,
    call  <- w.content,
    phase <- IF w.pc \in {"idle", "done"} THEN w.pc ELSE "asked"

ImplementsPullRequest == Promise!Spec
=============================================================================
