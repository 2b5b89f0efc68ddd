--------------------------- MODULE GithubRepoProofs ----------------------------
(***************************************************************************)
(* Proofs about GithubRepo: its types, that pull requests show what they   *)
(* were made for, that CreatePR implements module PullRequest, and that    *)
(* there is one pull request and it stays, for any contents, bounds and    *)
(* base branch.                                                            *)
(***************************************************************************)
EXTENDS GithubRepo, SequenceTheorems, TLAPS

(***************************************************************************)
(* Trees.                                                                  *)
(***************************************************************************)
LEMMA ContentFact ==
    ASSUME NEW c \in Contents
    PROVE  \A d \in DOMAIN c.packages : d = <<d[1], d[2]>> /\ d[1] \in c.types
  BY ConstantsAssumption

\* An entry is the README of a cluster type, or manifests of a package.
LEMMA EntryCases ==
    ASSUME NEW c \in Contents, NEW f \in Entries(c)
    PROVE  \/ \E t \in c.types : f = [path |-> <<t, "README.md">>, text |-> "readme"]
           \/ \E d \in DOMAIN c.packages, k \in Kinds :
                f = [path |-> <<d[1], d[2], FileName(k, c.packages[d][k].contentType)>>,
                     text |-> c.packages[d][k].text]
  BY DEF Entries

LEMMA EntriesOnePerPath ==
    ASSUME NEW c \in Contents
    PROVE  OnePerPath(Entries(c))
<1> SUFFICES ASSUME NEW f \in Entries(c), NEW g \in Entries(c), f.path = g.path
             PROVE  f = g
  BY DEF OnePerPath
<1> DEFINE Readme(e) == \E t \in c.types : e = [path |-> <<t, "README.md">>, text |-> "readme"]
           Manifest(e) == \E d \in DOMAIN c.packages, k \in Kinds :
                e = [path |-> <<d[1], d[2], FileName(k, c.packages[d][k].contentType)>>,
                     text |-> c.packages[d][k].text]
<1>1. ASSUME NEW e \in Entries(c) PROVE Readme(e) \/ Manifest(e)
  BY EntryCases
<1>2. CASE Readme(f) /\ Readme(g)
  BY <1>2
<1>3. ASSUME NEW e \in Entries(c), Readme(e) PROVE Len(e.path) = 2
  BY <1>3
<1>4. ASSUME NEW e \in Entries(c), Manifest(e) PROVE Len(e.path) = 3
  BY <1>4
<1>5. CASE Manifest(f) /\ Manifest(g)
  <2>1. PICK d \in DOMAIN c.packages, k \in Kinds :
            f = [path |-> <<d[1], d[2], FileName(k, c.packages[d][k].contentType)>>,
                 text |-> c.packages[d][k].text]
    BY <1>5
  <2>2. PICK e \in DOMAIN c.packages, l \in Kinds :
            g = [path |-> <<e[1], e[2], FileName(l, c.packages[e][l].contentType)>>,
                 text |-> c.packages[e][l].text]
    BY <1>5
  <2>3. /\ d[1] = e[1] /\ d[2] = e[2]
        /\ FileName(k, c.packages[d][k].contentType) = FileName(l, c.packages[e][l].contentType)
    BY <2>1, <2>2
  <2>4. d = e
    BY <2>3, ContentFact
  <2>5. k = l
    BY <2>3 DEF FileName
  <2> QED
    BY <2>1, <2>2, <2>4, <2>5
<1> QED
  BY <1>1, <1>2, <1>3, <1>4, <1>5

LEMMA EntriesKept ==
    ASSUME NEW c \in Contents, NEW f \in Entries(c)
    PROVE  Kept(c, f.path)
<1>1. ASSUME NEW t \in c.types, f = [path |-> <<t, "README.md">>, text |-> "readme"]
      PROVE  Kept(c, f.path)
  BY <1>1 DEF Kept
<1>2. ASSUME NEW d \in DOMAIN c.packages, NEW k \in Kinds,
             f = [path |-> <<d[1], d[2], FileName(k, c.packages[d][k].contentType)>>,
                  text |-> c.packages[d][k].text]
      PROVE  Kept(c, f.path)
  <2>1. f.path[1] = d[1] /\ f.path[2] = d[2]
    BY <1>2
  <2>2. <<f.path[1], f.path[2]>> = d
    BY <2>1, ContentFact
  <2> QED
    BY <2>1, <2>2, ContentFact DEF Kept
<1> QED
  BY <1>1, <1>2, EntryCases

\* CreateTree makes the tree of the content, of any tree that holds a path once.
LEMMA NewTreeShows ==
    ASSUME NEW c \in Contents, NEW tree, OnePerPath(tree.files)
    PROVE  Shows(NewTree(tree, c), c)
<1> DEFINE new == Entries(c)
           old == {f \in tree.files : Kept(c, f.path) /\ \A n \in new : n.path # f.path}
           made == NewTree(tree, c)
<1>1. made.files = new \cup old /\ made.promoted = IF c.commit = None THEN tree.promoted ELSE c.commit
  BY DEF NewTree
<1>2. OnePerPath(made.files)
  <2> SUFFICES ASSUME NEW f \in new \cup old, NEW g \in new \cup old, f.path = g.path
               PROVE  f = g
    BY <1>1 DEF OnePerPath
  <2>1. CASE f \in new /\ g \in new
    BY <2>1, EntriesOnePerPath DEF OnePerPath
  <2>2. CASE f \in old /\ g \in old
    BY <2>2 DEF OnePerPath
  <2> QED
    BY <2>1, <2>2
<1>3. \A f \in made.files : Kept(c, f.path)
  BY <1>1, EntriesKept
<1> QED
  BY <1>1, <1>2, <1>3 DEF Shows

LEMMA TreeTypes ==
    ASSUME NEW tree \in Trees, NEW c \in Contents
    PROVE  NewTree(tree, c) \in Trees
<1>1. NewTree(tree, c).files \subseteq AllFiles
  BY DEF NewTree, Trees, AllFiles
<1> QED
  BY <1>1 DEF NewTree, Trees

LEMMA MergedType ==
    ASSUME base \in Trees, NEW head \in Trees, NEW fork \in Trees
    PROVE  Merged(head, fork) \in Trees
  BY DEF Merged, Trees

LEMMA BaseTreeType == BaseTree \in Trees /\ OnePerPath(BaseTree.files)
<1> DEFINE files == BaseTree.files
<1>1. files \in SUBSET AllFiles
  <2> SUFFICES \A f \in files : f \in AllFiles
    BY Zenon
  <2> QED
    BY Zenon DEF AllFiles
<1>2. [files |-> BaseTree.files, promoted |-> BaseTree.promoted] \in Trees
  BY <1>1 DEF Trees
<1> QED
  BY <1>2, ConstantsAssumption

(***************************************************************************)
(* Types.                                                                  *)
(***************************************************************************)
\* What the call in progress has in hand.
InHand ==
    /\ w.pc # "idle" => w.content \in Contents /\ w.name \in Seconds
    /\ w.pc \notin {"idle", "base"} => w.tree \in Trees /\ OnePerPath(w.tree.files)
    /\ w.pc \in {"push", "list"} => branch[w.name] # None
    /\ w.pc = "label" => Len(pulls) \in Numbers

\* Trees hold a path once.
TreesOK ==
    /\ OnePerPath(base.files)
    /\ \A s \in Seconds : branch[s] # None => OnePerPath(branch[s].tree.files)

TypeInv == TypeOK /\ InHand /\ TreesOK

LEMMA PullsFacts ==
    ASSUME TypeInv
    PROVE  /\ Len(pulls) \in Nat /\ Numbers = 1..Len(pulls)
           /\ pulls \in [Numbers -> PullRequests]
  BY LenProperties DEF TypeInv, TypeOK, Numbers

\* Pull requests that keep their numbers.
LEMMA Renumbered ==
    ASSUME TypeInv, pulls' \in [Numbers -> PullRequests]
    PROVE  pulls' \in Seq(PullRequests) /\ Len(pulls') = Len(pulls) /\ Numbers' = Numbers
<1>1. pulls' \in [1..Len(pulls) -> PullRequests] /\ Len(pulls) \in Nat
  BY PullsFacts
<1>2. pulls' \in Seq(PullRequests)
  BY <1>1, SeqDef
<1>3. Len(pulls') \in Nat /\ DOMAIN pulls' = 1..Len(pulls')
  BY <1>2, LenProperties
<1>4. 1..Len(pulls') = 1..Len(pulls)
  BY <1>1, <1>3
<1>5. Len(pulls') = Len(pulls)
  BY <1>1, <1>3, <1>4
<1> QED
  BY <1>2, <1>5 DEF Numbers

\* The pull requests after a step that gives some a state, a content or a label.
LEMMA StateChange ==
    ASSUME TypeInv, NEW state \in {"settled", "replaced"}, NEW S \in SUBSET Numbers,
           pulls' = [i \in Numbers |-> IF i \in S THEN [pulls[i] EXCEPT !.state = state] ELSE pulls[i]]
    PROVE  /\ pulls' \in Seq(PullRequests) /\ Len(pulls') = Len(pulls) /\ Numbers' = Numbers
           /\ \A i \in Numbers : /\ pulls'[i].head = pulls[i].head /\ pulls'[i].content = pulls[i].content
                                 /\ pulls'[i].state = IF i \in S THEN state ELSE pulls[i].state
<1>1. \A i \in Numbers : pulls[i] \in PullRequests
  BY PullsFacts
<1>2. pulls' \in [Numbers -> PullRequests]
  BY <1>1 DEF PullRequests
<1> QED
  BY <1>1, <1>2, Renumbered DEF PullRequests

LEMMA SettleChange ==
    ASSUME TypeInv, NEW k \in Numbers, pulls' = [pulls EXCEPT ![k].state = "settled"]
    PROVE  /\ pulls' \in Seq(PullRequests) /\ Len(pulls') = Len(pulls) /\ Numbers' = Numbers
           /\ \A i \in Numbers : /\ pulls'[i].head = pulls[i].head /\ pulls'[i].content = pulls[i].content
                                 /\ pulls'[i].state = IF i \in {k} THEN "settled" ELSE pulls[i].state
<1>1. pulls' = [i \in Numbers |-> IF i \in {k} THEN [pulls[i] EXCEPT !.state = "settled"] ELSE pulls[i]]
  BY PullsFacts
<1> HIDE DEF Numbers
<1> QED
  BY <1>1, StateChange

LEMMA LabelChange ==
    ASSUME TypeInv, NEW k \in Numbers, pulls' = [pulls EXCEPT ![k].promoted = TRUE]
    PROVE  /\ pulls' \in Seq(PullRequests) /\ Len(pulls') = Len(pulls) /\ Numbers' = Numbers
           /\ \A i \in Numbers : /\ pulls'[i].head = pulls[i].head /\ pulls'[i].state = pulls[i].state
                                 /\ pulls'[i].content = pulls[i].content
<1>1. \A i \in Numbers : pulls[i] \in PullRequests
  BY PullsFacts
<1>2. pulls' \in [Numbers -> PullRequests]
  BY <1>1, PullsFacts DEF PullRequests
<1> QED
  BY <1>1, <1>2, PullsFacts, Renumbered DEF PullRequests

LEMMA Appended ==
    ASSUME TypeInv, NEW p \in PullRequests, pulls' = Append(pulls, p)
    PROVE  /\ pulls' \in Seq(PullRequests) /\ Len(pulls') = Len(pulls) + 1
           /\ Numbers' = Numbers \cup {Len(pulls) + 1}
           /\ \A i \in Numbers : pulls'[i] = pulls[i]
           /\ pulls'[Len(pulls')] = p /\ Len(pulls') \in Numbers'
<1>1. pulls \in Seq(PullRequests) /\ Len(pulls) \in Nat
  BY PullsFacts DEF TypeInv, TypeOK
<1>2. /\ pulls' \in Seq(PullRequests) /\ Len(pulls') = Len(pulls) + 1
      /\ \A i \in 1..Len(pulls) : pulls'[i] = pulls[i]
      /\ pulls'[Len(pulls) + 1] = p
  BY <1>1, AppendProperties
<1> QED
  BY <1>1, <1>2 DEF Numbers

LEMMA EditType == ASSUME TypeInv, Edit PROVE edits' \in 0..MaxEdits
  BY ConstantsAssumption DEF TypeInv, TypeOK, Edit

LEMMA FaultType == ASSUME TypeInv, Fault PROVE faults' \in 0..MaxFaults
  BY ConstantsAssumption DEF TypeInv, TypeOK, Fault

LEMMA AnsweredType ==
    ASSUME TypeInv, NEW ok \in BOOLEAN, Answered(ok)
    PROVE  faults' \in 0..MaxFaults
  BY FaultType DEF TypeInv, TypeOK, Answered

LEMMA IdleType ==
    ASSUME NEW name \in Seconds \cup {0}, NEW failed \in BOOLEAN
    PROVE  /\ Idle(name, failed) \in Workers
           /\ Idle(name, failed).pc = "idle" /\ Idle(name, failed).content = None
  BY DEF Idle, Workers

\* CreatePR goes on, or is over.
LEMMA ContinueType ==
    ASSUME TypeInv, NEW ok \in BOOLEAN, NEW next \in Workers, Continue(ok, next)
    PROVE  /\ w' \in Workers
           /\ ok => w' = next
           /\ ~ok => w'.pc = "idle" /\ w'.content = None
  BY IdleType DEF Continue, TypeInv, TypeOK, Workers

LEMMA TypeInit == Init => TypeInv
<1> SUFFICES ASSUME Init PROVE TypeInv
  OBVIOUS
<1>1. w \in Workers /\ w.pc = "idle"
  BY IdleType DEF Init
<1>2. pulls \in Seq(PullRequests) /\ Numbers = {}
  BY DEF Init, Numbers
<1>3. branch \in [Seconds -> Branches \cup {None}] /\ \A s \in Seconds : branch[s] = None
  BY DEF Init
<1>4. edits \in 0..MaxEdits /\ faults \in 0..MaxFaults
  BY ConstantsAssumption DEF Init
<1>5. base \in Trees /\ OnePerPath(base.files)
  BY BaseTreeType DEF Init
<1>6. InHand /\ TreesOK
  BY <1>1, <1>3, <1>5 DEF InHand, TreesOK
<1> QED
  BY <1>1, <1>2, <1>3, <1>4, <1>5, <1>6 DEF Init, TypeInv, TypeOK

\* A branch that is there keeps trees.
LEMMA BranchType ==
    ASSUME TypeInv, NEW s \in Seconds, branch[s] # None
    PROVE  /\ branch[s] \in Branches /\ OnePerPath(branch[s].tree.files)
           /\ branch[s].tree \in Trees /\ branch[s].fork \in Trees
  BY DEF TypeInv, TypeOK, TreesOK, Branches

(***************************************************************************)
(* What the calls do, in terms of single branches and pull requests.       *)
(***************************************************************************)
\* CreatePR goes on to another place, or it is over.
GoesOn(ok, pc) ==
    /\ w' \in Workers
    /\ ok => w'.pc = pc /\ w'.name = w.name /\ w'.content = w.content /\ w'.tree = w.tree
    /\ ~ok => w'.pc = "idle" /\ w'.content = None

SameNumbers ==
    /\ pulls' \in Seq(PullRequests) /\ Len(pulls') = Len(pulls) /\ Numbers' = Numbers
    /\ \A i \in Numbers : pulls'[i].head = pulls[i].head

SameBranches(S) ==
    /\ branch' \in [Seconds -> Branches \cup {None}]
    /\ \A s \in S : branch'[s] = branch[s]

LEMMA CreateBranchChange ==
    ASSUME TypeInv, NEW ok \in BOOLEAN, CreateBranch(ok)
    PROVE  /\ w.pc = "branch" /\ w.name \in Seconds /\ branch[w.name] = None /\ Frame /\ UNCHANGED pulls
           /\ GoesOn(ok, "push")
           /\ SameBranches(Seconds \ {w.name})
           /\ branch'[w.name] # None /\ OnePerPath(branch'[w.name].tree.files)
           /\ faults' \in 0..MaxFaults
<1> DEFINE next == [w EXCEPT !.pc = "push"]
           new == [tree |-> w.tree, fork |-> w.tree]
<1>1. /\ next \in Workers /\ next.pc = "push" /\ next.name = w.name /\ next.content = w.content
      /\ next.tree = w.tree
  BY DEF TypeInv, TypeOK, Workers
<1>2. /\ w.pc = "branch" /\ branch' = [branch EXCEPT ![w.name] = new] /\ Frame /\ UNCHANGED pulls
      /\ branch[w.name] = None /\ w.name \in Seconds /\ w.tree \in Trees /\ OnePerPath(w.tree.files)
      /\ Answered(ok) /\ Continue(ok, next)
  BY DEF CreateBranch, TypeInv, InHand
<1>3. GoesOn(ok, "push")
  <2> HIDE DEF next
  <2> QED
    BY <1>1, <1>2, ContinueType DEF GoesOn
<1>4. new \in Branches /\ new # None
  BY <1>2, NoneAssumption DEF Branches
<1>5. branch \in [Seconds -> Branches \cup {None}]
  BY DEF TypeInv, TypeOK
<1>6. branch' \in [Seconds -> Branches \cup {None}] /\ branch'[w.name] = new
      /\ \A s \in Seconds : s # w.name => branch'[s] = branch[s]
  BY <1>2, <1>4, <1>5
<1> QED
  BY <1>2, <1>3, <1>4, <1>6, AnsweredType DEF SameBranches

LEMMA PushChange ==
    ASSUME TypeInv, NEW ok \in BOOLEAN, PushCommit(ok)
    PROVE  /\ w.pc = "push" /\ w.name \in Seconds /\ w.content \in Contents /\ Frame
           /\ GoesOn(ok, "list")
           /\ SameNumbers
           /\ \A i \in Numbers :
                 /\ pulls'[i].state = pulls[i].state
                 /\ pulls'[i].content = IF i \in OpenOn(w.name) THEN w.content ELSE pulls[i].content
           /\ SameBranches(Seconds \ {w.name})
           /\ branch[w.name] # None /\ branch'[w.name] # None
           /\ branch'[w.name].tree = NewTree(w.tree, w.content) /\ OnePerPath(w.tree.files)
           /\ faults' \in 0..MaxFaults
<1> DEFINE next == [w EXCEPT !.pc = "list", !.promoted = IsPromoted(w.tree, w.content)]
           made == NewTree(w.tree, w.content)
           new == [branch[w.name] EXCEPT !.tree = made]
<1>1. /\ next \in Workers /\ next.pc = "list" /\ next.name = w.name /\ next.content = w.content
      /\ next.tree = w.tree
  BY DEF TypeInv, TypeOK, Workers, IsPromoted
<1>2. /\ w.pc = "push" /\ w.name \in Seconds /\ branch[w.name] # None /\ w.content \in Contents
      /\ w.tree \in Trees /\ OnePerPath(w.tree.files) /\ Frame /\ Answered(ok) /\ Continue(ok, next)
  BY DEF PushCommit, TypeInv, InHand
<1>3. SameNumbers /\ \A i \in Numbers :
         /\ pulls'[i].state = pulls[i].state
         /\ pulls'[i].content = IF i \in OpenOn(w.name) THEN w.content ELSE pulls[i].content
  <2> DEFINE S == OpenOn(w.name)
             c == w.content
  <2>1. pulls' = [i \in Numbers |-> IF i \in S THEN [pulls[i] EXCEPT !.content = c] ELSE pulls[i]]
    BY DEF PushCommit
  <2>2. S \in SUBSET Numbers /\ c \in Contents
    BY <1>2 DEF OpenOn
  <2> HIDE DEF S, c
  <2>3. \A i \in Numbers : pulls[i] \in PullRequests
    BY PullsFacts
  <2>4. pulls' \in [Numbers -> PullRequests]
    BY <2>1, <2>2, <2>3 DEF PullRequests
  <2>5. \A i \in Numbers :
           /\ pulls'[i].head = pulls[i].head /\ pulls'[i].state = pulls[i].state
           /\ pulls'[i].content = IF i \in S THEN c ELSE pulls[i].content
    BY <2>1, <2>3 DEF PullRequests
  <2> QED
    BY <2>4, <2>5, Renumbered DEF S, c, SameNumbers
<1>4. GoesOn(ok, "list")
  <2> HIDE DEF next
  <2> QED
    BY <1>1, <1>2, ContinueType DEF GoesOn
<1>5. new \in Branches /\ new.tree = made /\ new # None
  BY <1>2, TreeTypes, BranchType, NoneAssumption DEF Branches
<1>6. branch' = [branch EXCEPT ![w.name] = new] /\ branch \in [Seconds -> Branches \cup {None}]
  BY DEF PushCommit, TypeInv, TypeOK
<1> HIDE DEF new
<1>7. branch' \in [Seconds -> Branches \cup {None}] /\ branch'[w.name] = new
      /\ \A s \in Seconds : s # w.name => branch'[s] = branch[s]
  BY <1>2, <1>5, <1>6
<1> QED
  BY <1>2, <1>3, <1>4, <1>5, <1>7, AnsweredType DEF SameBranches

LEMMA ListChange ==
    ASSUME TypeInv, NEW trailing \in BOOLEAN, ListPullRequests(trailing)
    PROVE  /\ w.pc = "list" /\ Frame /\ UNCHANGED <<branch, pulls, faults>>
           /\ GoesOn(TRUE, "clean")
           /\ trailing => "trailing" \in Adversity
           /\ \A i \in Numbers : i \in w'.old <=> Open(i) /\ (trailing => i # Len(pulls))
<1> DEFINE old == {i \in Numbers : Open(i) /\ (trailing => i # Len(pulls))}
<1>1. old \in SUBSET Nat /\ \A i \in Numbers : i \in old <=> Open(i) /\ (trailing => i # Len(pulls))
  BY PullsFacts
<1> HIDE DEF old
<1>2. w' = [w EXCEPT !.pc = "clean", !.old = old] /\ w \in Workers
  BY DEF ListPullRequests, old, TypeInv, TypeOK
<1>3. w'.old = old /\ GoesOn(TRUE, "clean")
  BY <1>1, <1>2 DEF Workers, GoesOn
<1> QED
  BY <1>1, <1>3 DEF ListPullRequests

\* What was open on the branch is replaced; nothing happens to a branch that is gone.
LEMMA DeleteChange ==
    ASSUME TypeInv, NEW i \in Numbers, NEW ok \in BOOLEAN, DeletePullRequest(i, ok)
    PROVE  /\ w.pc = "clean" /\ Frame /\ faults' \in 0..MaxFaults
           /\ GoesOn(ok, "clean")
           /\ ok => w'.old = w.old \ {i}
           /\ \/ ~ok /\ UNCHANGED <<branch, pulls>>
              \/ /\ pulls[i].head \in Seconds /\ branch[pulls[i].head] # None
                 /\ SameNumbers
                 /\ \A j \in Numbers :
                       /\ pulls'[j].content = pulls[j].content
                       /\ pulls'[j].state = IF j \in OpenOn(pulls[i].head) THEN "replaced"
                                                                          ELSE pulls[j].state
                 /\ SameBranches(Seconds \ {pulls[i].head}) /\ branch'[pulls[i].head] = None
<1> DEFINE next == [w EXCEPT !.old = @ \ {i}]
           head == pulls[i].head
<1>1. /\ w.pc = "clean" /\ next \in Workers /\ next.pc = "clean" /\ next.name = w.name
      /\ next.content = w.content /\ next.tree = w.tree /\ next.old = w.old \ {i}
  BY DEF DeletePullRequest, TypeInv, TypeOK, Workers
<1>2. GoesOn(ok, "clean") /\ (ok => w'.old = w.old \ {i})
  <2>1. Continue(ok, next)
    BY DEF DeletePullRequest
  <2> HIDE DEF next
  <2> QED
    BY <1>1, <2>1, ContinueType DEF GoesOn
<1>3. CASE branch[head] = None
  BY <1>1, <1>2, <1>3 DEF DeletePullRequest, TypeInv, TypeOK
<1>4. CASE branch[head] # None
  <2>1. /\ branch' = [branch EXCEPT ![head] = None] /\ Answered(ok) /\ Frame
        /\ pulls' = [j \in Numbers |-> IF j \in OpenOn(head)
                                       THEN [pulls[j] EXCEPT !.state = "replaced"] ELSE pulls[j]]
    BY <1>4 DEF DeletePullRequest
  <2>2. SameNumbers /\ \A j \in Numbers :
            /\ pulls'[j].content = pulls[j].content
            /\ pulls'[j].state = IF j \in OpenOn(head) THEN "replaced" ELSE pulls[j].state
    BY <2>1, StateChange DEF OpenOn, SameNumbers
  <2>3. head \in Seconds /\ branch \in [Seconds -> Branches \cup {None}]
    BY PullsFacts DEF TypeInv, TypeOK, PullRequests
  <2>4. branch' \in [Seconds -> Branches \cup {None}] /\ branch'[head] = None
        /\ \A s \in Seconds : s # head => branch'[s] = branch[s]
    BY <2>1, <2>3
  <2> QED
    BY <1>1, <1>2, <1>4, <2>1, <2>2, <2>3, <2>4, AnsweredType DEF SameBranches
<1> QED
  BY <1>3, <1>4

\* Nothing is made when there is no branch, or a pull request on it already.
LEMMA CreateChange ==
    ASSUME TypeInv, NEW ok \in BOOLEAN, CreatePullRequest(ok)
    PROVE  /\ w.pc = "create" /\ w.name \in Seconds /\ w.content \in Contents
           /\ Frame /\ UNCHANGED branch /\ faults' \in 0..MaxFaults
           /\ \/ ~ok /\ GoesOn(ok, "done") /\ UNCHANGED pulls
              \/ ok /\ GoesOn(ok, "done") /\ UNCHANGED pulls /\ OpenOn(w.name) # {}
              \/ /\ branch[w.name] # None /\ OpenOn(w.name) = {}
                 /\ GoesOn(ok, "label") \/ GoesOn(ok, "done")
                 /\ pulls' \in Seq(PullRequests) /\ Len(pulls') = Len(pulls) + 1
                 /\ Numbers' = Numbers \cup {Len(pulls')} /\ Len(pulls') \notin Numbers
                 /\ \A i \in Numbers : pulls'[i] = pulls[i]
                 /\ pulls'[Len(pulls')] = [head |-> w.name, state |-> "open", promoted |-> FALSE,
                                           content |-> w.content]
<1> DEFINE pc == IF w.promoted /\ OpenOn(w.name) = {} THEN "label" ELSE "done"
           next == [w EXCEPT !.pc = pc]
<1>1. /\ next \in Workers /\ next.pc = pc /\ next.name = w.name /\ next.content = w.content
      /\ next.tree = w.tree
  BY DEF TypeInv, TypeOK, Workers
<1>2. GoesOn(ok, pc)
  <2>1. Continue(ok, next)
    BY DEF CreatePullRequest
  <2> HIDE DEF next
  <2> QED
    BY <1>1, <2>1, ContinueType DEF GoesOn
<1>3. w.pc = "create" /\ w.name \in Seconds /\ w.content \in Contents /\ Frame /\ UNCHANGED branch
  BY DEF CreatePullRequest, TypeInv, InHand
<1>4. CASE branch[w.name] = None \/ OpenOn(w.name) # {}
  <2>1. UNCHANGED <<pulls, faults>> /\ (ok => OpenOn(w.name) # {})
    BY <1>4 DEF CreatePullRequest
  <2>2. GoesOn(ok, "done")
    BY <1>2, <2>1 DEF GoesOn
  <2> QED
    BY <1>3, <2>1, <2>2 DEF TypeInv, TypeOK
<1>5. CASE branch[w.name] # None /\ OpenOn(w.name) = {}
  <2> DEFINE p == [head |-> w.name, state |-> "open", promoted |-> FALSE, content |-> w.content]
  <2>1. pulls' = Append(pulls, p) /\ Answered(ok)
    BY <1>5 DEF CreatePullRequest
  <2>2. p \in PullRequests
    BY <1>3 DEF PullRequests
  <2>3. /\ pulls' \in Seq(PullRequests) /\ Len(pulls') = Len(pulls) + 1
        /\ Numbers' = Numbers \cup {Len(pulls')} /\ Len(pulls') \notin Numbers
        /\ \A i \in Numbers : pulls'[i] = pulls[i]
        /\ pulls'[Len(pulls')] = p
    BY <2>1, <2>2, Appended, PullsFacts
  <2>4. GoesOn(ok, "label") \/ GoesOn(ok, "done")
    BY <1>2
  <2> QED
    BY <1>3, <1>5, <2>1, <2>3, <2>4, AnsweredType
<1> QED
  BY <1>4, <1>5

LEMMA AddLabelChange ==
    ASSUME TypeInv, NEW ok \in BOOLEAN, AddLabel(ok)
    PROVE  /\ w.pc = "label" /\ Frame /\ UNCHANGED branch /\ faults' \in 0..MaxFaults
           /\ GoesOn(ok, "done")
           /\ SameNumbers
           /\ \A i \in Numbers : /\ pulls'[i].state = pulls[i].state
                                 /\ pulls'[i].content = pulls[i].content
<1> DEFINE next == [w EXCEPT !.pc = "done"]
<1>1. /\ next \in Workers /\ next.pc = "done" /\ next.name = w.name /\ next.content = w.content
      /\ next.tree = w.tree
  BY DEF TypeInv, TypeOK, Workers
<1>2. GoesOn(ok, "done") /\ faults' \in 0..MaxFaults
  <2>1. Continue(ok, next) /\ Answered(ok)
    BY DEF AddLabel
  <2> HIDE DEF next
  <2> QED
    BY <1>1, <2>1, ContinueType, AnsweredType DEF GoesOn
<1>3. Len(pulls) \in Numbers /\ w.pc = "label"
  BY DEF AddLabel, TypeInv, InHand
<1> QED
  BY <1>2, <1>3, LabelChange DEF AddLabel, SameNumbers

LEMMA SettleFacts ==
    ASSUME TypeInv, NEW k \in Numbers, NEW merge \in BOOLEAN, Settle(k, merge)
    PROVE  /\ Open(k) /\ UNCHANGED <<branch, wanted, recorded, w, faults>>
           /\ SameNumbers
           /\ \A i \in Numbers : /\ pulls'[i].content = pulls[i].content
                                 /\ pulls'[i].state = IF i = k THEN "settled" ELSE pulls[i].state
<1>1. pulls' = [pulls EXCEPT ![k].state = "settled"]
  BY DEF Settle
<1>2. SameNumbers /\ \A i \in Numbers :
         /\ pulls'[i].content = pulls[i].content
         /\ pulls'[i].state = IF i \in {k} THEN "settled" ELSE pulls[i].state
  BY <1>1, SettleChange DEF SameNumbers
<1> QED
  BY <1>2 DEF Settle

\* The calls that leave branches and pull requests alone.
LEMMA QuietChange ==
    ASSUME TypeInv, GetBaseBranch \/ ReuseBranch \/ CleanedPullRequests \/ CallFails
    PROVE  /\ w.pc # "idle" /\ Frame /\ UNCHANGED <<branch, pulls>> /\ faults' \in 0..MaxFaults
           /\ w' \in Workers
           /\ \/ w.pc # "done" /\ w'.pc = "idle" /\ w'.content = None
              \/ /\ w'.name = w.name /\ w'.content = w.content
                 /\ \/ w.pc = "base" /\ w'.pc = "branch" /\ w'.tree = base
                    \/ /\ w.pc = "branch" /\ w'.pc = "push"
                       /\ branch[w.name] # None /\ w'.tree = branch[w.name].tree
                    \/ w.pc = "clean" /\ w.old = {} /\ w'.pc = "create" /\ w'.tree = w.tree
<1>1. w \in Workers /\ faults \in 0..MaxFaults /\ base \in Trees
  BY DEF TypeInv, TypeOK
<1>2. CASE GetBaseBranch
  BY <1>1, <1>2 DEF GetBaseBranch, Workers
<1>3. CASE ReuseBranch
  <2>1. branch[w.name].tree \in Trees
    BY <1>3, BranchType DEF ReuseBranch, TypeInv, InHand
  <2> QED
    BY <1>1, <1>3, <2>1 DEF ReuseBranch, Workers
<1>4. CASE CleanedPullRequests
  BY <1>1, <1>4 DEF CleanedPullRequests, Workers
<1>5. CASE CallFails
  BY <1>1, <1>5, IdleType, FaultType DEF CallFails, Workers
<1> QED
  BY <1>2, <1>3, <1>4, <1>5

LEMMA ReturnChange ==
    ASSUME TypeInv, Return
    PROVE  /\ w.pc = "done" /\ w' \in Workers /\ w'.pc = "idle" /\ w'.content = None
           /\ recorded' = w.content /\ w.content \in Contents
           /\ UNCHANGED <<base, branch, pulls, wanted, edits, faults>>
  BY IdleType DEF Return, TypeInv, TypeOK, InHand, Workers

LEMMA BeginChange ==
    ASSUME TypeInv, NEW name \in Seconds, BeginCreatePR(name)
    PROVE  /\ w.pc = "idle" /\ w' \in Workers /\ w'.pc = "base" /\ w'.name = name
           /\ w'.content = wanted /\ wanted \in Contents /\ wanted # recorded
           /\ Frame /\ UNCHANGED <<branch, pulls, faults>>
  BY DEF BeginCreatePR, Idle, TypeInv, TypeOK, Workers

(***************************************************************************)
(* Every step keeps the types.                                             *)
(***************************************************************************)
\* A branch for every open pull request: the last part of the types.
LEMMA OpenHasBranch ==
    ASSUME TypeInv, NEW i \in Numbers, Open(i)
    PROVE  pulls[i].head \in Seconds /\ branch[pulls[i].head] # None
  BY PullsFacts DEF TypeInv, TypeOK, PullRequests

LEMMA UserStepType ==
    ASSUME TypeInv, UserStep
    PROVE  TypeInv'
<1>1. ASSUME NEW c \in Contents, ChangeContent(c) PROVE TypeInv'
  BY <1>1, EditType DEF ChangeContent, TypeInv, TypeOK, InHand, TreesOK, Numbers, Open
<1>2. ASSUME NEW i \in Numbers, NEW merge \in BOOLEAN, Settle(i, merge) PROVE TypeInv'
  <2>1. /\ pulls' \in Seq(PullRequests) /\ Len(pulls') = Len(pulls) /\ Numbers' = Numbers
        /\ \A j \in Numbers : /\ pulls'[j].head = pulls[j].head /\ pulls'[j].content = pulls[j].content
                              /\ pulls'[j].state = IF j \in {i} THEN "settled" ELSE pulls[j].state
    BY <1>2, SettleChange DEF Settle
  <2>2. pulls[i].head \in Seconds /\ branch[pulls[i].head] # None
    BY <1>2, PullsFacts DEF Settle, TypeInv, TypeOK, PullRequests
  <2> DEFINE b == branch[pulls[i].head]
  <2>3. base' \in Trees /\ OnePerPath(base'.files)
    <3>1. CASE ~merge
      BY <1>2, <3>1 DEF Settle, TypeInv, TypeOK, TreesOK
    <3>2. CASE merge
      <4>1. base' = Merged(b.tree, b.fork) /\ ~Conflict(b.tree, b.fork)
        BY <1>2, <3>2 DEF Settle
      <4>2. b.tree \in Trees /\ b.fork \in Trees /\ base \in Trees
        BY <2>2, BranchType DEF TypeInv, TypeOK
      <4> QED
        BY <4>1, <4>2, MergedType DEF Conflict
    <3> QED
      BY <3>1, <3>2
  <2>4. edits' \in 0..MaxEdits
    BY <1>2, EditType DEF Settle
  <2>5. \A j \in Numbers : (pulls'[j].state = "open") => branch'[pulls'[j].head] # None
    BY <1>2, <2>1 DEF Settle, TypeInv, TypeOK, Open
  <2>6. TypeOK'
    BY <1>2, <2>1, <2>3, <2>4, <2>5 DEF Settle, TypeInv, TypeOK, Open
  <2> QED
    BY <1>2, <2>1, <2>3, <2>6 DEF Settle, TypeInv, InHand, TreesOK
<1> QED
  BY <1>1, <1>2 DEF UserStep

\* A step of CreatePR that leaves branches and pull requests alone.
LEMMA QuietStepType ==
    ASSUME TypeInv, Frame, UNCHANGED <<branch, pulls>>, faults' \in 0..MaxFaults,
           w' \in Workers, InHand'
    PROVE  TypeInv'
  BY DEF Frame, TypeInv, TypeOK, TreesOK, Numbers, Open

LEMMA WorkerStepType ==
    ASSUME TypeInv, WorkerStep
    PROVE  TypeInv'
<1>1. ASSUME GetBaseBranch \/ ReuseBranch \/ CleanedPullRequests \/ CallFails
      PROVE  TypeInv'
  <2>1. branch[w.name] # None /\ w.pc = "branch" => /\ branch[w.name].tree \in Trees
                                                   /\ OnePerPath(branch[w.name].tree.files)
    BY BranchType DEF TypeInv, InHand
  <2>2. InHand'
    BY <1>1, <2>1, QuietChange DEF TypeInv, TypeOK, InHand, TreesOK, Frame
  <2> QED
    BY <1>1, <2>2, QuietChange, QuietStepType
<1>2. ASSUME NEW ok \in BOOLEAN, CreateBranch(ok)
      PROVE  TypeInv'
  <2>1. InHand'
    BY <1>2, CreateBranchChange DEF GoesOn, TypeInv, InHand
  <2>2. \A i \in Numbers : Open(i) => branch'[pulls[i].head] # None
    BY <1>2, CreateBranchChange, OpenHasBranch DEF SameBranches
  <2>3. TreesOK'
    BY <1>2, CreateBranchChange DEF SameBranches, Frame, TypeInv, TreesOK
  <2> QED
    BY <1>2, <2>1, <2>2, <2>3, CreateBranchChange
       DEF GoesOn, SameBranches, Frame, TypeInv, TypeOK, Numbers, Open
<1>3. ASSUME NEW ok \in BOOLEAN, PushCommit(ok)
      PROVE  TypeInv'
  <2>1. OnePerPath(branch'[w.name].tree.files)
    BY <1>3, PushChange, NewTreeShows DEF Shows
  <2>2. TreesOK'
    BY <1>3, <2>1, PushChange DEF SameBranches, Frame, TypeInv, TreesOK
  <2>3. InHand'
    BY <1>3, PushChange DEF GoesOn, TypeInv, InHand
  <2>4. \A i \in Numbers : pulls'[i].state = "open" => branch'[pulls'[i].head] # None
    BY <1>3, PushChange, OpenHasBranch DEF SameNumbers, SameBranches, Open
  <2> QED
    BY <1>3, <2>2, <2>3, <2>4, PushChange DEF GoesOn, SameNumbers, SameBranches, Frame, TypeInv, TypeOK, Open
<1>4. ASSUME NEW trailing \in BOOLEAN, ListPullRequests(trailing)
      PROVE  TypeInv'
  <2>1. w' \in Workers /\ InHand'
    BY <1>4, ListChange DEF GoesOn, TypeInv, InHand
  <2> QED
    BY <1>4, <2>1, ListChange, QuietStepType DEF TypeInv, TypeOK
<1>5. ASSUME NEW i \in Numbers, NEW ok \in BOOLEAN, DeletePullRequest(i, ok)
      PROVE  TypeInv'
  <2>1. w' \in Workers /\ InHand'
    BY <1>5, DeleteChange DEF GoesOn, TypeInv, InHand
  <2>2. CASE UNCHANGED <<branch, pulls>>
    BY <1>5, <2>1, <2>2, DeleteChange, QuietStepType
  <2>3. CASE ~UNCHANGED <<branch, pulls>>
    <3>1. /\ SameNumbers /\ SameBranches(Seconds \ {pulls[i].head}) /\ branch'[pulls[i].head] = None
          /\ \A j \in Numbers :
                pulls'[j].state = IF j \in OpenOn(pulls[i].head) THEN "replaced" ELSE pulls[j].state
      BY <1>5, <2>3, DeleteChange
    <3>2. \A j \in Numbers : pulls'[j].state = "open" => branch'[pulls'[j].head] # None
      BY <3>1, OpenHasBranch DEF SameNumbers, SameBranches, Open, OpenOn
    <3>3. TreesOK'
      BY <1>5, <3>1, DeleteChange DEF SameBranches, Frame, TypeInv, TreesOK
    <3> QED
      BY <1>5, <2>1, <3>1, <3>2, <3>3, DeleteChange DEF SameNumbers, SameBranches, Frame, TypeInv, TypeOK, Open
  <2> QED
    BY <2>2, <2>3
<1>6. ASSUME NEW ok \in BOOLEAN, CreatePullRequest(ok)
      PROVE  TypeInv'
  <2>1. w' \in Workers
    BY <1>6, CreateChange DEF GoesOn
  <2>2. CASE UNCHANGED pulls
    <3>1. InHand'
      BY <1>6, <2>2, CreateChange, PullsFacts DEF GoesOn, TypeInv, InHand
    <3> QED
      BY <1>6, <2>1, <2>2, <3>1, CreateChange, QuietStepType
  <2>3. CASE ~UNCHANGED pulls
    <3>1. /\ pulls' \in Seq(PullRequests) /\ branch[w.name] # None
          /\ Numbers' = Numbers \cup {Len(pulls')} /\ \A i \in Numbers : pulls'[i] = pulls[i]
          /\ pulls'[Len(pulls')].head = w.name
      BY <1>6, <2>3, CreateChange
    <3>2. \A i \in Numbers' : pulls'[i].state = "open" => branch'[pulls'[i].head] # None
      BY <1>6, <3>1, CreateChange, OpenHasBranch DEF Open
    <3>3. InHand'
      BY <1>6, <3>1, CreateChange DEF GoesOn, TypeInv, InHand
    <3> QED
      BY <1>6, <2>1, <3>1, <3>2, <3>3, CreateChange DEF Frame, TypeInv, TypeOK, TreesOK, Open
  <2> QED
    BY <2>2, <2>3
<1>7. ASSUME NEW ok \in BOOLEAN, AddLabel(ok)
      PROVE  TypeInv'
  <2>1. InHand'
    BY <1>7, AddLabelChange DEF GoesOn, TypeInv, InHand
  <2> QED
    BY <1>7, <2>1, AddLabelChange DEF GoesOn, SameNumbers, Frame, TypeInv, TypeOK, TreesOK, Open
<1>8. ASSUME Return
      PROVE  TypeInv'
  BY <1>8, ReturnChange DEF InHand, TypeInv, TypeOK, TreesOK, Numbers, Open
<1> QED
  BY <1>1, <1>2, <1>3, <1>4, <1>5, <1>6, <1>7, <1>8 DEF WorkerStep

LEMMA TypeStep ==
    ASSUME TypeInv, [Next]_vars
    PROVE  TypeInv'
<1>1. ASSUME NEW name \in Seconds, BeginCreatePR(name) PROVE TypeInv'
  <2>1. w' \in Workers /\ InHand'
    BY <1>1 DEF BeginCreatePR, Idle, TypeInv, TypeOK, InHand, Workers
  <2> QED
    BY <1>1, <2>1, QuietStepType DEF BeginCreatePR, TypeInv, TypeOK
<1>2. ASSUME UNCHANGED vars PROVE TypeInv'
  BY <1>2 DEF vars, TypeInv, TypeOK, InHand, TreesOK, Numbers, Open
<1> QED
  BY <1>1, <1>2, UserStepType, WorkerStepType DEF Next, Begin

\* The types hold in every reachable state; an open pull request has its branch.
THEOREM TypeCorrect == Spec => []TypeOK
<1>1. TypeInv => TypeOK
  BY DEF TypeInv
<1> QED
  BY <1>1, TypeInit, TypeStep, PTL DEF Spec

(***************************************************************************)
(* The inductive invariant.                                                *)
(***************************************************************************)
\* From the push to the pull request, the branch (if it is there) holds the content, and
\* so does every pull request open on it.
Pushed ==
    w.pc \in {"list", "clean", "create"} =>
        /\ branch[w.name] # None => Shows(branch[w.name].tree, w.content)
        /\ \A i \in OpenOn(w.name) : pulls[i].content = w.content

\* What is open is about to be deleted, but for the last pull request when the list
\* of pull requests may trail.
Cleaned ==
    /\ w.pc = "clean" => \A i \in Numbers :
            Open(i) => i \in w.old \/ (i = Len(pulls) /\ "trailing" \in Adversity)
    /\ w.pc = "create" => \A i \in Numbers : Open(i) => i = Len(pulls) /\ "trailing" \in Adversity
    /\ "trailing" \notin Adversity => OnePullRequest

\* The pull request is made; users may have settled it.
Made ==
    w.pc \in {"label", "done"} =>
        /\ Len(pulls) \in Numbers
        /\ pulls[Len(pulls)].content = w.content /\ pulls[Len(pulls)].state # "replaced"

\* A call is made for what is not recorded yet.
Steady ==
    "revert" \notin Adversity => (w.pc # "idle" => wanted # recorded) /\ RestingProposed

Inv == TypeInv /\ Pushed /\ Cleaned /\ Made /\ Steady /\ PullRequestShowsContent

LEMMA NoneMade ==
    ASSUME NEW ps \in Seq(PullRequests)
    PROVE  Len(ps) \in Nat /\ (ps = <<>> <=> Len(ps) = 0)
  BY EmptySeq, LenProperties

LEMMA InvInit == Init => Inv
<1> SUFFICES ASSUME Init PROVE Inv
  OBVIOUS
<1>1. Numbers = {} /\ w.pc = "idle" /\ recorded = None /\ wanted \in Contents
  BY DEF Init, Idle, Numbers
<1> QED
  BY <1>1, TypeInit, NoneAssumption DEF Inv, Pushed, Cleaned, Made, Steady, OnePullRequest,
                                        RestingProposed, PullRequestShowsContent

\* Users change what is wanted, and the state of one pull request to "settled".
LEMMA UserStepInv ==
    ASSUME Inv, UserStep
    PROVE  Pushed' /\ Cleaned' /\ Made' /\ Steady' /\ PullRequestShowsContent'
<1>1. ASSUME NEW c \in Contents, ChangeContent(c)
      PROVE  Pushed' /\ Cleaned' /\ Made' /\ Steady' /\ PullRequestShowsContent'
  <2>1. Steady'
    BY <1>1 DEF ChangeContent, Inv, Steady, RestingProposed, Proposed
  <2> QED
    BY <1>1, <2>1 DEF ChangeContent, Inv, Pushed, Cleaned, Made, OnePullRequest, PullRequestShowsContent,
                      Numbers, Open, OpenOn
<1>2. ASSUME NEW k \in Numbers, NEW merge \in BOOLEAN, Settle(k, merge)
      PROVE  Pushed' /\ Cleaned' /\ Made' /\ Steady' /\ PullRequestShowsContent'
  <2>1. TypeInv /\ TypeInv'
    BY UserStepType DEF Inv
  <2>2. /\ Open(k) /\ UNCHANGED <<branch, wanted, recorded, w>> /\ SameNumbers
        /\ \A i \in Numbers : /\ pulls'[i].content = pulls[i].content
                              /\ pulls'[i].state = IF i = k THEN "settled" ELSE pulls[i].state
    BY <1>2, <2>1, SettleFacts
  <2>3. Pushed' /\ Cleaned' /\ PullRequestShowsContent'
    BY <2>2 DEF SameNumbers, Inv, Pushed, Cleaned, OnePullRequest, PullRequestShowsContent, Open, OpenOn
  <2>4. Made'
    BY <2>2 DEF SameNumbers, Inv, Made
  <2>5. Proposed' = Proposed
    BY <2>1, <2>2, NoneMade DEF SameNumbers, Open, Proposed, Numbers, TypeInv, TypeOK
  <2>6. Steady'
    BY <2>2, <2>5 DEF Inv, Steady, RestingProposed
  <2> QED
    BY <2>3, <2>4, <2>6
<1> QED
  BY <1>1, <1>2 DEF UserStep

\* A call is over: whatever it has done to the last pull request, it is due again.
LEMMA OverInv ==
    ASSUME Inv, w.pc \notin {"idle", "done"}, w'.pc = "idle", UNCHANGED <<wanted, recorded>>
    PROVE  Pushed' /\ Made' /\ Steady' /\ ("trailing" \notin Adversity /\ OnePullRequest' => Cleaned')
                   /\ ("trailing" \in Adversity => Cleaned')
  BY DEF Inv, Pushed, Cleaned, Made, Steady, RestingProposed

LEMMA WorkerStepInv ==
    ASSUME Inv, WorkerStep
    PROVE  Pushed' /\ Cleaned' /\ Made' /\ Steady' /\ PullRequestShowsContent'
<1>t. TypeInv /\ TypeInv'
  BY WorkerStepType DEF Inv
\* Nothing but the place of a running call changes.
<1>s. ASSUME w.pc # "idle", w'.pc # "idle", UNCHANGED <<wanted, recorded>>
      PROVE  Steady'
  BY <1>s DEF Inv, Steady, RestingProposed
<1>1. ASSUME GetBaseBranch \/ ReuseBranch \/ CleanedPullRequests \/ CallFails
      PROVE  Pushed' /\ Cleaned' /\ Made' /\ Steady' /\ PullRequestShowsContent'
  <2>1. PullRequestShowsContent' /\ (OnePullRequest => OnePullRequest')
    BY <1>1, <1>t, QuietChange DEF Inv, PullRequestShowsContent, OnePullRequest, Numbers, Open
  <2>2. CASE w'.pc = "idle"
    BY <1>1, <1>t, <2>1, <2>2, QuietChange, OverInv DEF Inv, Cleaned, Frame
  <2>3. CASE w'.pc # "idle"
    <3>1. Steady'
      BY <1>1, <1>s, <1>t, <2>3, QuietChange DEF Frame
    <3>2. Pushed' /\ Cleaned' /\ Made'
      BY <1>1, <1>t, <2>3, QuietChange DEF Inv, Pushed, Cleaned, Made, OnePullRequest, Numbers, Open, OpenOn
    <3> QED
      BY <2>1, <3>1, <3>2
  <2> QED
    BY <2>2, <2>3
<1>2. ASSUME NEW ok \in BOOLEAN, CreateBranch(ok)
      PROVE  Pushed' /\ Cleaned' /\ Made' /\ Steady' /\ PullRequestShowsContent'
  <2>1. PullRequestShowsContent'
    BY <1>2, <1>t, CreateBranchChange, OpenHasBranch
       DEF SameBranches, Inv, PullRequestShowsContent, Numbers, Open
  <2>2. OnePullRequest => OnePullRequest'
    BY <1>2, <1>t, CreateBranchChange DEF OnePullRequest, Numbers, Open
  <2>3. CASE ok
    BY <1>2, <1>s, <1>t, <2>1, <2>2, <2>3, CreateBranchChange
       DEF GoesOn, Frame, Inv, Pushed, Cleaned, Made
  <2>4. CASE ~ok
    BY <1>2, <1>t, <2>1, <2>2, <2>4, CreateBranchChange, OverInv DEF GoesOn, Frame, Inv, Cleaned
  <2> QED
    BY <2>3, <2>4
<1>3. ASSUME NEW ok \in BOOLEAN, PushCommit(ok)
      PROVE  Pushed' /\ Cleaned' /\ Made' /\ Steady' /\ PullRequestShowsContent'
  <2>1. Shows(branch'[w.name].tree, w.content)
    BY <1>3, <1>t, PushChange, NewTreeShows
  <2>2. PullRequestShowsContent'
    BY <1>3, <1>t, <2>1, PushChange, OpenHasBranch
       DEF SameNumbers, SameBranches, Inv, PullRequestShowsContent, Open, OpenOn
  <2>3. OnePullRequest => OnePullRequest'
    BY <1>3, <1>t, PushChange DEF SameNumbers, OnePullRequest, Open
  <2>4. CASE ok
    <3>1. w'.pc = "list" /\ w'.name = w.name /\ w'.content = w.content
      BY <1>3, <1>t, <2>4, PushChange DEF GoesOn
    <3>2. \A i \in OpenOn(w.name)' : pulls'[i].content = w.content
      BY <1>3, <1>t, <3>1, PushChange DEF SameNumbers, Open, OpenOn
    <3>3. Pushed'
      BY <2>1, <3>1, <3>2 DEF Pushed, OpenOn
    <3>4. Steady'
      BY <1>3, <1>s, <1>t, <3>1, PushChange DEF Frame
    <3> QED
      BY <2>2, <2>3, <3>1, <3>3, <3>4 DEF Inv, Cleaned, Made
  <2>5. CASE ~ok
    BY <1>3, <1>t, <2>2, <2>3, <2>5, PushChange, OverInv DEF GoesOn, Frame, Inv, Cleaned
  <2> QED
    BY <2>4, <2>5
<1>4. ASSUME NEW trailing \in BOOLEAN, ListPullRequests(trailing)
      PROVE  Pushed' /\ Cleaned' /\ Made' /\ Steady' /\ PullRequestShowsContent'
  <2>1. w.pc = "list" /\ w'.pc = "clean" /\ w'.name = w.name /\ w'.content = w.content
        /\ UNCHANGED <<branch, pulls, wanted, recorded>>
    BY <1>4, <1>t, ListChange DEF GoesOn, Frame
  <2>2. PullRequestShowsContent' /\ Pushed' /\ Made' /\ Steady' /\ (OnePullRequest => OnePullRequest')
    BY <1>s, <2>1 DEF Inv, Pushed, Made, PullRequestShowsContent, OnePullRequest, Numbers, Open, OpenOn
  <2>3. Cleaned'
    BY <1>4, <1>t, <2>1, <2>2, ListChange DEF Inv, Cleaned, Numbers, Open
  <2> QED
    BY <2>2, <2>3
<1>5. ASSUME NEW i \in Numbers, NEW ok \in BOOLEAN, DeletePullRequest(i, ok)
      PROVE  Pushed' /\ Cleaned' /\ Made' /\ Steady' /\ PullRequestShowsContent'
  <2> DEFINE head == pulls[i].head
  <2>1. /\ w.pc = "clean" /\ Frame /\ GoesOn(ok, "clean") /\ (ok => w'.old = w.old \ {i})
    BY <1>5, <1>t, DeleteChange
  <2>2. CASE UNCHANGED <<branch, pulls>> /\ ~ok
    <3>1. PullRequestShowsContent' /\ (OnePullRequest => OnePullRequest')
      BY <2>2 DEF Inv, PullRequestShowsContent, OnePullRequest, Numbers, Open
    <3> QED
      BY <2>1, <2>2, <3>1, OverInv DEF GoesOn, Frame, Inv, Cleaned
  <2>3. CASE ~(UNCHANGED <<branch, pulls>> /\ ~ok)
    <3>1. /\ head \in Seconds /\ branch[head] # None /\ SameNumbers
          /\ \A j \in Numbers :
                /\ pulls'[j].content = pulls[j].content
                /\ pulls'[j].state = IF j \in OpenOn(head) THEN "replaced" ELSE pulls[j].state
          /\ SameBranches(Seconds \ {head}) /\ branch'[head] = None
      BY <1>5, <1>t, <2>3, DeleteChange
    <3>2. \A j \in Numbers : Open(j)' => Open(j) /\ pulls[j].head # head /\ j # i
      BY <3>1 DEF Open, OpenOn
    <3>3. PullRequestShowsContent'
      BY <1>t, <3>1, <3>2, OpenHasBranch
         DEF SameNumbers, SameBranches, Inv, PullRequestShowsContent, Open
    <3>4. OnePullRequest => OnePullRequest'
      BY <3>1, <3>2 DEF SameNumbers, OnePullRequest
    <3>5. CASE ok
      <4>1. w'.pc = "clean" /\ w'.name = w.name /\ w'.content = w.content /\ w'.old = w.old \ {i}
        BY <2>1, <3>5 DEF GoesOn
      <4>2. Pushed'
        <5>1. w.name \in Seconds
          BY <1>t, <2>1 DEF TypeInv, InHand
        <5> QED
          BY <2>1, <3>1, <3>2, <4>1, <5>1 DEF SameNumbers, SameBranches, Inv, Pushed, OpenOn
      <4>3. Cleaned'
        BY <2>1, <3>1, <3>2, <3>4, <4>1 DEF SameNumbers, Inv, Cleaned
      <4> QED
        BY <1>s, <2>1, <3>3, <4>1, <4>2, <4>3 DEF Made, Frame
    <3>6. CASE ~ok
      BY <2>1, <3>3, <3>4, <3>6, OverInv DEF GoesOn, Frame, Inv, Cleaned
    <3> QED
      BY <3>5, <3>6
  <2> QED
    BY <2>2, <2>3
<1>6. ASSUME NEW ok \in BOOLEAN, CreatePullRequest(ok)
      PROVE  Pushed' /\ Cleaned' /\ Made' /\ Steady' /\ PullRequestShowsContent'
  <2>1. w.pc = "create" /\ w.name \in Seconds /\ Frame /\ UNCHANGED branch
    BY <1>6, <1>t, CreateChange
  <2>2. ok => w'.pc \in {"label", "done"} /\ w'.content = w.content
    BY <1>6, <1>t, CreateChange DEF GoesOn
  <2>3. ~ok => w'.pc = "idle"
    BY <1>6, <1>t, CreateChange DEF GoesOn
  <2>4. CASE UNCHANGED pulls
    <3>1. PullRequestShowsContent' /\ (OnePullRequest => OnePullRequest')
      BY <2>1, <2>4 DEF Inv, PullRequestShowsContent, OnePullRequest, Numbers, Open
    <3>2. CASE ok
      <4>1. OpenOn(w.name) # {}
        <5>1. UNCHANGED pulls /\ ok /\ Len(pulls) \in Nat
          BY <1>t, <2>4, <3>2, PullsFacts
        <5>2. OpenOn(w.name) # {} \/ Len(pulls') = Len(pulls) + 1
          BY <1>6, <1>t, <3>2, CreateChange
        <5> QED
          BY <5>1, <5>2
      <4>2. PICK i \in OpenOn(w.name) : TRUE
        BY <4>1
      <4>3. i \in Numbers /\ Open(i) /\ i = Len(pulls) /\ pulls[i].content = w.content
        BY <2>1, <4>2 DEF Inv, Pushed, Cleaned, OpenOn, Open
      <4>4. Made'
        BY <2>2, <2>4, <3>2, <4>3 DEF Made, Numbers, Open
      <4> QED
        BY <1>s, <2>1, <2>2, <3>1, <3>2, <4>4 DEF Inv, Pushed, Cleaned, Frame
    <3>3. CASE ~ok
      BY <2>1, <2>3, <3>1, <3>3, OverInv DEF Frame, Inv, Cleaned
    <3> QED
      BY <3>2, <3>3
  <2>5. CASE ~UNCHANGED pulls
    <3>1. /\ branch[w.name] # None
          /\ Numbers' = Numbers \cup {Len(pulls')} /\ \A i \in Numbers : pulls'[i] = pulls[i]
          /\ pulls'[Len(pulls')] = [head |-> w.name, state |-> "open", promoted |-> FALSE,
                                    content |-> w.content]
      BY <1>6, <1>t, <2>5, CreateChange
    <3>2. Shows(branch[w.name].tree, w.content)
      BY <2>1, <3>1 DEF Inv, Pushed
    <3>3. PullRequestShowsContent'
      BY <2>1, <3>1, <3>2 DEF Inv, PullRequestShowsContent, Open
    <3>4. "trailing" \notin Adversity => OnePullRequest'
      BY <2>1, <3>1 DEF Inv, Cleaned, OnePullRequest, Open
    <3>5. CASE ok
      <4>1. Made'
        BY <2>2, <3>1, <3>5 DEF Made
      <4> QED
        BY <1>s, <2>1, <2>2, <3>3, <3>4, <3>5, <4>1 DEF Pushed, Cleaned, Frame
    <3>6. CASE ~ok
      BY <2>1, <2>3, <3>3, <3>4, <3>6, OverInv DEF Frame
    <3> QED
      BY <3>5, <3>6
  <2> QED
    BY <2>4, <2>5
<1>7. ASSUME NEW ok \in BOOLEAN, AddLabel(ok)
      PROVE  Pushed' /\ Cleaned' /\ Made' /\ Steady' /\ PullRequestShowsContent'
  <2>1. /\ w.pc = "label" /\ Frame /\ UNCHANGED branch /\ GoesOn(ok, "done") /\ SameNumbers
        /\ \A i \in Numbers : pulls'[i].state = pulls[i].state /\ pulls'[i].content = pulls[i].content
    BY <1>7, <1>t, AddLabelChange
  <2>2. PullRequestShowsContent' /\ (OnePullRequest => OnePullRequest')
    BY <2>1 DEF SameNumbers, Inv, PullRequestShowsContent, OnePullRequest, Open
  <2>3. CASE ok
    <3>1. Made'
      BY <2>1, <2>3 DEF SameNumbers, GoesOn, Inv, Made
    <3> QED
      BY <1>s, <2>1, <2>2, <2>3, <3>1 DEF GoesOn, Inv, Pushed, Cleaned, Frame
  <2>4. CASE ~ok
    BY <2>1, <2>2, <2>4, OverInv DEF GoesOn, Frame, Inv, Cleaned
  <2> QED
    BY <2>3, <2>4
<1>8. ASSUME Return
      PROVE  Pushed' /\ Cleaned' /\ Made' /\ Steady' /\ PullRequestShowsContent'
  <2>1. /\ w.pc = "done" /\ w'.pc = "idle" /\ recorded' = w.content /\ w.content \in Contents
        /\ UNCHANGED <<branch, pulls, wanted>>
    BY <1>8, <1>t, ReturnChange
  <2>2. PullRequestShowsContent' /\ (OnePullRequest => OnePullRequest')
    BY <2>1 DEF Inv, PullRequestShowsContent, OnePullRequest, Numbers, Open
  <2>3. Proposed' = w.content
    BY <1>t, <2>1, NoneMade DEF Inv, Made, Proposed, Numbers, TypeInv, TypeOK
  <2> QED
    BY <2>1, <2>2, <2>3 DEF Inv, Pushed, Cleaned, Made, Steady, RestingProposed
<1> QED
  BY <1>1, <1>2, <1>3, <1>4, <1>5, <1>6, <1>7, <1>8 DEF WorkerStep

LEMMA InvStep ==
    ASSUME Inv, [Next]_vars
    PROVE  Inv'
<1>1. TypeInv'
  BY TypeStep DEF Inv
<1>2. ASSUME NEW name \in Seconds, BeginCreatePR(name)
      PROVE  Pushed' /\ Cleaned' /\ Made' /\ Steady' /\ PullRequestShowsContent'
  <2>1. w'.pc = "base" /\ wanted # recorded /\ UNCHANGED <<branch, pulls, wanted, recorded>>
    BY <1>2, BeginChange DEF Inv, Frame
  <2> QED
    BY <2>1 DEF Inv, Pushed, Cleaned, Made, Steady, RestingProposed, PullRequestShowsContent,
                OnePullRequest, Numbers, Open
<1>3. ASSUME UNCHANGED vars
      PROVE  Pushed' /\ Cleaned' /\ Made' /\ Steady' /\ PullRequestShowsContent'
  BY <1>3 DEF vars, Inv, Pushed, Cleaned, Made, Steady, RestingProposed, PullRequestShowsContent,
              OnePullRequest, Proposed, Numbers, Open, OpenOn
<1> QED
  BY <1>1, <1>2, <1>3, UserStepInv, WorkerStepInv DEF Inv, Next, Begin

LEMMA Invariance == Spec => []Inv
  BY InvInit, InvStep, PTL DEF Spec

\* Whatever fails and whatever an earlier attempt left on the branch, an open pull
\* request shows the content it was made for: all of its files and no other folder.
THEOREM PullRequestsShowContent == Spec => []PullRequestShowsContent
<1>1. Inv => PullRequestShowsContent
  BY DEF Inv
<1> QED
  BY <1>1, Invariance, PTL

\* When the list of pull requests is complete, two are never open at once.
THEOREM OneProposal ==
    ASSUME "trailing" \notin Adversity
    PROVE  Spec => []OnePullRequest
<1>1. Inv => OnePullRequest
  BY DEF Inv, Cleaned
<1> QED
  BY <1>1, Invariance, PTL

\* Unless the content reverts after a failed call, what is recorded stays proposed until
\* the users settle it.
THEOREM StaysProposed ==
    ASSUME "revert" \notin Adversity
    PROVE  Spec => []RestingProposed
<1>1. Inv => RestingProposed
  BY DEF Inv, Steady
<1> QED
  BY <1>1, Invariance, PTL

(***************************************************************************)
(* CreatePR implements module PullRequest.                                 *)
(***************************************************************************)
LEMMA PromiseInit == Init => Promise!Init
  BY DEF Init, Idle, Proposed, Promise!Init

\* A call that goes on or fails, with what it does to the last pull request.
LEMMA PromiseCall ==
    ASSUME Inv, w.pc \notin {"idle", "done"}, w'.pc # "done",
           \/ w'.pc # "idle" /\ w'.content = w.content /\ Proposed' \in {Proposed, None, w.content}
           \/ w'.pc = "idle" /\ w'.content = None /\ Proposed' \in {Proposed, None, w.content}
    PROVE  [Promise!Next]_(Promise!vars)
  BY DEF Promise!Next, Promise!Propose, Promise!Fail, Promise!Withdraw, Promise!vars

LEMMA PromiseStep ==
    ASSUME Inv, [Next]_vars
    PROVE  [Promise!Next]_(Promise!vars)
<1> DEFINE Refines == [Promise!Next]_(Promise!vars)
<1>t. TypeInv /\ TypeInv' /\ Inv'
  BY TypeStep, InvStep DEF Inv
<1>e. /\ pulls \in Seq(PullRequests) /\ (pulls = <<>> <=> Len(pulls) = 0) /\ Len(pulls) \in Nat
      /\ pulls' \in Seq(PullRequests) /\ (pulls' = <<>> <=> Len(pulls') = 0)
  BY <1>t, NoneMade DEF TypeInv, TypeOK
\* What users settle is proposed as before.
<1>1. ASSUME UserStep PROVE Refines
  <2>1. UNCHANGED w
    BY <1>1 DEF UserStep, ChangeContent, Settle
  <2>2. Proposed' = Proposed
    <3>1. ASSUME NEW c \in Contents, ChangeContent(c) PROVE Proposed' = Proposed
      BY <3>1 DEF ChangeContent, Proposed
    <3>2. ASSUME NEW k \in Numbers, NEW merge \in BOOLEAN, Settle(k, merge) PROVE Proposed' = Proposed
      <4>1. /\ SameNumbers /\ Open(k)
            /\ \A i \in Numbers : /\ pulls'[i].content = pulls[i].content
                                  /\ pulls'[i].state = IF i = k THEN "settled" ELSE pulls[i].state
        BY <1>t, <3>2, SettleFacts
      <4> QED
        BY <1>e, <4>1 DEF SameNumbers, Open, Proposed, Numbers
    <3> QED
      BY <1>1, <3>1, <3>2 DEF UserStep
  <2> QED
    BY <2>1, <2>2 DEF Promise!vars
<1>2. ASSUME NEW name \in Seconds, BeginCreatePR(name) PROVE Refines
  <2>1. w.pc = "idle" /\ w'.pc = "base" /\ w'.content \in Contents /\ UNCHANGED pulls
    BY <1>2, <1>t, BeginChange
  <2> QED
    BY <2>1 DEF Proposed, Promise!Next, Promise!Ask
<1>3. ASSUME GetBaseBranch \/ ReuseBranch \/ CleanedPullRequests \/ CallFails PROVE Refines
  BY <1>3, <1>t, QuietChange, PromiseCall DEF Proposed
<1>4. ASSUME NEW ok \in BOOLEAN, CreateBranch(ok) PROVE Refines
  BY <1>4, <1>t, CreateBranchChange, PromiseCall DEF GoesOn, Proposed
<1>5. ASSUME NEW ok \in BOOLEAN, PushCommit(ok) PROVE Refines
  <2>1. /\ w.pc = "push" /\ GoesOn(ok, "list") /\ SameNumbers
        /\ \A i \in Numbers : /\ pulls'[i].state = pulls[i].state
                              /\ pulls'[i].content \in {w.content, pulls[i].content}
    BY <1>5, <1>t, PushChange
  <2>2. Proposed' \in {Proposed, w.content}
    BY <1>e, <2>1 DEF SameNumbers, Proposed, Numbers
  <2> QED
    BY <2>1, <2>2, PromiseCall DEF GoesOn
<1>6. ASSUME NEW trailing \in BOOLEAN, ListPullRequests(trailing) PROVE Refines
  BY <1>6, <1>t, ListChange, PromiseCall DEF GoesOn, Proposed
<1>7. ASSUME NEW i \in Numbers, NEW ok \in BOOLEAN, DeletePullRequest(i, ok) PROVE Refines
  <2>1. w.pc = "clean" /\ GoesOn(ok, "clean")
    BY <1>7, <1>t, DeleteChange
  <2>2. CASE UNCHANGED pulls
    BY <2>1, <2>2, PromiseCall DEF GoesOn, Proposed
  <2>3. CASE ~UNCHANGED pulls
    <3>1. /\ SameNumbers
          /\ \A j \in Numbers : /\ pulls'[j].content = pulls[j].content
                                /\ pulls'[j].state \in {"replaced", pulls[j].state}
      BY <1>7, <1>t, <2>3, DeleteChange
    <3>2. Proposed' \in {Proposed, None}
      BY <1>e, <3>1 DEF SameNumbers, Proposed, Numbers
    <3> QED
      BY <2>1, <3>2, PromiseCall DEF GoesOn
  <2> QED
    BY <2>2, <2>3
<1>8. ASSUME NEW ok \in BOOLEAN, CreatePullRequest(ok) PROVE Refines
  <2>1. w.pc = "create"
    BY <1>8, <1>t, CreateChange
  <2>2. GoesOn(ok, "label") \/ GoesOn(ok, "done")
    BY <1>8, <1>t, CreateChange
  <2>3. CASE w'.pc = "done"
    <3>1. Proposed' = w'.content /\ w'.content = w.content
      BY <1>e, <1>t, <2>2, <2>3 DEF GoesOn, Inv, Made, Proposed, Numbers
    <3> QED
      BY <2>1, <2>3, <3>1 DEF Promise!Next, Promise!Succeed
  <2>4. CASE w'.pc # "done"
    <3>1. Proposed' \in {Proposed, w.content}
      <4>1. CASE UNCHANGED pulls
        BY <4>1 DEF Proposed
      <4>2. CASE ~UNCHANGED pulls
        <5>1. Len(pulls') = Len(pulls) + 1 /\ pulls'[Len(pulls')].content = w.content
              /\ pulls'[Len(pulls')].state = "open"
          BY <1>8, <1>t, <4>2, CreateChange
        <5> QED
          BY <1>e, <5>1 DEF Proposed
      <4> QED
        BY <4>1, <4>2
    <3> QED
      BY <2>1, <2>2, <2>4, <3>1, PromiseCall DEF GoesOn
  <2> QED
    BY <2>3, <2>4
<1>9. ASSUME NEW ok \in BOOLEAN, AddLabel(ok) PROVE Refines
  <2>1. /\ w.pc = "label" /\ GoesOn(ok, "done") /\ SameNumbers
        /\ \A i \in Numbers : pulls'[i].state = pulls[i].state /\ pulls'[i].content = pulls[i].content
    BY <1>9, <1>t, AddLabelChange
  <2>2. Proposed' = Proposed /\ Proposed = w.content
    BY <1>e, <1>t, <2>1 DEF SameNumbers, Inv, Made, Proposed, Numbers
  <2>3. CASE ok
    BY <2>1, <2>2, <2>3 DEF GoesOn, Promise!Next, Promise!Succeed
  <2>4. CASE ~ok
    BY <2>1, <2>2, <2>4, PromiseCall DEF GoesOn
  <2> QED
    BY <2>3, <2>4
<1>10. ASSUME Return PROVE Refines
  <2>1. w.pc = "done" /\ w'.pc = "idle" /\ w'.content = None /\ UNCHANGED pulls
    BY <1>10, <1>t, ReturnChange
  <2> QED
    BY <2>1 DEF Proposed, Promise!Next, Promise!Acknowledge
<1>11. ASSUME UNCHANGED vars PROVE Refines
  BY <1>11 DEF vars, Proposed, Promise!vars
<1> QED
  BY <1>1, <1>2, <1>3, <1>4, <1>5, <1>6, <1>7, <1>8, <1>9, <1>10, <1>11 DEF Next, Begin, WorkerStep

\* CreatePR is what the GitOps repo controller takes it for: a call that succeeds leaves a
\* pull request with its content, a failed one may have withdrawn the last one.
THEOREM ClientImplementsPullRequest == Spec => ImplementsPullRequest
  BY PromiseInit, PromiseStep, Invariance, PTL DEF Spec, ImplementsPullRequest, Promise!Spec

\* Hence a call that has succeeded has its content proposed until the controller notes it.
THEOREM SuccessIsProposed == Spec => []Promise!SuccessIsTrue
<1>1. Inv => Promise!SuccessIsTrue
  BY NoneMade DEF Inv, TypeInv, TypeOK, Made, Proposed, Numbers, Promise!SuccessIsTrue
<1> QED
  BY <1>1, Invariance, PTL

(***************************************************************************)
(* Labels.                                                                 *)
(***************************************************************************)
\* The call has made its branch itself.
OnOwnBranch == w.pc \in {"push", "list", "clean", "create", "label", "done"} /\ ~w.reused

\* That branch stays: it is forked from the tree the commit is built upon, and nothing is
\* proposed from it before the call proposes it, so that no cleaning deletes it.
OwnBranch ==
    OnOwnBranch =>
        /\ branch[w.name] # None
        /\ w.pc = "push" => branch[w.name].fork = w.tree
        /\ w.pc \in {"push", "list", "clean", "create"} => OpenOn(w.name) = {}
        /\ w.pc = "clean" => \A i \in Numbers : i \in w.old => pulls[i].head # w.name

\* The label is due for what is new in the tree of the fork, and given before the end.
Labelling ==
    OnOwnBranch =>
        /\ w.pc # "push" => (w.promoted <=> IsPromoted(branch[w.name].fork, w.content))
        /\ w.pc = "done" /\ w.promoted => pulls[Len(pulls)].promoted

LabelInv == OwnBranch /\ Labelling
LEMMA LabelInit == Init => LabelInv
  BY DEF Init, Idle, LabelInv, OwnBranch, Labelling, OnOwnBranch

\* A call that is over has no branch of its own.
LEMMA OverLabel ==
    ASSUME w'.pc \in {"idle", "base", "branch"}
    PROVE  LabelInv'
  BY DEF LabelInv, OwnBranch, Labelling, OnOwnBranch

\* What a step leaves alone of the call.
LEMMA LabelFields ==
    ASSUME TypeInv, NEW ok \in BOOLEAN
    PROVE  /\ CreateBranch(ok) => w'.pc = "idle" \/ UNCHANGED <<w.reused, w.promoted>>
           /\ PushCommit(ok) => \/ w'.pc = "idle"
                                \/ w'.reused = w.reused /\ (w'.promoted <=> IsPromoted(w.tree, w.content))
           /\ ListPullRequests(ok) => UNCHANGED <<w.reused, w.promoted>>
           /\ \A i \in Numbers :
                 DeletePullRequest(i, ok) => w'.pc = "idle" \/ UNCHANGED <<w.reused, w.promoted>>
           /\ CleanedPullRequests => UNCHANGED <<w.reused, w.promoted>>
           /\ CreatePullRequest(ok) =>
                \/ w'.pc = "idle"
                \/ /\ UNCHANGED <<w.reused, w.promoted>>
                   /\ w'.pc = IF w.promoted /\ OpenOn(w.name) = {} THEN "label" ELSE "done"
           /\ AddLabel(ok) => w'.pc = "idle" \/ UNCHANGED <<w.reused, w.promoted>>
<1>1. w \in Workers
  BY DEF TypeInv, TypeOK
<1>2. ASSUME NEW next, Continue(ok, next) PROVE w'.pc = "idle" \/ w' = next
  BY <1>2 DEF Continue, Idle
<1>3. CreateBranch(ok) => w'.pc = "idle" \/ UNCHANGED <<w.reused, w.promoted>>
  BY <1>1, <1>2 DEF CreateBranch, Workers
<1>4. PushCommit(ok) => \/ w'.pc = "idle"
                        \/ w'.reused = w.reused /\ (w'.promoted <=> IsPromoted(w.tree, w.content))
  <2> DEFINE next == [w EXCEPT !.pc = "list", !.promoted = IsPromoted(w.tree, w.content)]
  <2>1. next.reused = w.reused /\ (next.promoted <=> IsPromoted(w.tree, w.content))
    BY <1>1 DEF Workers, IsPromoted
  <2>2. PushCommit(ok) => Continue(ok, next)
    BY DEF PushCommit
  <2> HIDE DEF next
  <2> QED
    BY <1>2, <2>1, <2>2
<1>5. ListPullRequests(ok) => UNCHANGED <<w.reused, w.promoted>>
  BY <1>1 DEF ListPullRequests, Workers
<1>6. ASSUME NEW i \in Numbers
      PROVE  DeletePullRequest(i, ok) => w'.pc = "idle" \/ UNCHANGED <<w.reused, w.promoted>>
  <2> DEFINE next == [w EXCEPT !.old = @ \ {i}]
  <2>1. next.reused = w.reused /\ next.promoted = w.promoted
    BY <1>1 DEF Workers
  <2>2. DeletePullRequest(i, ok) => Continue(ok, next)
    BY DEF DeletePullRequest
  <2> HIDE DEF next
  <2> QED
    BY <1>2, <2>1, <2>2
<1>7. CleanedPullRequests => UNCHANGED <<w.reused, w.promoted>>
  BY <1>1 DEF CleanedPullRequests, Workers
<1>8. CreatePullRequest(ok) =>
        \/ w'.pc = "idle"
        \/ /\ UNCHANGED <<w.reused, w.promoted>>
           /\ w'.pc = IF w.promoted /\ OpenOn(w.name) = {} THEN "label" ELSE "done"
  <2> DEFINE pc == IF w.promoted /\ OpenOn(w.name) = {} THEN "label" ELSE "done"
             next == [w EXCEPT !.pc = pc]
  <2>1. next.pc = pc /\ next.reused = w.reused /\ next.promoted = w.promoted
    BY <1>1 DEF Workers
  <2>2. CreatePullRequest(ok) => Continue(ok, next)
    BY DEF CreatePullRequest
  <2> HIDE DEF next
  <2> QED
    BY <1>2, <2>1, <2>2
<1>9. AddLabel(ok) => w'.pc = "idle" \/ UNCHANGED <<w.reused, w.promoted>>
  BY <1>1, <1>2 DEF AddLabel, Workers
<1> QED
  BY <1>3, <1>4, <1>5, <1>6, <1>7, <1>8, <1>9

\* Users settle pull requests; they open none, and take no label away.
LEMMA LabelUserStep ==
    ASSUME Inv, LabelInv, UserStep
    PROVE  LabelInv'
<1>1. ASSUME NEW c \in Contents, ChangeContent(c) PROVE LabelInv'
  BY <1>1 DEF ChangeContent, LabelInv, OwnBranch, Labelling, OnOwnBranch, OpenOn, Open, Numbers
<1>2. ASSUME NEW k \in Numbers, NEW merge \in BOOLEAN, Settle(k, merge) PROVE LabelInv'
  <2>1. /\ UNCHANGED <<branch, w>> /\ SameNumbers
        /\ \A i \in Numbers : pulls'[i].state = IF i = k THEN "settled" ELSE pulls[i].state
    BY <1>2, SettleFacts DEF Inv
  <2>2. \A i \in Numbers : pulls'[i].promoted = pulls[i].promoted
    BY <1>2, PullsFacts DEF Inv, Settle, PullRequests
  <2>3. OwnBranch'
    BY <2>1 DEF SameNumbers, LabelInv, OwnBranch, OnOwnBranch, OpenOn, Open
  <2>4. Labelling'
    BY <2>1, <2>2 DEF SameNumbers, LabelInv, Labelling, OnOwnBranch, Inv, Made
  <2> QED
    BY <2>3, <2>4 DEF LabelInv
<1> QED
  BY <1>1, <1>2 DEF UserStep

LEMMA LabelStep ==
    ASSUME Inv, LabelInv, [Next]_vars
    PROVE  LabelInv'
<1>t. TypeInv /\ TypeInv'
  BY TypeStep DEF Inv
<1>1. ASSUME UNCHANGED vars PROVE LabelInv'
  BY <1>1 DEF vars, LabelInv, OwnBranch, Labelling, OnOwnBranch, OpenOn, Open, Numbers
<1>2. ASSUME NEW name \in Seconds, BeginCreatePR(name) PROVE LabelInv'
  BY <1>2, <1>t, BeginChange, OverLabel
<1>3. ASSUME GetBaseBranch \/ CallFails PROVE LabelInv'
  <2>1. CASE GetBaseBranch
    BY <1>t, <2>1, OverLabel DEF GetBaseBranch, TypeInv, TypeOK, Workers
  <2>2. CASE CallFails
    BY <2>2, OverLabel DEF CallFails, Idle
  <2> QED
    BY <1>3, <2>1, <2>2
<1>4. ASSUME ReuseBranch PROVE LabelInv'
  <2>1. w'.reused
    BY <1>4, <1>t DEF ReuseBranch, TypeInv, TypeOK, Workers
  <2> QED
    BY <2>1 DEF LabelInv, OwnBranch, Labelling, OnOwnBranch
\* The branch is new: nothing can be open on it.
<1>5. ASSUME NEW ok \in BOOLEAN, CreateBranch(ok) PROVE LabelInv'
  <2>1. /\ w.name \in Seconds /\ branch[w.name] = None /\ UNCHANGED pulls /\ branch'[w.name] # None
        /\ (w'.pc = "push" /\ w'.name = w.name /\ w'.tree = w.tree) \/ w'.pc = "idle"
    BY <1>5, <1>t, CreateBranchChange DEF GoesOn
  <2>2. branch'[w.name].fork = w.tree
    BY <1>5, <1>t, <2>1 DEF CreateBranch, TypeInv, TypeOK
  <2>3. OpenOn(w.name) = {}
    BY <1>t, <2>1, OpenHasBranch DEF OpenOn
  <2>4. CASE w'.pc = "push"
    BY <2>1, <2>2, <2>3, <2>4 DEF LabelInv, OwnBranch, Labelling, OnOwnBranch, OpenOn, Open, Numbers
  <2> QED
    BY <2>1, <2>4, OverLabel
<1>6. ASSUME NEW ok \in BOOLEAN, PushCommit(ok) PROVE LabelInv'
  <2>1. /\ w.pc = "push" /\ w.name \in Seconds /\ SameNumbers /\ branch[w.name] # None /\ branch'[w.name] # None
        /\ \A i \in Numbers : pulls'[i].state = pulls[i].state
        /\ \/ w'.pc = "list" /\ w'.name = w.name /\ w'.content = w.content
           \/ w'.pc = "idle"
    BY <1>6, <1>t, PushChange DEF GoesOn
  <2>2. branch'[w.name].fork = branch[w.name].fork
    BY <1>6, <1>t, <2>1, BranchType DEF PushCommit, TypeInv, TypeOK, Branches
  <2>3. CASE w'.pc = "list"
    <3>1. w'.reused = w.reused /\ (w'.promoted <=> IsPromoted(w.tree, w.content))
      BY <1>6, <1>t, <2>3, LabelFields
    <3> QED
      BY <2>1, <2>2, <2>3, <3>1 DEF SameNumbers, LabelInv, OwnBranch, Labelling, OnOwnBranch, OpenOn, Open
  <2> QED
    BY <2>1, <2>3, OverLabel
<1>7. ASSUME NEW trailing \in BOOLEAN, ListPullRequests(trailing) PROVE LabelInv'
  <2>1. /\ w.pc = "list" /\ w'.pc = "clean" /\ w'.name = w.name /\ w'.content = w.content
        /\ UNCHANGED <<branch, pulls>> /\ \A i \in Numbers : i \in w'.old => Open(i)
    BY <1>7, <1>t, ListChange DEF GoesOn
  <2>2. UNCHANGED <<w.reused, w.promoted>>
    BY <1>7, <1>t, LabelFields
  <2> QED
    BY <2>1, <2>2 DEF LabelInv, OwnBranch, Labelling, OnOwnBranch, OpenOn, Open, Numbers
\* Another branch is deleted.
<1>8. ASSUME NEW i \in Numbers, NEW ok \in BOOLEAN, DeletePullRequest(i, ok) PROVE LabelInv'
  <2>1. w.pc = "clean" /\ i \in w.old /\ w.name \in Seconds
    BY <1>8, <1>t DEF DeletePullRequest, TypeInv, InHand
  <2>2. CASE w'.pc # "idle"
    <3>1. ok /\ w'.pc = "clean" /\ w'.name = w.name /\ w'.content = w.content /\ w'.old = w.old \ {i}
      BY <1>8, <1>t, <2>2, DeleteChange DEF GoesOn
    <3>2. /\ SameNumbers /\ \A j \in Numbers : Open(j)' => Open(j)
          /\ SameBranches(Seconds \ {pulls[i].head})
      BY <1>8, <1>t, <3>1, DeleteChange DEF Open
    <3>3. UNCHANGED <<w.reused, w.promoted>>
      BY <1>8, <1>t, <2>2, LabelFields
    <3>4. OnOwnBranch => branch'[w.name] = branch[w.name]
      BY <2>1, <3>2 DEF SameBranches, LabelInv, OwnBranch
    <3> QED
      BY <2>1, <3>1, <3>2, <3>3, <3>4 DEF SameNumbers, LabelInv, OwnBranch, Labelling, OnOwnBranch, OpenOn
  <2> QED
    BY <2>2, OverLabel
<1>9. ASSUME CleanedPullRequests PROVE LabelInv'
  <2>1. /\ w.pc = "clean" /\ w'.pc = "create" /\ w'.name = w.name /\ w'.content = w.content
        /\ UNCHANGED <<branch, pulls>>
    BY <1>9, <1>t DEF CleanedPullRequests, TypeInv, TypeOK, Workers
  <2>2. UNCHANGED <<w.reused, w.promoted>>
    BY <1>9, <1>t, LabelFields
  <2> QED
    BY <2>1, <2>2 DEF LabelInv, OwnBranch, Labelling, OnOwnBranch, OpenOn, Open, Numbers
\* What is made has no label yet: the call labels it next, or none is due.
<1>10. ASSUME NEW ok \in BOOLEAN, CreatePullRequest(ok) PROVE LabelInv'
  <2>1. /\ w.pc = "create" /\ UNCHANGED branch
        /\ \/ w'.pc \in {"label", "done"} /\ w'.name = w.name /\ w'.content = w.content
           \/ w'.pc = "idle"
    BY <1>10, <1>t, CreateChange DEF GoesOn
  <2>2. CASE w'.pc # "idle"
    <3>1. /\ UNCHANGED <<w.reused, w.promoted>>
          /\ w'.pc = IF w.promoted /\ OpenOn(w.name) = {} THEN "label" ELSE "done"
      BY <1>10, <1>t, <2>2, LabelFields
    <3> QED
      BY <2>1, <2>2, <3>1 DEF LabelInv, OwnBranch, Labelling, OnOwnBranch
  <2> QED
    BY <2>1, <2>2, OverLabel
<1>11. ASSUME NEW ok \in BOOLEAN, AddLabel(ok) PROVE LabelInv'
  <2>1. /\ w.pc = "label" /\ UNCHANGED branch /\ SameNumbers
        /\ \/ w'.pc = "done" /\ w'.name = w.name /\ w'.content = w.content
           \/ w'.pc = "idle"
    BY <1>11, <1>t, AddLabelChange DEF GoesOn
  <2>2. pulls'[Len(pulls')].promoted
    <3>1. Len(pulls) \in Numbers /\ pulls[Len(pulls)] \in PullRequests /\ Len(pulls') = Len(pulls)
      BY <1>t, <2>1, PullsFacts DEF SameNumbers, TypeInv, InHand
    <3> QED
      BY <1>11, <1>t, <3>1, PullsFacts DEF AddLabel, PullRequests
  <2>3. CASE w'.pc = "done"
    <3>1. UNCHANGED <<w.reused, w.promoted>>
      BY <1>11, <1>t, <2>3, LabelFields
    <3> QED
      BY <2>1, <2>2, <2>3, <3>1 DEF LabelInv, OwnBranch, Labelling, OnOwnBranch
  <2> QED
    BY <2>1, <2>3, OverLabel
<1>12. ASSUME Return PROVE LabelInv'
  BY <1>12, <1>t, ReturnChange, OverLabel
<1> QED
  BY <1>1, <1>2, <1>3, <1>4, <1>5, <1>6, <1>7, <1>8, <1>9, <1>10, <1>11, <1>12, LabelUserStep
     DEF Next, Begin, WorkerStep

\* A call that makes its own branch and succeeds has labelled the pull request of a new
\* promoted commit, whatever fails and whatever users settle while it runs.
THEOREM PromotionsLabelled == Spec => []PromotionLabelled
<1>1. LabelInv => PromotionLabelled
  BY DEF LabelInv, OwnBranch, Labelling, OnOwnBranch, IsPromoted, PromotionLabelled
<1> QED
  BY <1>1, LabelInit, LabelStep, Invariance, PTL DEF Spec
=============================================================================
