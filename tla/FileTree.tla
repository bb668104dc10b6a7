------------------------------ MODULE FileTree ------------------------------
(***************************************************************************)
(* Directories copied and deleted: copyDir(), deleteDir() and children()   *)
(* of the POSIX file system, as the handlers that add and delete model     *)
(* versions call them, at the same time.  copyFile() is a callback of      *)
(* nftw() and learns the two roots from variables all threads share.       *)
(*                                                                         *)
(* A path is a sequence of names under a root.  All roots have names of    *)
(* one length, so that a root in the place of another one is cut alike.    *)
(***************************************************************************)
EXTENDS Integers, Sequences, SequencesExt, FiniteSetsExt

CONSTANTS FtUsers,     \* handlers
          FtSources,   \* source root |-> its tree, [path -> data]
          FtVersions,  \* 1 .. n: the names a new version directory may get
          NoRoot       \* an empty srcRoot or dstRoot

\* A source is a directory, or is not there: what is in it has its parent there.
FtPath == Seq(STRING)
FtTree(tree) ==
  /\ DOMAIN tree \subseteq FtPath
  /\ \A p \in DOMAIN tree :
       IF p = <<>> THEN tree[p] = "dir" ELSE Front(p) \in DOMAIN tree /\ tree[Front(p)] = "dir"
ASSUME FtSourcesAreTrees ==
  /\ NoRoot \notin DOMAIN FtSources \cup FtVersions
  /\ \A r \in DOMAIN FtSources : FtTree(FtSources[r]) /\ FtSources[r] \in [DOMAIN FtSources[r] -> STRING]

VARIABLES
  ftTree,     \* root |-> its tree; an absent root has an empty one
  ftSrcRoot, ftDstRoot,  \* OperateDir::srcRoot, dstRoot
  ftJob,      \* what each handler does
  ftDisturbed \* handlers whose call was overlapped by one that may spoil it

ftvars == <<ftTree, ftSrcRoot, ftDstRoot, ftJob, ftDisturbed>>

Roots == DOMAIN ftTree
Here(root) == ftTree[root] # << >>
IsFolder(tree, path) == path \in DOMAIN tree /\ tree[path] = "dir"
Under(tree, path) == {p \in DOMAIN tree : Len(p) = Len(path) + 1 /\ IsPrefix(path, p)}
Less(tree, paths) == [p \in DOMAIN tree \ paths |-> tree[p]]
More(tree, path, data) == [p \in DOMAIN tree \cup {path} |-> IF p = path THEN data ELSE tree[p]]

Idle == [at |-> "idle", op |-> "none", from |-> NoRoot, to |-> NoRoot, todo |-> {}, wanted |-> << >>]

FtInit ==
  /\ ftTree = [r \in DOMAIN FtSources \cup FtVersions |-> IF r \in DOMAIN FtSources THEN FtSources[r] ELSE << >>]
  /\ ftSrcRoot = NoRoot /\ ftDstRoot = NoRoot
  /\ ftJob = [u \in FtUsers |-> Idle]
  /\ ftDisturbed = {}
-----------------------------------------------------------------------------
Active(u) == ftJob[u].at \notin {"idle", "chosen", "done"}
Touched(job) == {job.from, job.to}

\* A copy spoils every copy, through the roots; a deletion what it touches.
Spoils(a, b) == (a.op = "copy" /\ b.op = "copy") \/ a.to \in Touched(b) \/ b.to \in Touched(a)

Enter(u, job) ==
  LET others == {v \in FtUsers \ {u} : Active(v) /\ Spoils(job, ftJob[v])}
  IN /\ ftJob' = [ftJob EXCEPT ![u] = job]
     /\ ftDisturbed' = IF others = {} THEN ftDisturbed \ {u} ELSE ftDisturbed \cup others \cup {u}

Continue(u, job) == ftJob' = [ftJob EXCEPT ![u] = job] /\ UNCHANGED ftDisturbed
-----------------------------------------------------------------------------
\* VersionDirectoryState: what is in the directory of the model.
Listed == {v \in FtVersions : Here(v)}
NextVersion == Max(Listed \cup {0}) + 1

\* addModelVersion() reads the versions and then copies, without a lock.
ChooseTarget(u, from) ==
  /\ ftJob[u].at \in {"idle", "done"}
  /\ NextVersion \in FtVersions
  /\ Continue(u, [Idle EXCEPT !.at = "chosen", !.from = from, !.to = NextVersion])
  /\ UNCHANGED <<ftTree, ftSrcRoot, ftDstRoot>>

\* copyDir() of a source that does not exist.
CopyNothing(u) ==
  /\ ftJob[u].at = "chosen" /\ ~Here(ftJob[u].from)
  /\ Continue(u, Idle)
  /\ UNCHANGED <<ftTree, ftSrcRoot, ftDstRoot>>

CopyDir(u) ==
  /\ ftJob[u].at = "chosen" /\ Here(ftJob[u].from)
  /\ Enter(u, [ftJob[u] EXCEPT !.at = "dst", !.op = "copy",
                 !.wanted = IF Here(ftJob[u].to) THEN << >> ELSE ftTree[ftJob[u].from]])
  /\ ftSrcRoot' = ftJob[u].from
  /\ UNCHANGED <<ftTree, ftDstRoot>>

SetDstRoot(u) ==
  /\ ftJob[u].at = "dst"
  /\ ftDstRoot' = ftJob[u].to
  /\ Continue(u, [ftJob[u] EXCEPT !.at = "walk", !.todo = {<<>>}])
  /\ UNCHANGED <<ftTree, ftSrcRoot>>

\* dstPath: with the roots of this or another copy, with none, where a file
\* is its own copy, or with one of them, which leads out of all roots.
Destination(from) ==
  CASE ftSrcRoot # NoRoot /\ ftDstRoot # NoRoot -> {ftDstRoot}
    [] ftSrcRoot = NoRoot /\ ftDstRoot = NoRoot -> {from}
    [] OTHER -> {}

\* mkdir(): the parent is there and the name is not.
CanMake(root, path) ==
  path \notin DOMAIN ftTree[root] /\ (path = <<>> \/ IsFolder(ftTree[root], Front(path)))

\* A file is opened, which empties it, and then written; that it cannot be
\* opened is not noticed.
CanWrite(root, path) ==
  /\ ~IsFolder(ftTree[root], path)
  /\ path \in DOMAIN ftTree[root] \/ (path # <<>> /\ IsFolder(ftTree[root], Front(path)))

StopsWalk(u, path) ==
  LET from == ftTree[ftJob[u].from]
  IN IsFolder(from, path) /\ \A root \in Destination(ftJob[u].from) : ~CanMake(root, path)

\* copyFile(); nftw() opens a directory once its callback has returned.
CopyEntry(u, path) ==
  LET job == ftJob[u]
      from == ftTree[job.from]
      dst == Destination(job.from)
  IN /\ job.at = "walk" /\ job.op = "copy" /\ path \in job.todo
     /\ ~StopsWalk(u, path)
     /\ Continue(u, [job EXCEPT !.todo = (@ \ {path}) \cup IF IsFolder(from, path) THEN Under(from, path) ELSE {}])
     /\ ftTree' = [r \in Roots |->
          IF r \notin dst \/ path \notin DOMAIN from THEN ftTree[r]
          ELSE IF IsFolder(from, path) THEN More(ftTree[r], path, "dir")
          ELSE IF CanWrite(r, path) THEN More(ftTree[r], path, IF r = job.from THEN "emptied" ELSE from[path])
          ELSE ftTree[r]]
     /\ UNCHANGED <<ftSrcRoot, ftDstRoot>>

\* The status of the walk is not used: copyDir() has succeeded.
EndWalk(u) ==
  LET job == ftJob[u]
  IN /\ job.at = "walk" /\ job.op = "copy"
     /\ job.todo = {} \/ \E path \in job.todo : StopsWalk(u, path)
     /\ ftSrcRoot' = NoRoot
     /\ Continue(u, [job EXCEPT !.at = "clear", !.todo = {}])
     /\ UNCHANGED <<ftTree, ftDstRoot>>

ClearDstRoot(u) ==
  /\ ftJob[u].at = "clear"
  /\ ftDstRoot' = NoRoot
  /\ Continue(u, [ftJob[u] EXCEPT !.at = "done"])
  /\ UNCHANGED <<ftTree, ftSrcRoot>>
-----------------------------------------------------------------------------
\* deleteDir(), of a version that is there; of another one it does nothing.
DeleteDir(u, root) ==
  /\ ftJob[u].at \in {"idle", "done"} /\ Here(root)
  /\ Enter(u, [Idle EXCEPT !.at = "walk", !.op = "delete", !.to = root, !.todo = DOMAIN ftTree[root]])
  /\ UNCHANGED <<ftTree, ftSrcRoot, ftDstRoot>>

\* Mutant: like Deepest, but without FTW_DEPTH.
DeepestAny(paths) == {p \in paths : ~ \E q \in paths : Len(q) < Len(p) /\ IsPrefix(q, p)}

\* FTW_DEPTH: the entries of a directory come before it.
Deepest(paths) == {p \in paths : ~ \E q \in paths : Len(q) > Len(p) /\ IsPrefix(p, q)}

\* rmFile(), which stops the walk if the entry is gone or has got entries.
RemoveEntry(u, path) ==
  LET job == ftJob[u]
      tree == ftTree[job.to]
      removed == path \in DOMAIN tree /\ Under(tree, path) = {}
      rest == IF removed THEN job.todo \ {path} ELSE {}
  IN /\ job.at = "walk" /\ job.op = "delete" /\ path \in Deepest(job.todo)
     /\ ftTree' = [ftTree EXCEPT ![job.to] = IF removed THEN Less(tree, {path}) ELSE tree]
     /\ Continue(u, [job EXCEPT !.todo = rest, !.at = IF rest = {} THEN "done" ELSE "walk"])
     /\ UNCHANGED <<ftSrcRoot, ftDstRoot>>

FtNext == \E u \in FtUsers :
            \/ CopyNothing(u) \/ CopyDir(u) \/ SetDstRoot(u) \/ EndWalk(u) \/ ClearDstRoot(u)
            \/ \E from \in DOMAIN FtSources : ChooseTarget(u, from)
            \/ \E path \in ftJob[u].todo : CopyEntry(u, path) \/ RemoveEntry(u, path)
            \/ \E root \in FtVersions : DeleteDir(u, root)
FtSpec == FtInit /\ [][FtNext]_ftvars
-----------------------------------------------------------------------------
\* When a copy into a new directory returns, the directory is the source as
\* it was, and when a deletion returns the directory is gone, unless another
\* copy ran meanwhile or somebody deleted or copied the same directory: a
\* deletion beside a copy does no harm.
WalksAreExact ==
  [][\A u \in FtUsers \ ftDisturbed :
       Active(u) /\ ftJob'[u].at = "done" =>
         CASE ftJob[u].op = "copy" -> ftJob[u].wanted # << >> => /\ ftTree'[ftJob[u].to] = ftJob[u].wanted
                                                               /\ ftTree'[ftJob[u].from] = ftJob[u].wanted
           [] ftJob[u].op = "delete" -> ftTree'[ftJob[u].to] = << >>]_ftvars
=============================================================================
