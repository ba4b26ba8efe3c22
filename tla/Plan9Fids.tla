----------------------------- MODULE Plan9Fids -----------------------------
(***************************************************************************)
(* The 9p file system's fids and files (plan9/fs.go, fid.go, ops.go,       *)
(* file.go): how concurrent requests share the fid pool and the map from   *)
(* paths to File objects, both reference counted.                          *)
(*                                                                         *)
(* Every request runs in a goroutine of its own (virtio_fs.go), so Handle  *)
(* is cut where another goroutine can come in between: at each atomic      *)
(* AddInt32 and at each critical section of fidLock and filesLock.  Both   *)
(* locks are held for one such section only, except by the lookup that     *)
(* loses its race and waits for the filesLock it holds.                    *)
(*                                                                         *)
(* What lies on the disk is left open: whether a path exists and whether a *)
(* system call fails is a free choice wherever the code asks.  A request   *)
(* is known by its tag.  The client numbers its fids, does not use a fid   *)
(* it has clunked, and sends nothing else on a fid while a request that    *)
(* rewrites it (a create, or a walk onto itself) is outstanding.  Rename   *)
(* (file.go:563) is not modelled.                                          *)
(***************************************************************************)
EXTENDS Naturals, FiniteSets, Sequences

CONSTANTS
  Tags,      \* the tags of concurrent requests
  Fids,      \* the fid numbers of the client
  NoFid,     \* no fid: an attach has none
  Files,     \* File objects
  RootFile,  \* the File that fs.root refers to
  NoFile,    \* no entry in the map
  Paths,     \* canonical paths
  Root,      \* "/"
  Parent,    \* filepath.Dir on Paths
  NoTag,     \* filesLock is free
  MaxNames,  \* bound on the names of one walk
  Ops        \* the kinds of requests the client sends

ASSUME FiniteNumbers == IsFiniteSet(Tags) /\ IsFiniteSet(Fids)
ASSUME NoTagFresh == NoTag \notin Tags
ASSUME NoFidFresh == NoFid \notin Fids
ASSUME FilesKnown == RootFile \in Files /\ NoFile \notin Files
ASSUME ParentType == Root \in Paths /\ Parent \in [Paths -> Paths] /\ Parent[Root] = Root
ASSUME MaxNamesType == MaxNames \in Nat

VARIABLES
  files,      \* fs.files: the File of each path, or NoFile
  refs,       \* File.refs
  filesLock,  \* NoTag, or the request that waits for the lock it holds
  pool,       \* the numbers in fs.Pool
  fids,       \* the Fid of each number; "owned" until the client gives it up
  rq          \* the request of each tag

vars == <<files, refs, filesLock, pool, fids, rq>>

\* A reference to a File, and the path that DecRef is to be called with.
Refs == [file : Files, path : Paths]

PCs == {"idle", "begin", "step", "seek", "insert", "found", "build", "built",
        "mkdir", "newfid", "move", "finish", "reapfid", "drop", "reap", "stuck"}

\* held: the references in local variables, the innermost call's last.
\* drop: the argument of the DecRef under way, and then: where it returns to.
Requests ==
  [pc : PCs, op : Ops \cup {"none"}, fid : Fids \cup {NoFid}, newfid : Fids \cup {NoFid},
   path : Paths, held : Seq(Refs), drop : Refs, then : PCs, ok : BOOLEAN,
   names : 0 .. MaxNames, todo : SUBSET Paths]

Idle ==
  [pc |-> "idle", op |-> "none", fid |-> NoFid, newfid |-> NoFid,
   path |-> Root, held |-> <<>>, drop |-> [file |-> RootFile, path |-> Root],
   then |-> "idle", ok |-> FALSE, names |-> 0, todo |-> {}]

FreeFid == [refs |-> 0, path |-> Root, file |-> RootFile, opened |-> FALSE, owned |-> FALSE]

\* Attach, at setup, has looked up "/": fs.root keeps that reference.
Init ==
  /\ files = [p \in Paths |-> IF p = Root THEN RootFile ELSE NoFile]
  /\ refs = [f \in Files |-> IF f = RootFile THEN 1 ELSE 0]
  /\ filesLock = NoTag
  /\ pool = {}
  /\ fids = [n \in Fids |-> FreeFid]
  /\ rq = [r \in Tags |-> Idle]

----------------------------------------------------------------------------
Children(p) == {q \in Paths \ {Root} : Parent[q] = p}

At(r, pc) == rq[r].pc = pc
Locked == filesLock # NoTag

\* A request that reaches "idle" has been answered.
Set(r, new) == rq' = [rq EXCEPT ![r] = IF new.pc = "idle" THEN Idle ELSE new]
Goto(r, pc) == Set(r, [rq[r] EXCEPT !.pc = pc])

MyFid(r) == fids[rq[r].fid]
FidRef(r) == [file |-> MyFid(r).file, path |-> MyFid(r).path]
Top(r) == rq[r].held[Len(rq[r].held)]
Pop(r) == SubSeq(rq[r].held, 1, Len(rq[r].held) - 1)

\* file.DecRef is called on ref, a reference that is not on the stack "held".
DecRef(r, ref, held, then) ==
  Set(r, [rq[r] EXCEPT !.drop = ref, !.held = held, !.then = then, !.pc = "drop"])

\* DecRef is done.
Return(r) ==
  Set(r, [rq[r] EXCEPT !.pc = rq[r].then, !.drop = Idle.drop, !.then = "idle"])

\* File objects nothing refers to: NewFile may return any of them.
Unused ==
  {f \in Files \ {RootFile} :
     /\ \A p \in Paths : files[p] # f
     /\ \A n \in pool : fids[n].file # f
     /\ \A r \in Tags : /\ rq[r].drop.file # f
                        /\ \A i \in 1 .. Len(rq[r].held) : rq[r].held[i].file # f}

----------------------------------------------------------------------------
(* fid.go: GetFid, NewFid, DecRef; and Handle around them.                 *)

\* Requests that assign to the Fid outside every lock, and those that give
\* it up.
Rewrites(op, n, m) == op = "create" \/ (op = "walk" /\ n = m)
Closes(op) == op \in {"clunk", "remove"}

\* The client sends a request on fid n, and Handle looks the fid up.
Start(r, op, n, m) ==
  /\ At(r, "idle")
  /\ n \in pool
  /\ fids[n].owned
  /\ \A s \in Tags : rq[s].fid = n =>
       /\ ~Rewrites(op, n, m)
       /\ ~Rewrites(rq[s].op, n, rq[s].newfid)
       /\ ~Closes(rq[s].op)
  /\ fids' = [fids EXCEPT ![n].refs = @ + 1]
  /\ Set(r, [Idle EXCEPT !.pc = "begin", !.op = op, !.fid = n, !.newfid = m])
  /\ UNCHANGED <<files, refs, filesLock, pool>>

StartOp(r) ==
  \E n \in Fids :
    \/ "walk" \in Ops /\ \E m \in Fids : Start(r, "walk", n, m)
    \/ \E op \in Ops \ {"attach", "walk"} : Start(r, op, n, NoFid)

\* NewFid puts the fid in the pool, or finds the number in use; the caller
\* then drops the file's reference.
PutFid(r) ==
  /\ At(r, "newfid")
  /\ IF rq[r].newfid \in pool
     THEN DecRef(r, Top(r), <<>>, "finish") /\ UNCHANGED <<pool, fids>>
     ELSE /\ pool' = pool \cup {rq[r].newfid}
          /\ fids' = [fids EXCEPT ![rq[r].newfid] =
                        [refs |-> 1, path |-> Top(r).path, file |-> Top(r).file,
                         opened |-> FALSE, owned |-> TRUE]]
          /\ Set(r, [rq[r] EXCEPT !.held = <<>>, !.pc = "finish"])
  /\ UNCHANGED <<files, refs, filesLock>>

\* Faulty variant: a clunk keeps the reference of its request.
FinishNotAfterClunk(r) ==
  /\ At(r, "finish")
  /\ IF rq[r].fid = NoFid \/ rq[r].op = "clunk"
     THEN Goto(r, "idle") /\ UNCHANGED fids
     ELSE /\ fids' = [fids EXCEPT ![rq[r].fid].refs = @ - 1]
          /\ Goto(r, IF MyFid(r).refs = 1 THEN "reapfid" ELSE "idle")
  /\ UNCHANGED <<files, refs, filesLock, pool>>

\* Faulty variant: only the clunk takes its fid out of the pool.
FinishOnlyClunkReaps(r) ==
  /\ At(r, "finish")
  /\ IF rq[r].fid = NoFid
     THEN Goto(r, "idle") /\ UNCHANGED fids
     ELSE /\ fids' = [fids EXCEPT ![rq[r].fid].refs = @ - 1]
          /\ Goto(r, IF MyFid(r).refs = 1 /\ Closes(rq[r].op) THEN "reapfid" ELSE "idle")
  /\ UNCHANGED <<files, refs, filesLock, pool>>

\* Handle returns: the deferred fid.DecRef.
Finish(r) ==
  /\ At(r, "finish")
  /\ IF rq[r].fid = NoFid
     THEN Goto(r, "idle") /\ UNCHANGED fids
     ELSE /\ fids' = [fids EXCEPT ![rq[r].fid].refs = @ - 1]
          /\ Goto(r, IF MyFid(r).refs = 1 THEN "reapfid" ELSE "idle")
  /\ UNCHANGED <<files, refs, filesLock, pool>>

\* The rest of Fid.DecRef, under fidLock.
ReapFid(r) ==
  /\ At(r, "reapfid")
  /\ IF MyFid(r).refs # 0
     THEN Goto(r, "idle") /\ UNCHANGED <<pool, fids>>
     ELSE /\ pool' = pool \ {rq[r].fid}
          /\ fids' = [fids EXCEPT ![rq[r].fid] = FreeFid]
          /\ DecRef(r, FidRef(r), <<>>, "idle")
  /\ UNCHANGED <<files, refs, filesLock>>

----------------------------------------------------------------------------
(* file.go: File.DecRef and lookup.                                        *)

\* The atomic decrement.
Drop(r) ==
  /\ At(r, "drop")
  /\ LET f == rq[r].drop.file IN
     /\ refs' = [refs EXCEPT ![f] = @ - 1]
     /\ IF refs[f] = 1 THEN Goto(r, "reap") ELSE Return(r)
  /\ UNCHANGED <<files, filesLock, pool, fids>>

\* Under filesLock: the entry of the path goes, whatever File it holds.  The
\* root is in the map as "", and DecRef is called with "/".
Reap(r) ==
  /\ At(r, "reap")
  /\ ~Locked
  /\ LET d == rq[r].drop IN
     files' = IF refs[d.file] # 0 \/ d.path = Root
              THEN files
              ELSE [files EXCEPT ![d.path] = NoFile]
  /\ Return(r)
  /\ UNCHANGED <<refs, filesLock, pool, fids>>

\* The path's File is found: one more reference, on the stack.
Push(r, f) ==
  Set(r, [rq[r] EXCEPT !.held = Append(@, [file |-> f, path |-> rq[r].path]), !.pc = "found"])

\* lookup, under the read lock.
Seek(r) ==
  /\ At(r, "seek")
  /\ ~Locked
  /\ LET f == files[rq[r].path] IN
     IF f # NoFile
     THEN refs' = [refs EXCEPT ![f] = @ + 1] /\ Push(r, f)
     ELSE UNCHANGED refs /\ Goto(r, "insert")
  /\ UNCHANGED <<files, filesLock, pool, fids>>

\* lookup, under the write lock, with the File that NewFile has made.  If the
\* race is lost, newfile.DecRef takes its only reference and locks filesLock
\* once more.
LookupLost(r) ==
  /\ files[rq[r].path] # NoFile
  /\ filesLock' = r
  /\ Goto(r, "stuck")
  /\ UNCHANGED <<files, refs>>

\* Faulty variant: the error returns with filesLock held.
LookupFailedKeepsLock(r) ==
  /\ files[rq[r].path] = NoFile
  /\ rq[r].op = "remove" => rq[r].held # <<>>
  /\ filesLock' = r
  /\ Goto(r, IF rq[r].held # <<>> THEN "built" ELSE "finish")
  /\ UNCHANGED <<files, refs>>

\* NewFile has failed.  makeTree returns the error to the File.create that
\* called it; to the others no File is the end.  (The File.remove that called
\* makeTree unlocks its mutex twice then, file.go:413 and 424, which ends the
\* process: that error is left out.)
LookupFailed(r) ==
  /\ files[rq[r].path] = NoFile
  /\ rq[r].op = "remove" => rq[r].held # <<>>
  /\ Goto(r, IF rq[r].held # <<>> THEN "built" ELSE "finish")
  /\ UNCHANGED <<files, refs, filesLock>>

LookupAdded(r) ==
  /\ files[rq[r].path] = NoFile
  /\ Unused # {}
  /\ LET f == CHOOSE f \in Unused : TRUE IN
     /\ files' = [files EXCEPT ![rq[r].path] = f]
     /\ refs' = [refs EXCEPT ![f] = 1]
     /\ Push(r, f)
  /\ UNCHANGED filesLock

Insert(r) ==
  /\ At(r, "insert")
  /\ ~Locked
  /\ LookupLost(r) \/ LookupFailed(r) \/ LookupAdded(r)
  /\ UNCHANGED <<pool, fids>>

----------------------------------------------------------------------------
(* ops.go: attach and walk.                                                *)

\* The client sends an attach; root.IncRef is its first step.
Attach(r) ==
  /\ "attach" \in Ops
  /\ At(r, "idle")
  /\ ~Locked
  /\ refs' = [refs EXCEPT ![RootFile] = @ + 1]
  /\ \E m \in Fids :
       Set(r, [Idle EXCEPT !.pc = "newfid", !.op = "attach", !.newfid = m,
                           !.held = <<[file |-> RootFile, path |-> Root]>>])
  /\ UNCHANGED <<files, filesLock, pool, fids>>

\* fid.file.IncRef.
Walk(r) ==
  /\ At(r, "begin") /\ rq[r].op = "walk"
  /\ ~Locked
  /\ refs' = [refs EXCEPT ![MyFid(r).file] = @ + 1]
  /\ Set(r, [rq[r] EXCEPT !.held = <<FidRef(r)>>, !.names = MaxNames, !.pc = "step"])
  /\ UNCHANGED <<files, filesLock, pool, fids>>

\* Faulty variant: the file is dropped with the path of the next one.
WalkNameJoinsFirst(r) ==
  /\ At(r, "step") /\ rq[r].op = "walk"
  /\ rq[r].names > 0
  /\ \E p \in Children(Top(r).path) \cup {Parent[Top(r).path]} :
       Set(r, [rq[r] EXCEPT !.path = p, !.names = @ - 1,
                            !.drop = [file |-> Top(r).file, path |-> p],
                            !.held = <<>>, !.then = "seek", !.pc = "drop"])
  /\ UNCHANGED <<files, refs, filesLock, pool, fids>>

\* One more name: a child, or "..".  The reference is dropped before the
\* lookup.
WalkName(r) ==
  /\ At(r, "step") /\ rq[r].op = "walk"
  /\ rq[r].names > 0
  /\ \E p \in Children(Top(r).path) \cup {Parent[Top(r).path]} :
       Set(r, [rq[r] EXCEPT !.path = p, !.names = @ - 1, !.drop = Top(r),
                            !.held = <<>>, !.then = "seek", !.pc = "drop"])
  /\ UNCHANGED <<files, refs, filesLock, pool, fids>>

WalkFound(r) ==
  /\ At(r, "found") /\ rq[r].op = "walk"
  /\ \/ Goto(r, "step")
     \/ DecRef(r, Top(r), <<>>, "finish")
  /\ UNCHANGED <<files, refs, filesLock, pool, fids>>

\* Faulty variant: the fid's old file keeps its reference.
WalkEndKeepsOldFile(r) ==
  /\ At(r, "step") /\ rq[r].op = "walk"
  /\ Goto(r, IF rq[r].newfid = rq[r].fid THEN "move" ELSE "newfid")
  /\ UNCHANGED <<files, refs, filesLock, pool, fids>>

\* The last name: a new fid, or the fid of the request moves.
WalkEnd(r) ==
  /\ At(r, "step") /\ rq[r].op = "walk"
  /\ IF rq[r].newfid = rq[r].fid
     THEN DecRef(r, FidRef(r), rq[r].held, "move")
     ELSE Goto(r, "newfid")
  /\ UNCHANGED <<files, refs, filesLock, pool, fids>>

\* The fid of a walk gets the path and the File; the fid of a create
\* (createPost) gets the File.
Move(r) ==
  /\ At(r, "move")
  /\ fids' = [fids EXCEPT ![rq[r].fid] =
                [@ EXCEPT !.file = Top(r).file,
                          !.path = IF rq[r].op = "walk" THEN Top(r).path ELSE MyFid(r).path,
                          !.opened = (rq[r].op = "create")]]
  /\ Set(r, [rq[r] EXCEPT !.held = <<>>, !.pc = "finish"])
  /\ UNCHANGED <<files, refs, filesLock, pool>>

----------------------------------------------------------------------------
(* ops.go: open, read, write, stat, clunk.                                 *)

Open(r) ==
  /\ At(r, "begin") /\ rq[r].op = "open"
  /\ \E packed \in BOOLEAN :
       fids' = [fids EXCEPT ![rq[r].fid].opened = @ \/ packed]
  /\ Goto(r, "finish")
  /\ UNCHANGED <<files, refs, filesLock, pool>>

\* readDir: the children of the path, or nothing to look up (a read of a file
\* or of cached entries, a stat, a write).
Read(r) ==
  /\ At(r, "begin") /\ rq[r].op = "read"
  /\ \E names \in SUBSET Children(MyFid(r).path) :
       Set(r, [rq[r] EXCEPT !.todo = names, !.pc = "step"])
  /\ UNCHANGED <<files, refs, filesLock, pool, fids>>

ReadStep(r) ==
  /\ At(r, "step") /\ rq[r].op = "read"
  /\ IF rq[r].todo = {}
     THEN Goto(r, "finish")
     ELSE \E p \in rq[r].todo :
            Set(r, [rq[r] EXCEPT !.path = p, !.todo = @ \ {p}, !.pc = "seek"])
  /\ UNCHANGED <<files, refs, filesLock, pool, fids>>

\* Faulty variant: the child is not dropped when its stat fails.
ReadFoundLeaksOnError(r) ==
  /\ At(r, "found") /\ rq[r].op = "read"
  /\ \/ DecRef(r, Top(r), <<>>, "step")
     \/ Set(r, [rq[r] EXCEPT !.held = <<>>, !.pc = "finish"])
  /\ UNCHANGED <<files, refs, filesLock, pool, fids>>

\* Deleted, or its stat taken; if the stat failed, children returns.
ReadFound(r) ==
  /\ At(r, "found") /\ rq[r].op = "read"
  /\ \E then \in {"step", "finish"} : DecRef(r, Top(r), <<>>, then)
  /\ UNCHANGED <<files, refs, filesLock, pool, fids>>

\* clunkPost drops the reference of the pool, if the answer could be packed.
Clunk(r) ==
  /\ At(r, "begin") /\ rq[r].op = "clunk"
  /\ \/ UNCHANGED fids
     \/ fids' = [fids EXCEPT ![rq[r].fid] = [@ EXCEPT !.refs = MyFid(r).refs - 1, !.owned = FALSE]]
  /\ Goto(r, "finish")
  /\ UNCHANGED <<files, refs, filesLock, pool>>

----------------------------------------------------------------------------
(* ops.go: create and remove; file.go: create, remove and makeTree, which  *)
(* looks up and creates the directory above, and so on to the root.        *)

\* create: refused (opened, no directory), or the new path is looked up.
Create(r) ==
  /\ At(r, "begin") /\ rq[r].op = "create"
  /\ \/ Goto(r, "finish")
     \/ /\ ~MyFid(r).opened
        /\ \E p \in Children(MyFid(r).path) : Set(r, [rq[r] EXCEPT !.path = p, !.pc = "seek"])
  /\ UNCHANGED <<files, refs, filesLock, pool, fids>>

\* remove gives up the fid first; then File.remove, unless the answer cannot
\* be packed or the unlink fails, calls makeTree.  The client never removes
\* the root.
Remove(r) ==
  /\ At(r, "begin") /\ rq[r].op = "remove"
  /\ fids' = [fids EXCEPT ![rq[r].fid] = [@ EXCEPT !.refs = MyFid(r).refs - 1, !.owned = FALSE]]
  /\ \/ Goto(r, "finish")
     \/ /\ MyFid(r).file # RootFile
        /\ Set(r, [rq[r] EXCEPT !.path = Parent[MyFid(r).path], !.pc = "seek"])
  /\ UNCHANGED <<files, refs, filesLock, pool>>

BuildFound(r) ==
  /\ At(r, "found") /\ rq[r].op \in {"create", "remove"}
  /\ Goto(r, "build")
  /\ UNCHANGED <<files, refs, filesLock, pool, fids>>

\* File.create on the top of the stack: the file exists, or an unlink fails;
\* or makeTree.  The root exists in the write layer.
Build(r) ==
  /\ At(r, "build")
  /\ \/ Set(r, [rq[r] EXCEPT !.ok = FALSE, !.pc = "built"])
     \/ /\ Top(r).path # Root
        /\ Set(r, [rq[r] EXCEPT !.ok = FALSE, !.path = Parent[Top(r).path], !.pc = "seek"])
  /\ UNCHANGED <<files, refs, filesLock, pool, fids>>

\* makeTree has returned; the rest of File.create, or of File.remove.
Mkdir(r) ==
  /\ At(r, "mkdir")
  /\ IF rq[r].held = <<>>
     THEN Goto(r, "finish")
     ELSE \E ok \in BOOLEAN : Set(r, [rq[r] EXCEPT !.ok = ok, !.pc = "built"])
  /\ UNCHANGED <<files, refs, filesLock, pool, fids>>

\* File.create has returned.  In makeTree the result is ignored and the
\* parent dropped.
BuiltParent(r) ==
  /\ At(r, "built")
  /\ rq[r].op = "remove" \/ Len(rq[r].held) > 1
  /\ DecRef(r, Top(r), Pop(r), "mkdir")
  /\ UNCHANGED <<files, refs, filesLock, pool, fids>>

\* In create: after a failure of File.create or (createFail) of the packing
\* the new file is dropped; otherwise (createPost) the fid moves.
CreateEnd(r) ==
  /\ At(r, "built")
  /\ rq[r].op = "create" /\ Len(rq[r].held) = 1
  /\ \/ DecRef(r, Top(r), <<>>, "finish")
     \/ rq[r].ok /\ DecRef(r, FidRef(r), rq[r].held, "move")
  /\ UNCHANGED <<files, refs, filesLock, pool, fids>>

----------------------------------------------------------------------------
Handle(r) ==
  \/ PutFid(r) \/ Finish(r) \/ ReapFid(r)
  \/ Drop(r) \/ Reap(r) \/ Seek(r) \/ Insert(r)
  \/ Walk(r) \/ WalkName(r) \/ WalkFound(r) \/ WalkEnd(r) \/ Move(r)
  \/ Open(r) \/ Read(r) \/ ReadStep(r) \/ ReadFound(r) \/ Clunk(r)
  \/ Create(r) \/ Remove(r) \/ BuildFound(r) \/ Build(r) \/ Mkdir(r)
  \/ BuiltParent(r) \/ CreateEnd(r)

Next == \E r \in Tags : Attach(r) \/ StartOp(r) \/ Handle(r)

\* Every goroutine runs on; what the client sends is its own choice.
Fairness == \A r \in Tags : WF_vars(Handle(r))

Spec == Init /\ [][Next]_vars /\ Fairness

----------------------------------------------------------------------------
TypeOK ==
  /\ files \in [Paths -> Files \cup {NoFile}]
  /\ refs \in [Files -> Nat]
  /\ filesLock \in Tags \cup {NoTag}
  /\ pool \subseteq Fids
  /\ fids \in [Fids -> [refs : Nat, path : Paths, file : Files,
                       opened : BOOLEAN, owned : BOOLEAN]]
  /\ rq \in [Tags -> Requests]

\* Between the DecRef on the old file and the assignment of the new one the
\* fid has no reference of its own.
Moving(r) == At(r, "move") \/ (rq[r].pc \in {"drop", "reap"} /\ rq[r].then = "move")

FidOwners(f) ==
  {n \in pool : fids[n].file = f /\ \A r \in Tags : rq[r].fid = n => ~Moving(r)}
HeldRefs(f) ==
  UNION {{<<r, i>> : i \in {j \in 1 .. Len(rq[r].held) : rq[r].held[j].file = f}} : r \in Tags}
DroppedRefs(f) == {r \in Tags : At(r, "drop") /\ rq[r].drop.file = f}

\* No reference to a File is lost or counted twice on any path through the
\* handlers, their error returns included: refs is the number of fids and of
\* local variables that refer to the File, and one more for fs.root.
FilesCounted ==
  \A f \in Files :
    refs[f] = Cardinality(FidOwners(f)) + Cardinality(HeldRefs(f))
                + Cardinality(DroppedRefs(f)) + (IF f = RootFile THEN 1 ELSE 0)

\* The requests that hold a reference to fid n.
Pins(n) ==
  {r \in Tags : /\ rq[r].fid = n
                /\ ~At(r, "reapfid")
                /\ ~(rq[r].pc \in {"drop", "reap"} /\ rq[r].then = "idle")}

\* A fid's count is that of the requests under way on it, and one until the
\* client clunks or removes it; at zero, some request takes it out of the
\* pool.  (ops.go:379: the fid goes "once all related requests are done".)
FidsCounted ==
  \A n \in pool :
    /\ fids[n].refs = Cardinality(Pins(n)) + (IF fids[n].owned THEN 1 ELSE 0)
    /\ fids[n].refs = 0 => \E r \in Tags : rq[r].fid = n /\ At(r, "reapfid")

\* A File in the map that nothing refers to is about to be removed from it,
\* by a DecRef that has reached zero (file.go:941): no entry is left behind.
NoEntryLeft ==
  \A p \in Paths \ {Root} :
    files[p] # NoFile /\ refs[files[p]] = 0 =>
      \E r \in Tags : At(r, "reap") /\ rq[r].drop = [file |-> files[p], path |-> p]

\* A lookup has lost its race.
Wedged == \E r \in Tags : At(r, "stuck")

\* Unless a lookup loses its race every request is answered: no return of a
\* handler keeps filesLock, and no loop over names, children or parents runs
\* forever.
RequestsReturn == \A r \in Tags : ~At(r, "idle") ~> (At(r, "idle") \/ Wedged)

\* A fid that the client has given up leaves the pool, whichever of the
\* requests on it is the last.
ClunkedFidLeaves ==
  \A n \in Fids : (n \in pool /\ ~fids[n].owned) ~> (n \notin pool \/ Wedged)

\* "This isn't in the hotpath, so we aren't blocking anyone else"
\* (file.go:225): making the File outside the lock, lookup never leaves
\* filesLock held.  It does not hold: the loser of a race drops its File with
\* the lock held, and waits for itself (file.go:234).
LookupDoesNotBlock == ~Wedged

=============================================================================
