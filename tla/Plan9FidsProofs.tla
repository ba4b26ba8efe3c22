-------------------------- MODULE Plan9FidsProofs --------------------------
(***************************************************************************)
(* Proofs about the fids and files of the 9p file system, for any number   *)
(* of concurrent requests, any numbers of the client, any paths and files. *)
(***************************************************************************)
EXTENDS Plan9Fids, FiniteSetTheorems, TLAPS

\* How many references a request has in local variables, by where it is.
Fits(pc, op, n) ==
  /\ pc \in {"idle", "begin", "finish", "reapfid"} => n = 0
  /\ pc \in {"newfid", "move"} => n = 1
  /\ pc = "step" => n = IF op = "walk" THEN 1 ELSE 0
  /\ pc \in {"seek", "insert"} /\ op \in {"walk", "read"} => n = 0
  /\ pc = "found" => n > 0 /\ (op \in {"walk", "read"} => n = 1)
  /\ pc \in {"build", "built"} => n > 0
  /\ pc \in {"build", "built", "mkdir"} => op \notin {"walk", "read"}

InDecRef(q) == q.pc \in {"drop", "reap"}
MovingFid(q) == q.pc = "move" \/ (InDecRef(q) /\ q.then = "move")

\* What can be said of one request: its references, its fids, and that it
\* rewrites its fid only if it was announced as one that does.
Shape(q) ==
  /\ Fits(q.pc, q.op, Len(q.held))
  /\ InDecRef(q) =>
       q.then \in {"idle", "finish", "seek", "step", "mkdir", "move"} /\ Fits(q.then, q.op, Len(q.held))
  /\ q.fid = NoFid <=> q.pc = "idle" \/ q.op = "attach"
  /\ q.pc = "idle" => q = Idle
  /\ q.pc = "newfid" => q.newfid \in Fids
  /\ q.op \in {"attach", "walk"} => q.newfid \in Fids
  /\ q.pc \in {"begin", "reapfid"} => q.fid # NoFid
  /\ MovingFid(q) => q.fid # NoFid /\ Rewrites(q.op, q.fid, q.newfid)
ShapeInv == \A r \in Tags : Shape(rq[r])

\* A request that has a reference to its fid.
Pinned(q) == q.pc # "reapfid" /\ ~(InDecRef(q) /\ q.then = "idle")

\* A request that rewrites its fid is alone with it, and one request at most
\* closes it.
Exclusive ==
  \A r, s \in Tags : r # s /\ rq[r].fid = rq[s].fid /\ rq[r].fid # NoFid =>
    /\ ~Rewrites(rq[r].op, rq[r].fid, rq[r].newfid)
    /\ ~(Closes(rq[r].op) /\ Closes(rq[s].op))

\* The fid of a request is in the pool while it has a reference to it; at
\* zero one request takes it out; and one that is to close it still can.
PinInv == \A r \in Tags : rq[r].fid # NoFid /\ Pinned(rq[r]) => rq[r].fid \in pool
ReapInv ==
  \A r \in Tags : At(r, "reapfid") =>
    /\ rq[r].fid \in pool /\ fids[rq[r].fid].refs = 0
    /\ \A s \in Tags : At(s, "reapfid") /\ rq[s].fid = rq[r].fid => s = r
CloseInv == \A r \in Tags : At(r, "begin") /\ Closes(rq[r].op) => fids[rq[r].fid].owned

\* The requests of Q that hold a reference to fid n, and their count.
PinsOf(Q, n) == {r \in Tags : Q[r].fid = n /\ Pinned(Q[r])}
Counted(Q, F, n) ==
  /\ F[n].refs = Cardinality(PinsOf(Q, n)) + (IF F[n].owned THEN 1 ELSE 0)
  /\ F[n].refs = 0 => \E s \in Tags : Q[s].fid = n /\ Q[s].pc = "reapfid"
CountInv == \A n \in pool : Counted(rq, fids, n)

FidInv == Exclusive /\ PinInv /\ ReapInv /\ CloseInv /\ CountInv

\* The references to f in local variables, in DecRefs under way and in fids:
\* they are as many as its count says.
HeldOf(Q, f) ==
  {x \in Tags \X Nat : x[2] \in 1 .. Len(Q[x[1]].held) /\ Q[x[1]].held[x[2]].file = f}
DropsOf(Q, f) == {r \in Tags : Q[r].pc = "drop" /\ Q[r].drop.file = f}
OwnersOf(Q, P, F, f) ==
  {n \in P : F[n].file = f /\ \A r \in Tags : Q[r].fid = n => ~MovingFid(Q[r])}
Total(Q, P, F, f) ==
  Cardinality(OwnersOf(Q, P, F, f)) + Cardinality(HeldOf(Q, f))
    + Cardinality(DropsOf(Q, f)) + (IF f = RootFile THEN 1 ELSE 0)
FileInv ==
  \A f \in Files : IsFiniteSet(HeldOf(rq, f)) /\ refs[f] = Total(rq, pool, fids, f)

\* A File that is in the map is there under the path that references have.
Named(M, ref) == \A p \in Paths : M[p] = ref.file => p = ref.path
PathInv ==
  /\ files[Root] = RootFile
  /\ \A p, q \in Paths : files[p] = files[q] /\ files[p] # NoFile => p = q
  /\ \A r \in Tags : /\ Named(files, rq[r].drop)
                      /\ \A i \in 1 .. Len(rq[r].held) : Named(files, rq[r].held[i])
  /\ \A n \in pool : Named(files, fids[n])

\* createPost leaves the fid at the path of the directory: without it, paths
\* are right and no entry is left.
EntryInv == "create" \notin Ops => PathInv /\ NoEntryLeft

\* The inductive invariant.
IInv == TypeOK /\ ShapeInv /\ FidInv /\ FileInv /\ EntryInv

-----------------------------------------------------------------------------
(* What a step does to the request it is of.                               *)

Others(r) == rq' \in [Tags -> Requests] /\ \A s \in Tags \ {r} : rq'[s] = rq[s]
Kept(r) == rq'[r].op = rq[r].op /\ rq'[r].fid = rq[r].fid /\ rq'[r].newfid = rq[r].newfid

\* The record of a request without anything to do.
LEMMA IdleType ==
  /\ Idle \in Requests /\ Idle.drop \in Refs
  /\ Idle.pc = "idle" /\ Idle.op = "none" /\ Idle.fid = NoFid /\ Idle.newfid = NoFid
  /\ Idle.held = <<>> /\ Idle.drop = [file |-> RootFile, path |-> Root]
BY FilesKnown, ParentType, MaxNamesType DEF Idle, Requests, Refs, PCs

\* The types of a request's parts.
LEMMA RequestType ==
  ASSUME TypeOK, NEW r \in Tags
  PROVE  /\ rq[r] \in Requests /\ rq[r].pc \in PCs /\ rq[r].op \in Ops \cup {"none"}
         /\ rq[r].fid \in Fids \cup {NoFid} /\ rq[r].newfid \in Fids \cup {NoFid}
         /\ rq[r].path \in Paths /\ rq[r].held \in Seq(Refs) /\ rq[r].drop \in Refs
         /\ rq[r].then \in PCs
<1>1. rq[r] \in Requests
  BY DEF TypeOK
<1> QED
  BY <1>1 DEF Requests

\* Set on a request that goes on, and on one that is answered.
LEMMA SetIs ==
  ASSUME TypeOK, NEW r \in Tags, NEW new \in Requests, Set(r, new)
  PROVE  /\ Others(r)
         /\ rq'[r] = IF new.pc = "idle" THEN Idle ELSE new
<1>1. rq \in [Tags -> Requests]
  BY DEF TypeOK
<1>2. (IF new.pc = "idle" THEN Idle ELSE new) \in Requests
  BY IdleType
<1> QED
  BY <1>1, <1>2 DEF Set, Others

\* Goto.
LEMMA GotoIs ==
  ASSUME TypeOK, NEW r \in Tags, NEW pc \in PCs, Goto(r, pc)
  PROVE  /\ Others(r)
         /\ pc = "idle" => rq'[r] = Idle
         /\ pc # "idle" =>
              /\ rq'[r].pc = pc /\ Kept(r) /\ rq'[r].held = rq[r].held
              /\ rq'[r].drop = rq[r].drop /\ rq'[r].then = rq[r].then
              /\ rq'[r].path = rq[r].path
<1> DEFINE q == rq[r]
           new == [q EXCEPT !.pc = pc]
<1>1. q \in Requests
  BY RequestType
<1>2. Set(r, new)
  BY DEF Goto
<1> HIDE DEF q
<1>3. /\ new \in Requests /\ new.pc = pc /\ new.op = q.op /\ new.fid = q.fid
      /\ new.newfid = q.newfid /\ new.held = q.held /\ new.drop = q.drop
      /\ new.then = q.then /\ new.path = q.path
  BY <1>1 DEF Requests
<1> HIDE DEF new
<1>4. Others(r) /\ rq'[r] = IF new.pc = "idle" THEN Idle ELSE new
  BY <1>2, <1>3, SetIs
<1> QED
  BY <1>3, <1>4 DEF Kept, q

\* DecRef.
LEMMA DecRefIs ==
  ASSUME TypeOK, NEW r \in Tags, NEW ref \in Refs, NEW held \in Seq(Refs), NEW then \in PCs,
         DecRef(r, ref, held, then)
  PROVE  /\ Others(r) /\ Kept(r)
         /\ rq'[r].pc = "drop" /\ rq'[r].drop = ref /\ rq'[r].held = held /\ rq'[r].then = then
<1> DEFINE q == rq[r]
           new == [q EXCEPT !.drop = ref, !.held = held, !.then = then, !.pc = "drop"]
<1>1. q \in Requests
  BY RequestType
<1>2. Set(r, new)
  BY DEF DecRef
<1> HIDE DEF q
<1>3. /\ new \in Requests /\ new.pc = "drop" /\ new.op = q.op /\ new.fid = q.fid
      /\ new.newfid = q.newfid /\ new.held = held /\ new.drop = ref /\ new.then = then
  BY <1>1 DEF Requests, PCs
<1> HIDE DEF new
<1>4. Others(r) /\ rq'[r] = new
  BY <1>2, <1>3, SetIs
<1> QED
  BY <1>3, <1>4 DEF Kept, q

\* The return from DecRef.
LEMMA ReturnIs ==
  ASSUME TypeOK, NEW r \in Tags, Return(r)
  PROVE  /\ Others(r)
         /\ rq[r].then = "idle" => rq'[r] = Idle
         /\ rq[r].then # "idle" =>
              /\ rq'[r].pc = rq[r].then /\ Kept(r) /\ rq'[r].held = rq[r].held
              /\ rq'[r].drop = Idle.drop /\ rq'[r].then = "idle"
<1> DEFINE q == rq[r]
           new == [q EXCEPT !.pc = q.then, !.drop = Idle.drop, !.then = "idle"]
<1>1. q \in Requests /\ q.then \in PCs
  BY RequestType
<1>2. Set(r, new)
  BY DEF Return
<1> HIDE DEF q
<1>3. /\ new \in Requests /\ new.pc = q.then /\ new.op = q.op /\ new.fid = q.fid
      /\ new.newfid = q.newfid /\ new.held = q.held /\ new.drop = Idle.drop /\ new.then = "idle"
  <2>1. Idle.drop \in Refs /\ "idle" \in PCs
    BY IdleType DEF PCs
  <2> QED
    BY <1>1, <2>1 DEF Requests
<1> HIDE DEF new
<1>4. Others(r) /\ rq'[r] = IF new.pc = "idle" THEN Idle ELSE new
  BY <1>2, <1>3, SetIs
<1> QED
  BY <1>3, <1>4 DEF Kept, q

\* The other requests keep their shape.
LEMMA ShapeStep ==
  ASSUME ShapeInv, NEW r \in Tags, Others(r), Shape(rq'[r])
  PROVE  ShapeInv'
<1>1. ASSUME NEW s \in Tags PROVE Shape(rq'[s])
  <2>1. CASE s = r
    BY <2>1
  <2>2. CASE s # r
    BY <2>2 DEF Others, ShapeInv
  <2> QED
    BY <2>1, <2>2
<1> QED
  BY <1>1 DEF ShapeInv

\* An answered request.
LEMMA IdleShape == Shape(Idle) /\ Pinned(Idle) /\ ~InDecRef(Idle) /\ ~MovingFid(Idle)
<1>1. Len(Idle.held) = 0
  BY IdleType
<1> QED
  BY <1>1, IdleType DEF Shape, Fits, InDecRef, MovingFid, Pinned

-----------------------------------------------------------------------------
(* The counts of fids.                                                     *)

\* The pins of a fid are finite.
LEMMA PinsFinite ==
  ASSUME NEW Q, NEW n
  PROVE  IsFiniteSet(PinsOf(Q, n)) /\ Cardinality(PinsOf(Q, n)) \in Nat
<1>1. PinsOf(Q, n) \in SUBSET Tags
  BY DEF PinsOf
<1>2. IsFiniteSet(PinsOf(Q, n))
  BY <1>1, FiniteNumbers, FS_Subset
<1> QED
  BY <1>2, FS_CardinalityType

\* A pinned fid has a reference.
LEMMA PinnedFid ==
  ASSUME TypeOK, FidInv, NEW r \in Tags, rq[r].fid # NoFid, Pinned(rq[r])
  PROVE  /\ rq[r].fid \in pool /\ rq[r].fid \in Fids
         /\ fids[rq[r].fid].refs \in Nat /\ fids[rq[r].fid].refs > 0
         /\ ~(\E s \in Tags : At(s, "reapfid") /\ rq[s].fid = rq[r].fid)
<1> DEFINE n == rq[r].fid
<1>1. n \in pool /\ n \in Fids
  BY DEF FidInv, PinInv, TypeOK
<1> HIDE DEF n
<1>2. r \in PinsOf(rq, n)
  BY DEF n, PinsOf
<1>3. Cardinality(PinsOf(rq, n)) # 0 /\ Cardinality(PinsOf(rq, n)) \in Nat
  BY <1>2, PinsFinite, FS_EmptySet
<1>4. fids[n].refs = Cardinality(PinsOf(rq, n)) + (IF fids[n].owned THEN 1 ELSE 0)
  BY <1>1 DEF FidInv, CountInv, Counted
<1>5. fids[n].refs \in Nat /\ fids[n].refs > 0
  BY <1>3, <1>4
<1>6. ~(\E s \in Tags : At(s, "reapfid") /\ rq[s].fid = n)
  BY <1>5 DEF FidInv, ReapInv
<1> QED
  BY <1>1, <1>5, <1>6 DEF n

\* A step that leaves the counts of the fids and its request's hold on them.
LEMMA FidsSame ==
  ASSUME TypeOK, ShapeInv, FidInv, NEW r \in Tags, Others(r), pool' = pool,
         \A n \in Fids : fids'[n].refs = fids[n].refs /\ fids'[n].owned = fids[n].owned,
         \/ Kept(r) /\ (Pinned(rq'[r]) <=> Pinned(rq[r]))
         \/ rq'[r] = Idle /\ (rq[r].fid = NoFid \/ ~Pinned(rq[r]))
         \/ rq[r].fid = NoFid /\ rq'[r].fid = NoFid,
         rq[r].pc # "reapfid", rq'[r].pc # "reapfid", rq'[r].pc # "begin"
  PROVE  FidInv'
<1>1. \A s \in Tags : /\ rq'[s].fid # NoFid => rq'[s].fid = rq[s].fid
                      /\ rq'[s].fid # NoFid =>
                           rq'[s].op = rq[s].op /\ rq'[s].newfid = rq[s].newfid
                      /\ rq'[s].fid # NoFid => (Pinned(rq'[s]) <=> Pinned(rq[s]))
                      /\ rq'[s].pc = "reapfid" <=> rq[s].pc = "reapfid"
                      /\ rq'[s].pc = "begin" => rq[s].pc = "begin" /\ rq'[s] = rq[s]
  BY IdleType DEF Others, Kept
<1>2. \A s \in Tags : rq[s].pc = "reapfid" => rq'[s] = rq[s]
  BY DEF Others
<1>3. Exclusive'
  BY <1>1 DEF FidInv, Exclusive
<1>4. PinInv'
  BY <1>1 DEF FidInv, PinInv
<1>5. \A n \in pool : n \in Fids
  BY DEF TypeOK
<1>6. ReapInv'
  BY <1>1, <1>2, <1>5 DEF FidInv, ReapInv, At
<1>7. CloseInv'
  <2> SUFFICES ASSUME NEW s \in Tags, rq'[s].pc = "begin", Closes(rq'[s].op)
               PROVE  fids'[rq'[s].fid].owned
    BY DEF CloseInv, At
  <2>1. rq'[s] = rq[s] /\ fids[rq[s].fid].owned
    BY <1>1 DEF FidInv, CloseInv, At
  <2>2. rq[s].fid \in Fids
    BY <1>1, RequestType DEF ShapeInv, Shape
  <2> QED
    BY <2>1, <2>2
<1>8. CountInv'
  <2> SUFFICES ASSUME NEW n \in pool
               PROVE  Counted(rq', fids', n)
    BY DEF CountInv
  <2>1. n \in Fids /\ n # NoFid
    BY <1>5, NoFidFresh
  <2>2. \A s \in Tags : (rq'[s].fid = n /\ Pinned(rq'[s])) <=> (rq[s].fid = n /\ Pinned(rq[s]))
    BY <1>1, <2>1, IdleType DEF Others, Kept
  <2>3. PinsOf(rq', n) = PinsOf(rq, n)
    <3>1. /\ PinsOf(rq, n) = {s \in Tags : rq[s].fid = n /\ Pinned(rq[s])}
          /\ PinsOf(rq', n) = {s \in Tags : rq'[s].fid = n /\ Pinned(rq'[s])}
      BY DEF PinsOf
    <3> QED
      BY <2>2, <3>1
  <2>4. /\ fids[n].refs = Cardinality(PinsOf(rq, n)) + (IF fids[n].owned THEN 1 ELSE 0)
        /\ fids[n].refs = 0 => \E s \in Tags : rq[s].fid = n /\ rq[s].pc = "reapfid"
    BY DEF FidInv, CountInv, Counted
  <2> QED
    BY <1>2, <2>1, <2>3, <2>4 DEF Counted
<1> QED
  BY <1>3, <1>4, <1>6, <1>7, <1>8 DEF FidInv

\* A fid other than that of the step.
LEMMA FidElsewhere ==
  ASSUME FidInv, NEW r \in Tags, Others(r), NEW n \in pool,
         fids'[n].refs = fids[n].refs, fids'[n].owned = fids[n].owned,
         ~(rq[r].fid = n /\ Pinned(rq[r])), ~(rq'[r].fid = n /\ Pinned(rq'[r])),
         rq[r].pc = "reapfid" => rq[r].fid # n
  PROVE  Counted(rq', fids', n)
<1>1. \A s \in Tags : (rq'[s].fid = n /\ Pinned(rq'[s])) <=> (rq[s].fid = n /\ Pinned(rq[s]))
  BY DEF Others
<1>2. PinsOf(rq', n) = PinsOf(rq, n)
  <2>1. /\ PinsOf(rq, n) = {s \in Tags : rq[s].fid = n /\ Pinned(rq[s])}
        /\ PinsOf(rq', n) = {s \in Tags : rq'[s].fid = n /\ Pinned(rq'[s])}
    BY DEF PinsOf
  <2> QED
    BY <1>1, <2>1
<1>3. /\ fids[n].refs = Cardinality(PinsOf(rq, n)) + (IF fids[n].owned THEN 1 ELSE 0)
      /\ fids[n].refs = 0 => \E s \in Tags : rq[s].fid = n /\ rq[s].pc = "reapfid"
  BY DEF FidInv, CountInv, Counted
<1>4. \A s \in Tags : rq[s].fid = n /\ rq[s].pc = "reapfid" => rq'[s] = rq[s]
  BY DEF Others
<1> QED
  BY <1>2, <1>3, <1>4 DEF Counted

\* How the pins of a fid change with one request.
LEMMA PinsChange ==
  ASSUME NEW r \in Tags, Others(r), NEW n
  PROVE  /\ rq'[r].fid = n /\ Pinned(rq'[r]) /\ rq[r].fid # n =>
              Cardinality(PinsOf(rq', n)) = Cardinality(PinsOf(rq, n)) + 1
         /\ rq[r].fid = n /\ Pinned(rq[r]) /\ (rq'[r].fid # n \/ ~Pinned(rq'[r])) =>
              Cardinality(PinsOf(rq', n)) = Cardinality(PinsOf(rq, n)) - 1
         /\ rq[r].fid = n /\ Pinned(rq[r]) /\ rq'[r].fid = n /\ Pinned(rq'[r]) =>
              Cardinality(PinsOf(rq', n)) = Cardinality(PinsOf(rq, n))
<1>1. /\ PinsOf(rq, n) = {s \in Tags : rq[s].fid = n /\ Pinned(rq[s])}
      /\ PinsOf(rq', n) = {s \in Tags : rq'[s].fid = n /\ Pinned(rq'[s])}
      /\ IsFiniteSet(PinsOf(rq, n)) /\ Cardinality(PinsOf(rq, n)) \in Nat
  BY PinsFinite DEF PinsOf
<1>2. ASSUME rq'[r].fid = n, Pinned(rq'[r]), rq[r].fid # n
      PROVE  Cardinality(PinsOf(rq', n)) = Cardinality(PinsOf(rq, n)) + 1
  <2>1. PinsOf(rq', n) = PinsOf(rq, n) \cup {r} /\ r \notin PinsOf(rq, n)
    BY <1>1, <1>2 DEF Others
  <2> QED
    BY <1>1, <2>1, FS_AddElement
<1>3. ASSUME rq[r].fid = n, Pinned(rq[r]), rq'[r].fid # n \/ ~Pinned(rq'[r])
      PROVE  Cardinality(PinsOf(rq', n)) = Cardinality(PinsOf(rq, n)) - 1
  <2>1. PinsOf(rq', n) = PinsOf(rq, n) \ {r} /\ r \in PinsOf(rq, n)
    BY <1>1, <1>3 DEF Others
  <2> QED
    BY <1>1, <2>1, FS_RemoveElement
<1>4. ASSUME rq[r].fid = n, Pinned(rq[r]), rq'[r].fid = n, Pinned(rq'[r])
      PROVE  PinsOf(rq', n) = PinsOf(rq, n)
  BY <1>1, <1>4 DEF Others
<1> QED
  BY <1>2, <1>3, <1>4

\* A new request on a fid.
LEMMA FidStarted ==
  ASSUME TypeOK, ShapeInv, FidInv, NEW r \in Tags, NEW op, NEW n \in Fids, NEW m,
         rq[r].pc = "idle", n \in pool, fids[n].owned,
         \A s \in Tags : rq[s].fid = n => /\ ~Rewrites(op, n, m)
                                          /\ ~Rewrites(rq[s].op, n, rq[s].newfid)
                                          /\ ~Closes(rq[s].op),
         Others(r), pool' = pool, fids'[n].refs = fids[n].refs + 1, fids'[n].owned = fids[n].owned,
         \A k \in Fids \ {n} : fids'[k] = fids[k],
         rq'[r].pc = "begin", rq'[r].op = op, rq'[r].fid = n, rq'[r].newfid = m
  PROVE  FidInv'
<1>1. rq[r] = Idle /\ rq[r].fid = NoFid /\ n # NoFid /\ \A k \in pool : k \in Fids
  BY IdleType, NoFidFresh DEF ShapeInv, Shape, TypeOK
<1>2. Pinned(rq'[r])
  BY DEF Pinned, InDecRef
<1>3. fids[n].refs = Cardinality(PinsOf(rq, n)) + 1 /\ Cardinality(PinsOf(rq, n)) \in Nat
  BY PinsFinite DEF FidInv, CountInv, Counted
<1>4. \A s \in Tags : At(s, "reapfid") => rq[s].fid # n
  BY <1>3 DEF FidInv, ReapInv
<1>5. Exclusive'
  <2> SUFFICES ASSUME NEW s \in Tags, NEW t \in Tags, s # t, rq'[s].fid = rq'[t].fid, rq'[s].fid # NoFid
               PROVE  /\ ~Rewrites(rq'[s].op, rq'[s].fid, rq'[s].newfid)
                      /\ ~(Closes(rq'[s].op) /\ Closes(rq'[t].op))
    BY DEF Exclusive
  <2>1. CASE s = r
    <3>1. rq'[t] = rq[t] /\ rq[t].fid = n
      BY <2>1 DEF Others
    <3> QED
      BY <2>1, <3>1
  <2>2. CASE t = r
    <3>1. rq'[s] = rq[s] /\ rq[s].fid = n
      BY <2>2 DEF Others
    <3> QED
      BY <2>2, <3>1
  <2>3. CASE s # r /\ t # r
    <3>1. rq'[s] = rq[s] /\ rq'[t] = rq[t]
      BY <2>3 DEF Others
    <3> QED
      BY <3>1 DEF FidInv, Exclusive
  <2> QED
    BY <2>1, <2>2, <2>3
<1>6. PinInv'
  BY DEF FidInv, PinInv, Others
<1>7. ReapInv'
  <2>1. \A s \in Tags : rq'[s].pc = "reapfid" => rq'[s] = rq[s] /\ rq[s].fid \in pool /\ rq[s].fid # n
    BY <1>4 DEF Others, At, FidInv, ReapInv
  <2>2. \A s \in Tags : rq'[s].pc = "reapfid" => fids'[rq'[s].fid] = fids[rq[s].fid]
    BY <1>1, <2>1
  <2> QED
    BY <2>1, <2>2 DEF FidInv, ReapInv, At
<1>8. CloseInv'
  <2> SUFFICES ASSUME NEW s \in Tags, rq'[s].pc = "begin", Closes(rq'[s].op)
               PROVE  fids'[rq'[s].fid].owned
    BY DEF CloseInv, At
  <2>1. CASE s = r
    BY <2>1
  <2>2. CASE s # r
    <3>1. rq'[s] = rq[s] /\ fids[rq[s].fid].owned /\ rq[s].fid # NoFid
      BY <2>2 DEF Others, FidInv, CloseInv, At, ShapeInv, Shape
    <3>2. rq[s].fid \in Fids
      BY <3>1, RequestType
    <3> QED
      BY <3>1, <3>2
  <2> QED
    BY <2>1, <2>2
<1>9. CountInv'
  <2> SUFFICES ASSUME NEW k \in pool
               PROVE  Counted(rq', fids', k)
    BY DEF CountInv
  <2>1. CASE k = n
    <3>1. Cardinality(PinsOf(rq', n)) = Cardinality(PinsOf(rq, n)) + 1
      BY <1>1, <1>2, PinsChange
    <3>2. fids'[n].owned
      OBVIOUS
    <3>3. fids'[n].refs = Cardinality(PinsOf(rq', n)) + 1 /\ fids'[n].refs # 0
      BY <1>3, <3>1
    <3> QED
      BY <2>1, <3>2, <3>3 DEF Counted
  <2>2. CASE k # n
    <3>1. fids'[k] = fids[k] /\ rq[r].fid # k /\ rq'[r].fid # k
      BY <1>1, <2>2, NoFidFresh
    <3> QED
      BY <3>1, FidElsewhere
  <2> QED
    BY <2>1, <2>2
<1> QED
  BY <1>5, <1>6, <1>7, <1>8, <1>9 DEF FidInv

\* NewFid.
LEMMA FidAdded ==
  ASSUME TypeOK, ShapeInv, FidInv, NEW r \in Tags, rq[r].pc = "newfid", Others(r), Kept(r),
         rq'[r].pc = "finish", NEW m \in Fids, m \notin pool, pool' = pool \cup {m},
         fids'[m].refs = 1, fids'[m].owned, \A k \in Fids \ {m} : fids'[k] = fids[k]
  PROVE  FidInv'
<1>1. \A k \in pool : k \in Fids /\ k # m
  BY DEF TypeOK
<1>2. Pinned(rq[r]) /\ Pinned(rq'[r])
  BY DEF Pinned, InDecRef
<1>3. \A s \in Tags : /\ rq'[s].fid = rq[s].fid /\ rq'[s].op = rq[s].op /\ rq'[s].newfid = rq[s].newfid
                      /\ Pinned(rq'[s]) <=> Pinned(rq[s])
                      /\ rq'[s].pc = "reapfid" <=> rq[s].pc = "reapfid"
                      /\ rq'[s].pc = "begin" => rq[s].pc = "begin"
  BY <1>2 DEF Others, Kept
<1>4. Exclusive'
  BY <1>3 DEF FidInv, Exclusive
<1>5. PinInv'
  BY <1>3 DEF FidInv, PinInv
<1>6. ReapInv'
  BY <1>1, <1>3 DEF FidInv, ReapInv, At
<1>7. \A s \in Tags : rq[s].fid # NoFid /\ Pinned(rq[s]) => rq[s].fid \in pool
  BY DEF FidInv, PinInv
<1>8. CloseInv'
  <2> SUFFICES ASSUME NEW s \in Tags, rq'[s].pc = "begin", Closes(rq'[s].op)
               PROVE  fids'[rq'[s].fid].owned
    BY DEF CloseInv, At
  <2>1. rq[s].pc = "begin" /\ Closes(rq[s].op) /\ fids[rq[s].fid].owned /\ rq[s].fid # NoFid
    BY <1>3 DEF FidInv, CloseInv, At, ShapeInv, Shape
  <2>2. Pinned(rq[s])
    BY <2>1 DEF Pinned, InDecRef
  <2>3. rq[s].fid \in pool
    BY <1>7, <2>1, <2>2
  <2> QED
    BY <1>1, <1>3, <2>1, <2>3
<1>9. CountInv'
  <2> SUFFICES ASSUME NEW k \in pool \cup {m}
               PROVE  Counted(rq', fids', k)
    BY DEF CountInv
  <2>0. /\ PinsOf(rq, k) = {s \in Tags : rq[s].fid = k /\ Pinned(rq[s])}
        /\ PinsOf(rq', k) = {s \in Tags : rq'[s].fid = k /\ Pinned(rq'[s])}
    BY DEF PinsOf
  <2>1. CASE k = m
    <3>1. PinsOf(rq', k) = {}
      BY <1>3, <1>7, <2>0, <2>1, NoFidFresh
    <3> QED
      BY <2>1, <3>1, FS_EmptySet DEF Counted
  <2>2. CASE k # m
    <3>1. k \in pool /\ fids'[k] = fids[k]
      BY <1>1, <2>2
    <3>2. PinsOf(rq', k) = PinsOf(rq, k)
      BY <1>3, <2>0
    <3>3. /\ fids[k].refs = Cardinality(PinsOf(rq, k)) + (IF fids[k].owned THEN 1 ELSE 0)
          /\ fids[k].refs = 0 => \E s \in Tags : rq[s].fid = k /\ rq[s].pc = "reapfid"
      BY <3>1 DEF FidInv, CountInv, Counted
    <3> QED
      BY <1>3, <3>1, <3>2, <3>3 DEF Counted
  <2> QED
    BY <2>1, <2>2
<1> QED
  BY <1>4, <1>5, <1>6, <1>8, <1>9 DEF FidInv

\* The deferred fid.DecRef of Handle.
LEMMA FidReleased ==
  ASSUME TypeOK, ShapeInv, FidInv, NEW r \in Tags, rq[r].pc = "finish", rq[r].fid # NoFid,
         Others(r), pool' = pool, fids'[rq[r].fid].refs = fids[rq[r].fid].refs - 1,
         fids'[rq[r].fid].owned = fids[rq[r].fid].owned,
         \A k \in Fids \ {rq[r].fid} : fids'[k] = fids[k],
         IF fids[rq[r].fid].refs = 1 THEN rq'[r].pc = "reapfid" /\ Kept(r) ELSE rq'[r] = Idle
  PROVE  FidInv'
<1> DEFINE n == rq[r].fid
<1>1. Pinned(rq[r]) /\ ~(rq'[r].fid = n /\ Pinned(rq'[r])) /\ rq'[r].pc # "begin"
  BY IdleType DEF Pinned, InDecRef
<1>2. /\ n \in pool /\ n \in Fids /\ fids[n].refs \in Nat /\ fids[n].refs > 0
      /\ \A s \in Tags : At(s, "reapfid") => rq[s].fid # n
  BY <1>1, PinnedFid
<1>3. \A k \in pool : k \in Fids
  BY DEF TypeOK
<1>4. /\ \A s \in Tags : rq'[s].fid # NoFid =>
           rq'[s].fid = rq[s].fid /\ rq'[s].op = rq[s].op /\ rq'[s].newfid = rq[s].newfid
      /\ \A s \in Tags \ {r} : rq'[s] = rq[s]
  BY IdleType DEF Others, Kept
<1>5. Exclusive'
  BY <1>4 DEF FidInv, Exclusive
<1>6. PinInv'
  BY <1>1, <1>4, IdleType DEF FidInv, PinInv
<1>7. ReapInv'
  <2> SUFFICES ASSUME NEW s \in Tags, rq'[s].pc = "reapfid"
               PROVE  /\ rq'[s].fid \in pool /\ fids'[rq'[s].fid].refs = 0
                      /\ \A t \in Tags : rq'[t].pc = "reapfid" /\ rq'[t].fid = rq'[s].fid => t = s
    BY DEF ReapInv, At
  <2>1. CASE s = r
    <3>1. rq'[r].fid = n /\ fids[n].refs = 1
      BY <2>1, IdleType DEF Kept
    <3>2. fids'[n].refs = 0
      BY <3>1
    <3> QED
      BY <1>2, <1>4, <2>1, <3>1, <3>2 DEF At
  <2>2. CASE s # r
    <3>1. rq'[s] = rq[s] /\ At(s, "reapfid")
      BY <1>4, <2>2 DEF At
    <3>2. rq[s].fid # n /\ rq[s].fid \in pool /\ fids[rq[s].fid].refs = 0
      BY <1>2, <3>1 DEF FidInv, ReapInv
    <3>3. fids'[rq[s].fid] = fids[rq[s].fid]
      BY <1>3, <3>2
    <3>4. ASSUME NEW t \in Tags, rq'[t].pc = "reapfid", rq'[t].fid = rq'[s].fid PROVE t = s
      <4>1. t # r
        BY <3>1, <3>2, <3>4, IdleType DEF Kept
      <4>2. rq'[t] = rq[t]
        BY <1>4, <4>1
      <4> QED
        BY <3>1, <3>4, <4>2 DEF FidInv, ReapInv, At
    <3> QED
      BY <3>1, <3>2, <3>3, <3>4
  <2> QED
    BY <2>1, <2>2
<1>8. CloseInv'
  <2> SUFFICES ASSUME NEW s \in Tags, rq'[s].pc = "begin", Closes(rq'[s].op)
               PROVE  fids'[rq'[s].fid].owned
    BY DEF CloseInv, At
  <2>1. rq'[s] = rq[s]
    BY <1>1, <1>4
  <2>2. fids[rq[s].fid].owned /\ rq[s].fid \in Fids
    BY <2>1, RequestType DEF FidInv, CloseInv, At, ShapeInv, Shape
  <2> QED
    BY <2>1, <2>2
<1>9. CountInv'
  <2> SUFFICES ASSUME NEW k \in pool
               PROVE  Counted(rq', fids', k)
    BY DEF CountInv
  <2>1. CASE k = n
    <3>1. fids'[n].refs = fids[n].refs - 1 /\ fids'[n].owned = fids[n].owned /\ rq[r].fid = n
      OBVIOUS
    <3>2. fids'[n].refs = 0 => rq'[r].fid = n /\ rq'[r].pc = "reapfid"
      BY <1>2 DEF Kept
    <3> HIDE DEF n
    <3>3. Cardinality(PinsOf(rq, n)) \in Nat
      BY PinsFinite
    <3>4. Cardinality(PinsOf(rq', n)) = Cardinality(PinsOf(rq, n)) - 1 /\ Cardinality(PinsOf(rq, n)) \in Nat
      BY <1>1, <3>1, <3>3, PinsChange
    <3>5. fids[n].refs = Cardinality(PinsOf(rq, n)) + (IF fids[n].owned THEN 1 ELSE 0)
      BY <1>2 DEF FidInv, CountInv, Counted
    <3>6. fids'[n].refs = Cardinality(PinsOf(rq', n)) + (IF fids'[n].owned THEN 1 ELSE 0)
      BY <3>1, <3>4, <3>5
    <3> QED
      BY <2>1, <3>2, <3>6 DEF Counted
  <2>2. CASE k # n
    <3>1. fids'[k] = fids[k] /\ rq[r].fid # k
      BY <1>3, <2>2
    <3>2. ~(rq'[r].fid = k /\ Pinned(rq'[r]))
      BY <1>1, <1>3, <2>2, IdleType, NoFidFresh DEF Kept
    <3> QED
      BY <3>1, <3>2, FidElsewhere
  <2> QED
    BY <2>1, <2>2
<1> QED
  BY <1>5, <1>6, <1>7, <1>8, <1>9 DEF FidInv

\* The fid leaves the pool.
LEMMA FidRemoved ==
  ASSUME TypeOK, ShapeInv, FidInv, NEW r \in Tags, rq[r].pc = "reapfid", Others(r), Kept(r),
         InDecRef(rq'[r]), rq'[r].then = "idle", pool' = pool \ {rq[r].fid},
         \A k \in Fids \ {rq[r].fid} : fids'[k] = fids[k]
  PROVE  FidInv'
<1> DEFINE n == rq[r].fid
<1>1. ~Pinned(rq[r]) /\ ~Pinned(rq'[r]) /\ rq'[r].pc \notin {"begin", "reapfid"}
  BY DEF Pinned, InDecRef
<1>2. \A k \in pool : k \in Fids
  BY DEF TypeOK
<1>3. n \in pool /\ fids[n].refs = 0 /\ \A s \in Tags : At(s, "reapfid") /\ rq[s].fid = n => s = r
  BY DEF FidInv, ReapInv, At
<1>4. \A s \in Tags : rq[s].fid # NoFid /\ Pinned(rq[s]) => rq[s].fid \in pool /\ rq[s].fid # n
  <2>1. ASSUME NEW s \in Tags, rq[s].fid # NoFid, Pinned(rq[s])
        PROVE  rq[s].fid \in pool /\ fids[rq[s].fid].refs > 0 /\ fids[rq[s].fid].refs \in Nat
    BY <2>1, PinnedFid
  <2> QED
    BY <1>3, <2>1
<1>5. \A s \in Tags : /\ rq'[s].fid = rq[s].fid /\ rq'[s].op = rq[s].op /\ rq'[s].newfid = rq[s].newfid
                      /\ Pinned(rq'[s]) <=> Pinned(rq[s])
                      /\ s # r => rq'[s] = rq[s]
  BY <1>1 DEF Others, Kept
<1>6. Exclusive'
  BY <1>5 DEF FidInv, Exclusive
<1>7. PinInv'
  BY <1>4, <1>5 DEF PinInv
<1>8. ReapInv'
  <2> SUFFICES ASSUME NEW s \in Tags, rq'[s].pc = "reapfid"
               PROVE  /\ rq'[s].fid \in pool \ {n} /\ fids'[rq'[s].fid].refs = 0
                      /\ \A t \in Tags : rq'[t].pc = "reapfid" /\ rq'[t].fid = rq'[s].fid => t = s
    BY DEF ReapInv, At
  <2>1. s # r /\ rq'[s] = rq[s] /\ At(s, "reapfid")
    BY <1>1, <1>5 DEF At
  <2>2. rq[s].fid # n /\ rq[s].fid \in pool /\ fids[rq[s].fid].refs = 0
    BY <1>3, <2>1 DEF FidInv, ReapInv
  <2>3. fids'[rq[s].fid] = fids[rq[s].fid]
    BY <1>2, <2>2
  <2>4. \A t \in Tags : rq'[t].pc = "reapfid" /\ rq'[t].fid = rq'[s].fid => t = s
    BY <1>1, <1>5, <2>1 DEF FidInv, ReapInv, At
  <2> QED
    BY <2>1, <2>2, <2>3, <2>4
<1>9. CloseInv'
  <2> SUFFICES ASSUME NEW s \in Tags, rq'[s].pc = "begin", Closes(rq'[s].op)
               PROVE  fids'[rq'[s].fid].owned
    BY DEF CloseInv, At
  <2>1. rq'[s] = rq[s] /\ rq[s].pc = "begin"
    BY <1>1, <1>5
  <2>2. fids[rq[s].fid].owned /\ rq[s].fid # NoFid /\ Pinned(rq[s])
    BY <2>1 DEF FidInv, CloseInv, At, ShapeInv, Shape, Pinned, InDecRef
  <2>3. rq[s].fid \in Fids /\ rq[s].fid # n
    BY <1>2, <1>4, <2>2
  <2> QED
    BY <2>1, <2>2, <2>3
<1>10. CountInv'
  <2> SUFFICES ASSUME NEW k \in pool, k # n
               PROVE  Counted(rq', fids', k)
    BY DEF CountInv
  <2>1. fids'[k] = fids[k]
    BY <1>2
  <2> QED
    BY <1>1, <2>1, FidElsewhere
<1> QED
  BY <1>6, <1>7, <1>8, <1>9, <1>10 DEF FidInv

\* The client gives the fid up: the reference of the pool goes.
LEMMA FidClosed ==
  ASSUME TypeOK, ShapeInv, FidInv, NEW r \in Tags, rq[r].pc = "begin", Closes(rq[r].op),
         Others(r), Kept(r), rq'[r].pc \in {"finish", "seek"}, pool' = pool,
         fids'[rq[r].fid].refs = fids[rq[r].fid].refs - 1, ~fids'[rq[r].fid].owned,
         \A k \in Fids \ {rq[r].fid} : fids'[k] = fids[k]
  PROVE  FidInv'
<1> DEFINE n == rq[r].fid
<1>1. Pinned(rq[r]) /\ Pinned(rq'[r]) /\ n # NoFid
  BY DEF Pinned, InDecRef, ShapeInv, Shape
<1>2. /\ n \in pool /\ n \in Fids /\ fids[n].refs \in Nat
      /\ \A s \in Tags : At(s, "reapfid") => rq[s].fid # n
  BY <1>1, PinnedFid
<1>3. \A k \in pool : k \in Fids
  BY DEF TypeOK
<1>4. fids[n].owned
  BY DEF FidInv, CloseInv, At
<1>5. \A s \in Tags : /\ rq'[s].fid = rq[s].fid /\ rq'[s].op = rq[s].op /\ rq'[s].newfid = rq[s].newfid
                      /\ Pinned(rq'[s]) <=> Pinned(rq[s])
                      /\ s # r => rq'[s] = rq[s]
  BY <1>1 DEF Others, Kept
<1>6. Exclusive'
  BY <1>5 DEF FidInv, Exclusive
<1>7. PinInv'
  BY <1>5 DEF FidInv, PinInv
<1>8. ReapInv'
  <2> SUFFICES ASSUME NEW s \in Tags, rq'[s].pc = "reapfid"
               PROVE  /\ rq'[s].fid \in pool /\ fids'[rq'[s].fid].refs = 0
                      /\ \A t \in Tags : rq'[t].pc = "reapfid" /\ rq'[t].fid = rq'[s].fid => t = s
    BY DEF ReapInv, At
  <2>1. s # r /\ rq'[s] = rq[s] /\ At(s, "reapfid")
    BY <1>5 DEF At
  <2>2. rq[s].fid # n /\ rq[s].fid \in pool /\ fids[rq[s].fid].refs = 0
    BY <1>2, <2>1 DEF FidInv, ReapInv
  <2>3. fids'[rq[s].fid] = fids[rq[s].fid]
    BY <1>3, <2>2
  <2>4. \A t \in Tags : rq'[t].pc = "reapfid" /\ rq'[t].fid = rq'[s].fid => t = s
    BY <1>5, <2>1 DEF FidInv, ReapInv, At
  <2> QED
    BY <2>1, <2>2, <2>3, <2>4
<1>9. CloseInv'
  <2> SUFFICES ASSUME NEW s \in Tags, rq'[s].pc = "begin", Closes(rq'[s].op)
               PROVE  fids'[rq'[s].fid].owned
    BY DEF CloseInv, At
  <2>1. s # r /\ rq'[s] = rq[s]
    BY <1>5
  <2>2. fids[rq[s].fid].owned /\ rq[s].fid \in Fids
    BY <2>1, RequestType DEF FidInv, CloseInv, At, ShapeInv, Shape
  <2>3. rq[s].fid # n
    BY <1>1, <2>1 DEF FidInv, Exclusive
  <2> QED
    BY <2>1, <2>2, <2>3
<1>10. CountInv'
  <2> SUFFICES ASSUME NEW k \in pool
               PROVE  Counted(rq', fids', k)
    BY DEF CountInv
  <2>1. CASE k = n
    <3>1. Cardinality(PinsOf(rq', n)) = Cardinality(PinsOf(rq, n)) /\ Cardinality(PinsOf(rq', n)) \in Nat
      BY <1>1, <1>5, PinsChange, PinsFinite
    <3>2. fids[n].refs = Cardinality(PinsOf(rq, n)) + 1
      BY <1>2, <1>4 DEF FidInv, CountInv, Counted
    <3>3. fids'[n].refs = Cardinality(PinsOf(rq', n))
      BY <3>1, <3>2
    <3>4. r \in PinsOf(rq', n)
      BY <1>1, <1>5 DEF PinsOf
    <3>5. Cardinality(PinsOf(rq', n)) # 0
      BY <3>4, PinsFinite, FS_EmptySet
    <3>6. fids'[n].refs = Cardinality(PinsOf(rq', n)) + (IF fids'[n].owned THEN 1 ELSE 0) /\ fids'[n].refs # 0
      BY <3>1, <3>3, <3>5
    <3> HIDE DEF n
    <3> QED
      BY <2>1, <3>6 DEF Counted
  <2>2. CASE k # n
    <3>1. fids'[k] = fids[k] /\ rq[r].fid # k /\ rq'[r].fid # k
      BY <1>3, <1>5, <2>2
    <3> QED
      BY <3>1, FidElsewhere
  <2> QED
    BY <2>1, <2>2
<1> QED
  BY <1>6, <1>7, <1>8, <1>9, <1>10 DEF FidInv

-----------------------------------------------------------------------------
(* The counts of files.                                                    *)

\* The counts are numbers.
LEMMA CountsFinite ==
  ASSUME NEW Q, NEW P \in SUBSET Fids, NEW F, NEW f
  PROVE  /\ IsFiniteSet(DropsOf(Q, f)) /\ Cardinality(DropsOf(Q, f)) \in Nat
         /\ IsFiniteSet(OwnersOf(Q, P, F, f)) /\ Cardinality(OwnersOf(Q, P, F, f)) \in Nat
         /\ IsFiniteSet(HeldOf(Q, f)) => Cardinality(HeldOf(Q, f)) \in Nat
<1>1. DropsOf(Q, f) \in SUBSET Tags /\ OwnersOf(Q, P, F, f) \in SUBSET Fids
  BY DEF DropsOf, OwnersOf
<1>2. IsFiniteSet(DropsOf(Q, f)) /\ IsFiniteSet(OwnersOf(Q, P, F, f))
  BY <1>1, FiniteNumbers, FS_Subset
<1> QED
  BY <1>2, FS_CardinalityType

\* Local variables as they were.
LEMMA HeldSame ==
  ASSUME NEW r \in Tags, Others(r), rq'[r].held = rq[r].held, NEW f
  PROVE  HeldOf(rq', f) = HeldOf(rq, f)
<1>1. \A s \in Tags : rq'[s].held = rq[s].held
  BY DEF Others
<1>2. ASSUME NEW x \in Tags \X Nat
      PROVE  rq'[x[1]].held = rq[x[1]].held
  BY <1>1
<1> QED
  BY <1>2 DEF HeldOf

\* One more local variable.
LEMMA HeldPush ==
  ASSUME TypeOK, NEW r \in Tags, Others(r), NEW ref \in Refs,
         rq'[r].held = Append(rq[r].held, ref), NEW f, IsFiniteSet(HeldOf(rq, f))
  PROVE  /\ IsFiniteSet(HeldOf(rq', f))
         /\ Cardinality(HeldOf(rq', f)) =
              Cardinality(HeldOf(rq, f)) + (IF ref.file = f THEN 1 ELSE 0)
<1> DEFINE h == rq[r].held
           k == Len(h)
           y == <<r, k + 1>>
           h2 == rq'[r].held
<1>1. h \in Seq(Refs) /\ k \in Nat
  BY RequestType
<1>2. Len(h2) = k + 1 /\ h2[k + 1] = ref /\ \A i \in 1 .. k : h2[i] = h[i]
  BY <1>1
<1>3. \A s \in Tags \ {r} : rq'[s].held = rq[s].held
  BY DEF Others
<1>4. y \in Tags \X Nat /\ y \notin HeldOf(rq, f)
  BY <1>1 DEF HeldOf
<1>5. ASSUME NEW x \in Tags \X Nat
      PROVE  x \in HeldOf(rq', f) <=> x \in HeldOf(rq, f) \/ (x = y /\ ref.file = f)
  <2>1. PICK s \in Tags, i \in Nat : x = <<s, i>>
    OBVIOUS
  <2>2. /\ x \in HeldOf(rq', f) <=> i \in 1 .. Len(rq'[s].held) /\ rq'[s].held[i].file = f
        /\ x \in HeldOf(rq, f) <=> i \in 1 .. Len(rq[s].held) /\ rq[s].held[i].file = f
        /\ x = y <=> s = r /\ i = k + 1
    BY <2>1 DEF HeldOf
  <2>3. CASE s # r
    BY <1>3, <2>2, <2>3
  <2>4. CASE s = r
    <3>1. i \in 1 .. k + 1 <=> i \in 1 .. k \/ i = k + 1
      BY <1>1
    <3>2. k + 1 \notin 1 .. k
      BY <1>1
    <3> QED
      BY <1>2, <2>2, <2>4, <3>1, <3>2
  <2> QED
    BY <2>3, <2>4
<1> HIDE DEF y
<1>6. HeldOf(rq', f) \subseteq Tags \X Nat /\ HeldOf(rq, f) \subseteq Tags \X Nat
  BY DEF HeldOf
<1>7. CASE ref.file = f
  <2>1. HeldOf(rq', f) = HeldOf(rq, f) \cup {y}
    BY <1>4, <1>5, <1>6, <1>7
  <2>2. /\ IsFiniteSet(HeldOf(rq', f))
        /\ Cardinality(HeldOf(rq', f)) = Cardinality(HeldOf(rq, f)) + 1
    BY <1>4, <2>1, FS_AddElement
  <2> QED
    BY <1>7, <2>2
<1>8. CASE ref.file # f
  <2>1. HeldOf(rq', f) = HeldOf(rq, f)
    BY <1>5, <1>6, <1>8
  <2>2. Cardinality(HeldOf(rq, f)) \in Nat
    BY FS_CardinalityType
  <2> QED
    BY <1>8, <2>1, <2>2
<1> QED
  BY <1>7, <1>8

\* A stack without its top.
LEMMA FrontIs ==
  ASSUME NEW S, NEW h \in Seq(S), Len(h) > 0
  PROVE  /\ SubSeq(h, 1, Len(h) - 1) \in Seq(S)
         /\ Len(SubSeq(h, 1, Len(h) - 1)) = Len(h) - 1
         /\ \A i \in 1 .. Len(h) - 1 : SubSeq(h, 1, Len(h) - 1)[i] = h[i]
<1> DEFINE k == Len(h) - 1
<1>1. k \in Nat /\ Len(h) \in Nat /\ k = Len(h) - 1
  OBVIOUS
<1> HIDE DEF k
<1>2. SubSeq(h, 1, k) = [i \in 1 .. k |-> h[i]]
  BY <1>1
<1>3. \A i \in 1 .. k : h[i] \in S
  BY <1>1
<1> DEFINE g == SubSeq(h, 1, k)
<1>4. g \in [1 .. k -> S] /\ \A i \in 1 .. k : g[i] = h[i]
  BY <1>2, <1>3
<1> HIDE DEF g
<1>5. g \in Seq(S) /\ Len(g) = k
  BY <1>1, <1>4
<1> QED
  BY <1>4, <1>5 DEF g, k

\* One local variable less.
LEMMA HeldPop ==
  ASSUME TypeOK, NEW r \in Tags, Others(r), Len(rq[r].held) > 0,
         rq'[r].held = Pop(r), NEW f, IsFiniteSet(HeldOf(rq, f))
  PROVE  /\ IsFiniteSet(HeldOf(rq', f))
         /\ Cardinality(HeldOf(rq', f)) =
              Cardinality(HeldOf(rq, f)) - (IF Top(r).file = f THEN 1 ELSE 0)
<1> DEFINE h == rq[r].held
           k == Len(h)
           y == <<r, k>>
           h2 == rq'[r].held
<1>1. h \in Seq(Refs) /\ k \in Nat \ {0}
  BY RequestType
<1>2. Len(h2) = k - 1 /\ Top(r) = h[k] /\ \A i \in 1 .. k - 1 : h2[i] = h[i]
  <2>1. h2 = SubSeq(h, 1, k - 1)
    BY DEF Pop
  <2>2. Len(h2) = k - 1 /\ \A i \in 1 .. k - 1 : h2[i] = h[i]
    BY <1>1, <2>1, FrontIs
  <2> QED
    BY <2>2 DEF Top, h
<1>3. \A s \in Tags \ {r} : rq'[s].held = rq[s].held
  BY DEF Others
<1>4. y \in Tags \X Nat /\ (Top(r).file = f <=> y \in HeldOf(rq, f))
  BY <1>1, <1>2 DEF HeldOf
<1>5. ASSUME NEW x \in Tags \X Nat
      PROVE  x \in HeldOf(rq', f) <=> x \in HeldOf(rq, f) /\ x # y
  <2>1. PICK s \in Tags, i \in Nat : x = <<s, i>>
    OBVIOUS
  <2>2. /\ x \in HeldOf(rq', f) <=> i \in 1 .. Len(rq'[s].held) /\ rq'[s].held[i].file = f
        /\ x \in HeldOf(rq, f) <=> i \in 1 .. Len(rq[s].held) /\ rq[s].held[i].file = f
        /\ x = y <=> s = r /\ i = k
    BY <2>1 DEF HeldOf
  <2>3. CASE s # r
    BY <1>3, <2>2, <2>3
  <2>4. CASE s = r
    <3>1. i \in 1 .. k <=> i \in 1 .. k - 1 \/ i = k
      BY <1>1
    <3>2. k \notin 1 .. k - 1
      BY <1>1
    <3> QED
      BY <1>2, <2>2, <2>4, <3>1, <3>2
  <2> QED
    BY <2>3, <2>4
<1> HIDE DEF y
<1>6. HeldOf(rq', f) \subseteq Tags \X Nat /\ HeldOf(rq, f) \subseteq Tags \X Nat
  BY DEF HeldOf
<1>7. HeldOf(rq', f) = HeldOf(rq, f) \ {y}
  BY <1>5, <1>6
<1>8. /\ IsFiniteSet(HeldOf(rq, f) \ {y})
      /\ Cardinality(HeldOf(rq, f) \ {y}) =
           IF y \in HeldOf(rq, f) THEN Cardinality(HeldOf(rq, f)) - 1 ELSE Cardinality(HeldOf(rq, f))
  BY FS_RemoveElement
<1>9. Cardinality(HeldOf(rq, f)) \in Nat
  BY FS_CardinalityType
<1> QED
  BY <1>4, <1>7, <1>8, <1>9

\* DecRefs under way.
LEMMA DropsChange ==
  ASSUME NEW r \in Tags, Others(r), NEW f
  PROVE  /\ rq[r].pc # "drop" /\ rq'[r].pc # "drop" => DropsOf(rq', f) = DropsOf(rq, f)
         /\ rq[r].pc # "drop" /\ rq'[r].pc = "drop" =>
              Cardinality(DropsOf(rq', f)) =
                Cardinality(DropsOf(rq, f)) + (IF rq'[r].drop.file = f THEN 1 ELSE 0)
         /\ rq[r].pc = "drop" /\ rq'[r].pc # "drop" =>
              Cardinality(DropsOf(rq', f)) =
                Cardinality(DropsOf(rq, f)) - (IF rq[r].drop.file = f THEN 1 ELSE 0)
<1> DEFINE D == DropsOf(rq, f)
           E == DropsOf(rq', f)
<1>1. \A s \in Tags \ {r} : s \in E <=> s \in D
  BY DEF Others, DropsOf
<1>2. /\ r \in D <=> rq[r].pc = "drop" /\ rq[r].drop.file = f
      /\ r \in E <=> rq'[r].pc = "drop" /\ rq'[r].drop.file = f
      /\ D \subseteq Tags /\ E \subseteq Tags
  BY DEF DropsOf
<1>3. D \in SUBSET Tags
  BY <1>2
<1>4. IsFiniteSet(D)
  BY <1>3, FiniteNumbers, FS_Subset
<1> HIDE DEF D, E
<1>5. Cardinality(D) \in Nat
  BY <1>4, FS_CardinalityType
<1>6. ASSUME rq[r].pc # "drop", rq'[r].pc # "drop" PROVE E = D
  BY <1>1, <1>2, <1>6
<1>7. ASSUME rq[r].pc # "drop", rq'[r].pc = "drop"
      PROVE  Cardinality(E) = Cardinality(D) + (IF rq'[r].drop.file = f THEN 1 ELSE 0)
  <2>1. CASE rq'[r].drop.file = f
    <3>1. E = D \cup {r} /\ r \notin D
      BY <1>1, <1>2, <1>7, <2>1
    <3> QED
      BY <1>4, <2>1, <3>1, FS_AddElement
  <2>2. CASE rq'[r].drop.file # f
    <3>1. E = D
      BY <1>1, <1>2, <1>7, <2>2
    <3> QED
      BY <1>5, <2>2, <3>1
  <2> QED
    BY <2>1, <2>2
<1>8. ASSUME rq[r].pc = "drop", rq'[r].pc # "drop"
      PROVE  Cardinality(E) = Cardinality(D) - (IF rq[r].drop.file = f THEN 1 ELSE 0)
  <2>1. CASE rq[r].drop.file = f
    <3>1. E = D \ {r} /\ r \in D
      BY <1>1, <1>2, <1>8, <2>1
    <3> QED
      BY <1>4, <2>1, <3>1, FS_RemoveElement
  <2>2. CASE rq[r].drop.file # f
    <3>1. E = D
      BY <1>1, <1>2, <1>8, <2>2
    <3> QED
      BY <1>5, <2>2, <3>1
  <2> QED
    BY <2>1, <2>2
<1> QED
  BY <1>6, <1>7, <1>8 DEF D, E

\* Two sets that differ in one element at most.
LEMMA OneDiffers ==
  ASSUME NEW S, IsFiniteSet(S), NEW D \in SUBSET S, NEW E \in SUBSET S, NEW x \in S,
         \A k \in S \ {x} : k \in E <=> k \in D
  PROVE  Cardinality(E) = Cardinality(D) + (IF x \in E THEN 1 ELSE 0) - (IF x \in D THEN 1 ELSE 0)
<1>1. IsFiniteSet(D)
  BY FS_Subset
<1>2. Cardinality(D) \in Nat
  BY <1>1, FS_CardinalityType
<1>3. CASE x \in D <=> x \in E
  <2>1. E = D
    BY <1>3
  <2> QED
    BY <1>2, <2>1
<1>4. CASE x \in E /\ x \notin D
  <2>1. E = D \cup {x}
    BY <1>4
  <2>2. Cardinality(E) = Cardinality(D) + 1
    BY <1>1, <1>4, <2>1, FS_AddElement
  <2> QED
    BY <1>2, <1>4, <2>2
<1>5. CASE x \in D /\ x \notin E
  <2>1. E = D \ {x}
    BY <1>5
  <2>2. Cardinality(E) = Cardinality(D) - 1
    BY <1>1, <1>5, <2>1, FS_RemoveElement
  <2> QED
    BY <1>2, <1>5, <2>2
<1> QED
  BY <1>3, <1>4, <1>5

\* The fid of a request that moves it.
LEMMA MovesAlone ==
  ASSUME TypeOK, ShapeInv, FidInv, NEW r \in Tags, MovingFid(rq[r])
  PROVE  /\ rq[r].fid \in Fids /\ rq[r].fid \in pool /\ fids[rq[r].fid].refs # 0
         /\ \A s \in Tags \ {r} : rq[s].fid # rq[r].fid
<1>1. rq[r].fid # NoFid /\ Rewrites(rq[r].op, rq[r].fid, rq[r].newfid) /\ Pinned(rq[r])
  BY DEF ShapeInv, Shape, MovingFid, Pinned, InDecRef
<1>2. rq[r].fid \in Fids /\ rq[r].fid \in pool /\ fids[rq[r].fid].refs # 0
  BY <1>1, PinnedFid
<1> QED
  BY <1>1, <1>2 DEF FidInv, Exclusive

\* The fids that own a file, when neither the pool nor a file of a fid nor
\* the moves change.
LEMMA OwnersSame ==
  ASSUME TypeOK, NEW r \in Tags, Others(r), pool' = pool,
         \A n \in Fids : fids'[n].file = fids[n].file,
         \/ ~MovingFid(rq[r]) /\ ~MovingFid(rq'[r])
         \/ Kept(r) /\ MovingFid(rq[r]) /\ MovingFid(rq'[r]),
         NEW f
  PROVE  OwnersOf(rq', pool', fids', f) = OwnersOf(rq, pool, fids, f)
<1>1. \A n \in pool : n \in Fids
  BY DEF TypeOK
<1>3. \A s \in Tags : \A n : (rq'[s].fid = n => ~MovingFid(rq'[s])) <=> (rq[s].fid = n => ~MovingFid(rq[s]))
  BY DEF Others, Kept
<1>4. /\ OwnersOf(rq, pool, fids, f) =
           {n \in pool : fids[n].file = f /\ \A s \in Tags : rq[s].fid = n => ~MovingFid(rq[s])}
      /\ OwnersOf(rq', pool', fids', f) =
           {n \in pool : fids'[n].file = f /\ \A s \in Tags : rq'[s].fid = n => ~MovingFid(rq'[s])}
  BY DEF OwnersOf
<1>5. \A n \in pool : /\ fids'[n].file = fids[n].file
                      /\ (\A s \in Tags : rq'[s].fid = n => ~MovingFid(rq'[s])) <=>
                         (\A s \in Tags : rq[s].fid = n => ~MovingFid(rq[s]))
  BY <1>1, <1>3
<1> QED
  BY <1>4, <1>5

\* A new fid owns the file it was made with.
LEMMA OwnersAdded ==
  ASSUME TypeOK, ShapeInv, FidInv, NEW r \in Tags, Others(r), ~MovingFid(rq[r]), ~MovingFid(rq'[r]),
         NEW m \in Fids, m \notin pool, pool' = pool \cup {m},
         \A k \in Fids \ {m} : fids'[k] = fids[k], NEW f
  PROVE  Cardinality(OwnersOf(rq', pool', fids', f)) =
           Cardinality(OwnersOf(rq, pool, fids, f)) + (IF fids'[m].file = f THEN 1 ELSE 0)
<1> DEFINE D == OwnersOf(rq, pool, fids, f)
           E == OwnersOf(rq', pool', fids', f)
<1>1. pool \subseteq Fids /\ D \in SUBSET Fids /\ E \in SUBSET Fids /\ m \notin D
  BY DEF TypeOK, OwnersOf
<1>2. \A s \in Tags : \A n : (rq'[s].fid = n => ~MovingFid(rq'[s])) <=> (rq[s].fid = n => ~MovingFid(rq[s]))
  BY DEF Others
<1>3. \A k \in Fids \ {m} : k \in E <=> k \in D
  BY <1>1, <1>2 DEF OwnersOf
<1>4. \A s \in Tags : rq'[s].fid = m => ~MovingFid(rq'[s])
  BY <1>2, MovesAlone
<1>5. m \in E <=> fids'[m].file = f
  BY <1>4 DEF OwnersOf
<1> HIDE DEF D, E
<1>6. Cardinality(E) = Cardinality(D) + (IF m \in E THEN 1 ELSE 0) - (IF m \in D THEN 1 ELSE 0)
  BY <1>1, <1>3, FiniteNumbers, OneDiffers
<1>7. Cardinality(D) \in Nat
  BY <1>1, FiniteNumbers, FS_Subset, FS_CardinalityType
<1> QED
  BY <1>1, <1>5, <1>6, <1>7 DEF D, E

\* A fid that is taken out of the pool owned its file.
LEMMA OwnersReaped ==
  ASSUME TypeOK, ShapeInv, FidInv, NEW r \in Tags, Others(r), ~MovingFid(rq[r]), ~MovingFid(rq'[r]),
         NEW n \in pool, fids[n].refs = 0, pool' = pool \ {n},
         \A k \in Fids \ {n} : fids'[k] = fids[k], NEW f
  PROVE  Cardinality(OwnersOf(rq', pool', fids', f)) =
           Cardinality(OwnersOf(rq, pool, fids, f)) - (IF fids[n].file = f THEN 1 ELSE 0)
<1> DEFINE D == OwnersOf(rq, pool, fids, f)
           E == OwnersOf(rq', pool', fids', f)
<1>1. n \in Fids /\ pool \subseteq Fids /\ D \in SUBSET Fids /\ E \in SUBSET Fids /\ n \notin E
  BY DEF TypeOK, OwnersOf
<1>2. \A s \in Tags : \A k : (rq'[s].fid = k => ~MovingFid(rq'[s])) <=> (rq[s].fid = k => ~MovingFid(rq[s]))
  BY DEF Others
<1>3. \A k \in Fids \ {n} : k \in E <=> k \in D
  BY <1>1, <1>2 DEF OwnersOf
<1>4. \A s \in Tags : rq[s].fid = n => ~MovingFid(rq[s])
  BY MovesAlone
<1>5. n \in D <=> fids[n].file = f
  BY <1>4 DEF OwnersOf
<1> HIDE DEF D, E
<1>6. Cardinality(E) = Cardinality(D) + (IF n \in E THEN 1 ELSE 0) - (IF n \in D THEN 1 ELSE 0)
  BY <1>1, <1>3, FiniteNumbers, OneDiffers
<1>7. Cardinality(D) \in Nat
  BY <1>1, FiniteNumbers, FS_Subset, FS_CardinalityType
<1> QED
  BY <1>1, <1>5, <1>6, <1>7 DEF D, E

\* A fid that begins to move gives its file up.
LEMMA OwnersLeft ==
  ASSUME TypeOK, ShapeInv, FidInv, NEW r \in Tags, Others(r), Kept(r),
         ~MovingFid(rq[r]), MovingFid(rq'[r]), Shape(rq'[r]), rq[r].fid \in pool,
         pool' = pool, fids' = fids, NEW f
  PROVE  Cardinality(OwnersOf(rq', pool', fids', f)) =
           Cardinality(OwnersOf(rq, pool, fids, f)) - (IF fids[rq[r].fid].file = f THEN 1 ELSE 0)
<1> DEFINE D == OwnersOf(rq, pool, fids, f)
           E == OwnersOf(rq', pool', fids', f)
           n == rq[r].fid
<1>1. n \in Fids /\ pool \subseteq Fids /\ D \in SUBSET Fids /\ E \in SUBSET Fids /\ n \notin E
  BY DEF TypeOK, OwnersOf, Kept
<1>2. \A s \in Tags : s # r => rq'[s] = rq[s]
  BY DEF Others
<1>3. \A k \in Fids \ {n} : k \in E <=> k \in D
  BY <1>1, <1>2 DEF OwnersOf, Kept
<1>4. \A s \in Tags : rq[s].fid = n => ~MovingFid(rq[s])
  BY NoFidFresh DEF Shape, Kept, FidInv, Exclusive
<1>5. n \in D <=> fids[n].file = f
  BY <1>4 DEF OwnersOf
<1> HIDE DEF D, E
<1>6. Cardinality(E) = Cardinality(D) + (IF n \in E THEN 1 ELSE 0) - (IF n \in D THEN 1 ELSE 0)
  BY <1>1, <1>3, FiniteNumbers, OneDiffers
<1>7. Cardinality(D) \in Nat
  BY <1>1, FiniteNumbers, FS_Subset, FS_CardinalityType
<1> QED
  BY <1>1, <1>5, <1>6, <1>7 DEF D, E

\* A fid that has moved owns the file it moved to.
LEMMA OwnersMoved ==
  ASSUME TypeOK, ShapeInv, FidInv, NEW r \in Tags, Others(r), Kept(r),
         MovingFid(rq[r]), ~MovingFid(rq'[r]), pool' = pool,
         \A k \in Fids \ {rq[r].fid} : fids'[k] = fids[k], NEW f
  PROVE  Cardinality(OwnersOf(rq', pool', fids', f)) =
           Cardinality(OwnersOf(rq, pool, fids, f)) + (IF fids'[rq[r].fid].file = f THEN 1 ELSE 0)
<1> DEFINE D == OwnersOf(rq, pool, fids, f)
           E == OwnersOf(rq', pool', fids', f)
           n == rq[r].fid
<1>1. n \in Fids /\ n \in pool /\ \A s \in Tags \ {r} : rq[s].fid # n
  BY MovesAlone
<1>2. pool \subseteq Fids /\ D \in SUBSET Fids /\ E \in SUBSET Fids /\ n \notin D
  BY DEF TypeOK, OwnersOf
<1>3. \A s \in Tags : s # r => rq'[s] = rq[s]
  BY DEF Others
<1>4. \A k \in Fids \ {n} : k \in E <=> k \in D
  BY <1>2, <1>3 DEF OwnersOf, Kept
<1>5. n \in E <=> fids'[n].file = f
  BY <1>1, <1>3 DEF OwnersOf
<1> HIDE DEF D, E
<1>6. Cardinality(E) = Cardinality(D) + (IF n \in E THEN 1 ELSE 0) - (IF n \in D THEN 1 ELSE 0)
  BY <1>1, <1>2, <1>4, FiniteNumbers, OneDiffers
<1>7. Cardinality(D) \in Nat
  BY <1>2, FiniteNumbers, FS_Subset, FS_CardinalityType
<1> QED
  BY <1>2, <1>5, <1>6, <1>7 DEF D, E

\* The references to a file and its count change alike.
LEMMA Balance ==
  ASSUME TypeOK, FileInv, pool' \in SUBSET Fids, NEW f \in Files, IsFiniteSet(HeldOf(rq', f)),
         refs'[f] \in Int,
         Cardinality(OwnersOf(rq', pool', fids', f)) + Cardinality(HeldOf(rq', f))
             + Cardinality(DropsOf(rq', f)) + refs[f] =
           Cardinality(OwnersOf(rq, pool, fids, f)) + Cardinality(HeldOf(rq, f))
             + Cardinality(DropsOf(rq, f)) + refs'[f]
  PROVE  IsFiniteSet(HeldOf(rq', f)) /\ refs'[f] = Total(rq', pool', fids', f)
<1>1. pool \in SUBSET Fids
  BY DEF TypeOK
<1>2. IsFiniteSet(HeldOf(rq, f)) /\ refs[f] = Total(rq, pool, fids, f)
  BY DEF FileInv
<1>3. /\ Cardinality(OwnersOf(rq, pool, fids, f)) \in Nat /\ Cardinality(HeldOf(rq, f)) \in Nat
      /\ Cardinality(DropsOf(rq, f)) \in Nat
  BY <1>1, <1>2, CountsFinite
<1>4. /\ Cardinality(OwnersOf(rq', pool', fids', f)) \in Nat /\ Cardinality(HeldOf(rq', f)) \in Nat
      /\ Cardinality(DropsOf(rq', f)) \in Nat
  BY CountsFinite
<1> QED
  BY <1>2, <1>3, <1>4 DEF Total

\* The counts of a step without a change of references.
LEMMA FilesSame ==
  ASSUME TypeOK, FileInv, NEW r \in Tags, Others(r), pool' = pool, refs' = refs,
         rq'[r].held = rq[r].held, rq[r].pc # "drop", rq'[r].pc # "drop",
         \A n \in Fids : fids'[n].file = fids[n].file,
         \/ ~MovingFid(rq[r]) /\ ~MovingFid(rq'[r])
         \/ Kept(r) /\ MovingFid(rq[r]) /\ MovingFid(rq'[r])
  PROVE  FileInv'
<1>1. ASSUME NEW f \in Files
      PROVE  IsFiniteSet(HeldOf(rq', f)) /\ refs'[f] = Total(rq', pool', fids', f)
  <2>1. /\ HeldOf(rq', f) = HeldOf(rq, f) /\ DropsOf(rq', f) = DropsOf(rq, f)
        /\ OwnersOf(rq', pool', fids', f) = OwnersOf(rq, pool, fids, f)
    BY HeldSame, DropsChange, OwnersSame
  <2>2. IsFiniteSet(HeldOf(rq, f)) /\ refs[f] = Total(rq, pool, fids, f)
    BY DEF FileInv
  <2> QED
    BY <2>1, <2>2 DEF Total
<1> QED
  BY <1>1 DEF FileInv

\* DecRef is called on the innermost local variable.
LEMMA FilesTopDropped ==
  ASSUME TypeOK, FileInv, NEW r \in Tags, Others(r), pool' = pool, fids' = fids, refs' = refs,
         Len(rq[r].held) > 0, rq'[r].held = Pop(r), rq'[r].drop = Top(r),
         rq[r].pc # "drop", rq'[r].pc = "drop", ~MovingFid(rq[r]), ~MovingFid(rq'[r])
  PROVE  FileInv'
<1>1. ASSUME NEW f \in Files
      PROVE  IsFiniteSet(HeldOf(rq', f)) /\ refs'[f] = Total(rq', pool', fids', f)
  <2> DEFINE d == IF Top(r).file = f THEN 1 ELSE 0
  <2>1. d \in Int
    OBVIOUS
  <2>2. IsFiniteSet(HeldOf(rq, f)) /\ pool \in SUBSET Fids /\ refs[f] \in Nat
    BY DEF FileInv, TypeOK
  <2>3. OwnersOf(rq', pool', fids', f) = OwnersOf(rq, pool, fids, f)
    BY OwnersSame
  <2>4. /\ Cardinality(OwnersOf(rq, pool, fids, f)) \in Nat /\ Cardinality(HeldOf(rq, f)) \in Nat
        /\ Cardinality(DropsOf(rq, f)) \in Nat
    BY <2>2, CountsFinite
  <2>5. IsFiniteSet(HeldOf(rq', f)) /\ Cardinality(HeldOf(rq', f)) = Cardinality(HeldOf(rq, f)) - d
    BY <2>2, HeldPop
  <2>6. Cardinality(DropsOf(rq', f)) = Cardinality(DropsOf(rq, f)) + d
    BY DropsChange
  <2> HIDE DEF d
  <2>7. refs'[f] \in Int /\ IsFiniteSet(HeldOf(rq', f))
    BY <2>1, <2>2, <2>5
  <2>8. Cardinality(OwnersOf(rq', pool', fids', f)) + Cardinality(HeldOf(rq', f))
            + Cardinality(DropsOf(rq', f)) + refs[f] =
          Cardinality(OwnersOf(rq, pool, fids, f)) + Cardinality(HeldOf(rq, f))
            + Cardinality(DropsOf(rq, f)) + refs'[f]
    BY <2>1, <2>2, <2>3, <2>4, <2>5, <2>6
  <2> QED
    BY <2>2, <2>7, <2>8, Balance
<1> QED
  BY <1>1 DEF FileInv

\* DecRef is called on the file of a fid that leaves or moves.
LEMMA FilesFidDropped ==
  ASSUME TypeOK, FileInv, NEW r \in Tags, Others(r), refs' = refs, pool' \in SUBSET Fids, NEW g,
         rq'[r].held = rq[r].held, rq'[r].drop.file = g, rq[r].pc # "drop", rq'[r].pc = "drop",
         \A f \in Files : Cardinality(OwnersOf(rq', pool', fids', f)) =
                            Cardinality(OwnersOf(rq, pool, fids, f)) - (IF g = f THEN 1 ELSE 0)
  PROVE  FileInv'
<1>1. ASSUME NEW f \in Files
      PROVE  IsFiniteSet(HeldOf(rq', f)) /\ refs'[f] = Total(rq', pool', fids', f)
  <2> DEFINE d == IF g = f THEN 1 ELSE 0
  <2>1. d \in Int
    OBVIOUS
  <2>2. IsFiniteSet(HeldOf(rq, f)) /\ pool \in SUBSET Fids /\ refs[f] \in Nat
    BY DEF FileInv, TypeOK
  <2>3. Cardinality(OwnersOf(rq', pool', fids', f)) = Cardinality(OwnersOf(rq, pool, fids, f)) - d
    OBVIOUS
  <2>4. /\ Cardinality(OwnersOf(rq, pool, fids, f)) \in Nat /\ Cardinality(HeldOf(rq, f)) \in Nat
        /\ Cardinality(DropsOf(rq, f)) \in Nat
    BY <2>2, CountsFinite
  <2>5. HeldOf(rq', f) = HeldOf(rq, f)
    BY HeldSame
  <2>6. Cardinality(DropsOf(rq', f)) = Cardinality(DropsOf(rq, f)) + d
    BY DropsChange
  <2> HIDE DEF d
  <2>7. refs'[f] \in Int /\ IsFiniteSet(HeldOf(rq', f))
    BY <2>1, <2>2, <2>5
  <2>8. Cardinality(OwnersOf(rq', pool', fids', f)) + Cardinality(HeldOf(rq', f))
            + Cardinality(DropsOf(rq', f)) + refs[f] =
          Cardinality(OwnersOf(rq, pool, fids, f)) + Cardinality(HeldOf(rq, f))
            + Cardinality(DropsOf(rq, f)) + refs'[f]
    BY <2>1, <2>2, <2>3, <2>4, <2>5, <2>6
  <2> QED
    BY <2>2, <2>7, <2>8, Balance
<1> QED
  BY <1>1 DEF FileInv

\* A local variable becomes the file of a fid.
LEMMA FilesGiven ==
  ASSUME TypeOK, FileInv, NEW r \in Tags, Others(r), refs' = refs, pool' \in SUBSET Fids,
         Len(rq[r].held) > 0, rq'[r].held = Pop(r), rq[r].pc # "drop", rq'[r].pc # "drop",
         \A f \in Files : Cardinality(OwnersOf(rq', pool', fids', f)) =
                            Cardinality(OwnersOf(rq, pool, fids, f)) + (IF Top(r).file = f THEN 1 ELSE 0)
  PROVE  FileInv'
<1>1. ASSUME NEW f \in Files
      PROVE  IsFiniteSet(HeldOf(rq', f)) /\ refs'[f] = Total(rq', pool', fids', f)
  <2> DEFINE d == IF Top(r).file = f THEN 1 ELSE 0
  <2>1. d \in Int
    OBVIOUS
  <2>2. IsFiniteSet(HeldOf(rq, f)) /\ pool \in SUBSET Fids /\ refs[f] \in Nat
    BY DEF FileInv, TypeOK
  <2>3. Cardinality(OwnersOf(rq', pool', fids', f)) = Cardinality(OwnersOf(rq, pool, fids, f)) + d
    OBVIOUS
  <2>4. /\ Cardinality(OwnersOf(rq, pool, fids, f)) \in Nat /\ Cardinality(HeldOf(rq, f)) \in Nat
        /\ Cardinality(DropsOf(rq, f)) \in Nat
    BY <2>2, CountsFinite
  <2>5. IsFiniteSet(HeldOf(rq', f)) /\ Cardinality(HeldOf(rq', f)) = Cardinality(HeldOf(rq, f)) - d
    BY <2>2, HeldPop
  <2>6. DropsOf(rq', f) = DropsOf(rq, f)
    BY DropsChange
  <2> HIDE DEF d
  <2>7. refs'[f] \in Int /\ IsFiniteSet(HeldOf(rq', f))
    BY <2>1, <2>2, <2>5
  <2>8. Cardinality(OwnersOf(rq', pool', fids', f)) + Cardinality(HeldOf(rq', f))
            + Cardinality(DropsOf(rq', f)) + refs[f] =
          Cardinality(OwnersOf(rq, pool, fids, f)) + Cardinality(HeldOf(rq, f))
            + Cardinality(DropsOf(rq, f)) + refs'[f]
    BY <2>1, <2>2, <2>3, <2>4, <2>5, <2>6
  <2> QED
    BY <2>2, <2>7, <2>8, Balance
<1> QED
  BY <1>1 DEF FileInv

\* One more reference, in a local variable.
LEMMA FilesPushed ==
  ASSUME TypeOK, FileInv, NEW r \in Tags, Others(r), pool' = pool, fids' = fids, NEW ref \in Refs,
         \A f \in Files : refs'[f] = refs[f] + (IF ref.file = f THEN 1 ELSE 0),
         rq'[r].held = Append(rq[r].held, ref), rq[r].pc # "drop", rq'[r].pc # "drop",
         ~MovingFid(rq[r]), ~MovingFid(rq'[r])
  PROVE  FileInv'
<1>1. ASSUME NEW f \in Files
      PROVE  IsFiniteSet(HeldOf(rq', f)) /\ refs'[f] = Total(rq', pool', fids', f)
  <2> DEFINE d == IF ref.file = f THEN 1 ELSE 0
  <2>1. d \in Int
    OBVIOUS
  <2>2. IsFiniteSet(HeldOf(rq, f)) /\ pool \in SUBSET Fids /\ refs[f] \in Nat /\ refs'[f] = refs[f] + d
    BY DEF FileInv, TypeOK
  <2>3. OwnersOf(rq', pool', fids', f) = OwnersOf(rq, pool, fids, f)
    BY OwnersSame
  <2>4. /\ Cardinality(OwnersOf(rq, pool, fids, f)) \in Nat /\ Cardinality(HeldOf(rq, f)) \in Nat
        /\ Cardinality(DropsOf(rq, f)) \in Nat
    BY <2>2, CountsFinite
  <2>5. IsFiniteSet(HeldOf(rq', f)) /\ Cardinality(HeldOf(rq', f)) = Cardinality(HeldOf(rq, f)) + d
    BY <2>2, HeldPush
  <2>6. DropsOf(rq', f) = DropsOf(rq, f)
    BY DropsChange
  <2> HIDE DEF d
  <2>7. refs'[f] \in Int /\ IsFiniteSet(HeldOf(rq', f))
    BY <2>1, <2>2, <2>5
  <2>8. Cardinality(OwnersOf(rq', pool', fids', f)) + Cardinality(HeldOf(rq', f))
            + Cardinality(DropsOf(rq', f)) + refs[f] =
          Cardinality(OwnersOf(rq, pool, fids, f)) + Cardinality(HeldOf(rq, f))
            + Cardinality(DropsOf(rq, f)) + refs'[f]
    BY <2>1, <2>2, <2>3, <2>4, <2>5, <2>6
  <2> QED
    BY <2>2, <2>7, <2>8, Balance
<1> QED
  BY <1>1 DEF FileInv

\* A DecRef under way has a reference to take.
LEMMA DropCounted ==
  ASSUME TypeOK, FileInv, NEW r \in Tags, rq[r].pc = "drop"
  PROVE  rq[r].drop.file \in Files /\ refs[rq[r].drop.file] > 0
<1> DEFINE f == rq[r].drop.file
<1>1. f \in Files
  BY RequestType DEF Refs
<1> HIDE DEF f
<1>2. r \in DropsOf(rq, f)
  BY DEF DropsOf, f
<1>3. IsFiniteSet(HeldOf(rq, f)) /\ refs[f] = Total(rq, pool, fids, f) /\ pool \in SUBSET Fids
  BY <1>1 DEF FileInv, TypeOK
<1>4. /\ IsFiniteSet(DropsOf(rq, f)) /\ Cardinality(DropsOf(rq, f)) \in Nat
      /\ Cardinality(OwnersOf(rq, pool, fids, f)) \in Nat /\ Cardinality(HeldOf(rq, f)) \in Nat
  BY <1>3, CountsFinite
<1>5. Cardinality(DropsOf(rq, f)) # 0
  BY <1>2, <1>4, FS_EmptySet
<1>6. refs[f] > 0
  BY <1>3, <1>4, <1>5 DEF Total
<1> QED
  BY <1>1, <1>6 DEF f

\* The decrement.
LEMMA FilesDropped ==
  ASSUME TypeOK, FileInv, NEW r \in Tags, Others(r), pool' = pool, fids' = fids,
         \A f \in Files : refs'[f] = refs[f] - (IF rq[r].drop.file = f THEN 1 ELSE 0),
         rq'[r].held = rq[r].held, rq[r].pc = "drop", rq'[r].pc # "drop",
         \/ ~MovingFid(rq[r]) /\ ~MovingFid(rq'[r])
         \/ Kept(r) /\ MovingFid(rq[r]) /\ MovingFid(rq'[r])
  PROVE  FileInv'
<1>1. ASSUME NEW f \in Files
      PROVE  IsFiniteSet(HeldOf(rq', f)) /\ refs'[f] = Total(rq', pool', fids', f)
  <2> DEFINE d == IF rq[r].drop.file = f THEN 1 ELSE 0
  <2>1. d \in Int
    OBVIOUS
  <2>2. IsFiniteSet(HeldOf(rq, f)) /\ pool \in SUBSET Fids /\ refs[f] \in Nat /\ refs'[f] = refs[f] - d
    BY DEF FileInv, TypeOK
  <2>3. OwnersOf(rq', pool', fids', f) = OwnersOf(rq, pool, fids, f)
    BY OwnersSame
  <2>4. /\ Cardinality(OwnersOf(rq, pool, fids, f)) \in Nat /\ Cardinality(HeldOf(rq, f)) \in Nat
        /\ Cardinality(DropsOf(rq, f)) \in Nat
    BY <2>2, CountsFinite
  <2>5. HeldOf(rq', f) = HeldOf(rq, f)
    BY HeldSame
  <2>6. Cardinality(DropsOf(rq', f)) = Cardinality(DropsOf(rq, f)) - d
    BY DropsChange
  <2> HIDE DEF d
  <2>7. refs'[f] \in Int /\ IsFiniteSet(HeldOf(rq', f))
    BY <2>1, <2>2, <2>5
  <2>8. Cardinality(OwnersOf(rq', pool', fids', f)) + Cardinality(HeldOf(rq', f))
            + Cardinality(DropsOf(rq', f)) + refs[f] =
          Cardinality(OwnersOf(rq, pool, fids, f)) + Cardinality(HeldOf(rq, f))
            + Cardinality(DropsOf(rq, f)) + refs'[f]
    BY <2>1, <2>2, <2>3, <2>4, <2>5, <2>6
  <2> QED
    BY <2>2, <2>7, <2>8, Balance
<1> QED
  BY <1>1 DEF FileInv

\* A File that nothing refers to has the count zero.
LEMMA UnusedZero ==
  ASSUME TypeOK, FileInv, NEW f \in Unused
  PROVE  f \in Files /\ f # RootFile /\ refs[f] = 0
<1>1. f \in Files /\ f # RootFile
  BY DEF Unused
<1>2. OwnersOf(rq, pool, fids, f) = {}
  BY DEF OwnersOf, Unused
<1>3. DropsOf(rq, f) = {}
  BY DEF DropsOf, Unused
<1>4. HeldOf(rq, f) = {}
  BY DEF HeldOf, Unused
<1>5. refs[f] = Cardinality({}) + Cardinality({}) + Cardinality({}) + 0
  BY <1>1, <1>2, <1>3, <1>4 DEF FileInv, Total
<1> QED
  BY <1>1, <1>5, FS_EmptySet

-----------------------------------------------------------------------------
(* The entries of the map.                                                 *)

\* What the request of a step and the fids refer to after it has the path of
\* its entry.
PathsRight(r) ==
  /\ Named(files', rq'[r].drop)
  /\ \A i \in 1 .. Len(rq'[r].held) : Named(files', rq'[r].held[i])
  /\ \A n \in pool' : Named(files', fids'[n])

\* The elements of a stack with one more on top.
LEMMA AppendIs ==
  ASSUME NEW S, NEW h \in Seq(S), NEW x
  PROVE  \A i \in 1 .. Len(Append(h, x)) :
           (i \in 1 .. Len(h) /\ Append(h, x)[i] = h[i]) \/ Append(h, x)[i] = x
<1>1. Len(h) \in Nat /\ Len(Append(h, x)) = Len(h) + 1
  OBVIOUS
<1>2. \A i \in 1 .. Len(h) + 1 : i \in 1 .. Len(h) \/ i = Len(h) + 1
  BY <1>1
<1>3. Append(h, x)[Len(h) + 1] = x /\ \A i \in 1 .. Len(h) : Append(h, x)[i] = h[i]
  OBVIOUS
<1> QED
  BY <1>1, <1>2, <1>3

\* The root is in the map under its path.
LEMMA RootNamed ==
  ASSUME TypeOK, PathInv
  PROVE  Named(files, Idle.drop) /\ files[Root] # NoFile
<1>1. files[Root] = RootFile /\ RootFile # NoFile /\ Root \in Paths
  BY FilesKnown, ParentType DEF PathInv
<1>2. \A p \in Paths : files[p] = RootFile => p = Root
  BY <1>1 DEF PathInv
<1>3. Idle.drop.file = RootFile /\ Idle.drop.path = Root
  BY IdleType
<1> QED
  BY <1>1, <1>2, <1>3 DEF Named

\* A step that leaves the map and takes no count to zero.
LEMMA EntriesSame ==
  ASSUME TypeOK, EntryInv, NEW r \in Tags, Others(r), files' = files, rq[r].pc # "reap",
         \A f \in Files : refs'[f] = 0 => refs[f] = 0,
         "create" \notin Ops /\ PathInv => PathsRight(r)
  PROVE  EntryInv'
<1> SUFFICES ASSUME "create" \notin Ops
             PROVE  PathInv' /\ NoEntryLeft'
  BY DEF EntryInv
<1>1. PathInv /\ NoEntryLeft /\ PathsRight(r)
  BY DEF EntryInv
<1>2. \A s \in Tags : /\ Named(files', rq'[s].drop)
                      /\ \A i \in 1 .. Len(rq'[s].held) : Named(files', rq'[s].held[i])
  BY <1>1 DEF PathInv, PathsRight, Others
<1>3. PathInv'
  BY <1>1, <1>2 DEF PathInv, PathsRight
<1>4. NoEntryLeft'
  <2> SUFFICES ASSUME NEW p \in Paths \ {Root}, files[p] # NoFile, refs'[files[p]] = 0
               PROVE  \E s \in Tags : rq'[s].pc = "reap" /\ rq'[s].drop = [file |-> files[p], path |-> p]
    BY DEF NoEntryLeft, At
  <2>1. refs[files[p]] = 0
    BY DEF TypeOK
  <2>2. PICK s \in Tags : rq[s].pc = "reap" /\ rq[s].drop = [file |-> files[p], path |-> p]
    BY <1>1, <2>1 DEF NoEntryLeft, At
  <2>3. rq'[s] = rq[s]
    BY <2>2 DEF Others
  <2> QED
    BY <2>2, <2>3
<1> QED
  BY <1>3, <1>4

\* A DecRef that takes the last reference is to remove the entry.
LEMMA EntriesDropped ==
  ASSUME TypeOK, EntryInv, NEW r \in Tags, Others(r), files' = files, rq[r].pc = "drop",
         \A f \in Files : f # rq[r].drop.file => refs'[f] = refs[f],
         refs'[rq[r].drop.file] = 0 => rq'[r].pc = "reap" /\ rq'[r].drop = rq[r].drop,
         "create" \notin Ops /\ PathInv => PathsRight(r)
  PROVE  EntryInv'
<1> SUFFICES ASSUME "create" \notin Ops
             PROVE  PathInv' /\ NoEntryLeft'
  BY DEF EntryInv
<1>1. PathInv /\ NoEntryLeft /\ PathsRight(r)
  BY DEF EntryInv
<1>2. \A s \in Tags : /\ Named(files', rq'[s].drop)
                      /\ \A i \in 1 .. Len(rq'[s].held) : Named(files', rq'[s].held[i])
  BY <1>1 DEF PathInv, PathsRight, Others
<1>3. PathInv'
  BY <1>1, <1>2 DEF PathInv, PathsRight
<1>4. NoEntryLeft'
  <2> SUFFICES ASSUME NEW p \in Paths \ {Root}, files[p] # NoFile, refs'[files[p]] = 0
               PROVE  \E s \in Tags : rq'[s].pc = "reap" /\ rq'[s].drop = [file |-> files[p], path |-> p]
    BY DEF NoEntryLeft, At
  <2>1. CASE files[p] = rq[r].drop.file
    <3>1. rq[r].drop.path = p
      BY <1>1, <2>1 DEF PathInv, Named
    <3>2. rq[r].drop = [file |-> files[p], path |-> p]
      BY <2>1, <3>1, RequestType DEF Refs
    <3> QED
      BY <2>1, <3>2
  <2>2. CASE files[p] # rq[r].drop.file
    <3>1. refs[files[p]] = 0
      BY <2>2 DEF TypeOK
    <3>2. PICK s \in Tags : rq[s].pc = "reap" /\ rq[s].drop = [file |-> files[p], path |-> p]
      BY <1>1, <3>1 DEF NoEntryLeft, At
    <3>3. rq'[s] = rq[s]
      BY <3>2 DEF Others
    <3> QED
      BY <3>2, <3>3
  <2> QED
    BY <2>1, <2>2
<1> QED
  BY <1>3, <1>4

\* The entry is removed, unless the file is in use again or is the root.
LEMMA EntriesReaped ==
  ASSUME TypeOK, EntryInv, NEW r \in Tags, Others(r), rq[r].pc = "reap", refs' = refs,
         files' = IF refs[rq[r].drop.file] # 0 \/ rq[r].drop.path = Root
                  THEN files ELSE [files EXCEPT ![rq[r].drop.path] = NoFile],
         rq'[r].drop = Idle.drop, rq'[r].held = rq[r].held \/ rq'[r].held = <<>>,
         pool' = pool, fids' = fids
  PROVE  EntryInv'
<1> SUFFICES ASSUME "create" \notin Ops
             PROVE  PathInv' /\ NoEntryLeft'
  BY DEF EntryInv
<1>1. PathInv /\ NoEntryLeft
  BY DEF EntryInv
<1>2. rq[r].drop.path \in Paths /\ rq[r].drop.file \in Files /\ Root \in Paths
  BY RequestType, ParentType DEF Refs
<1>3. \A p \in Paths : files'[p] = files[p] \/ (p = rq[r].drop.path /\ p # Root /\ files'[p] = NoFile)
  BY <1>2 DEF TypeOK
<1>4. ASSUME NEW ref, ref.file \in Files, Named(files, ref)
      PROVE  Named(files', ref)
  BY <1>3, <1>4, FilesKnown DEF Named
<1>5. \A s \in Tags : /\ Named(files', rq'[s].drop)
                      /\ \A i \in 1 .. Len(rq'[s].held) : Named(files', rq'[s].held[i])
  <2> SUFFICES ASSUME NEW s \in Tags
               PROVE  /\ Named(files', rq'[s].drop)
                      /\ \A i \in 1 .. Len(rq'[s].held) : Named(files', rq'[s].held[i])
    OBVIOUS
  <2>1. rq[s].held \in Seq(Refs) /\ rq[s].drop \in Refs
    BY RequestType
  <2>2. Named(files', rq[s].drop)
    BY <1>1, <1>4, <2>1 DEF PathInv, Refs
  <2>3. \A i \in 1 .. Len(rq[s].held) : rq[s].held[i].file \in Files
    <3>1. \A i \in 1 .. Len(rq[s].held) : rq[s].held[i] \in Refs
      BY <2>1
    <3>2. \A ref \in Refs : ref.file \in Files
      BY DEF Refs
    <3> QED
      BY <3>1, <3>2
  <2>4. \A i \in 1 .. Len(rq[s].held) : Named(files', rq[s].held[i])
    BY <1>1, <1>4, <2>3 DEF PathInv
  <2>5. Named(files', Idle.drop)
    BY <1>1, <1>4, RootNamed, IdleType, FilesKnown
  <2>6. CASE s # r
    BY <2>2, <2>4, <2>6 DEF Others
  <2>7. CASE s = r
    <3>1. Len(<<>>) = 0 /\ 1 .. 0 = {}
      OBVIOUS
    <3>2. \A i \in 1 .. Len(rq'[r].held) : Named(files', rq'[r].held[i])
      BY <2>4, <2>7, <3>1
    <3> QED
      BY <2>5, <2>7, <3>2
  <2> QED
    BY <2>6, <2>7
<1>6. \A n \in pool : Named(files', fids[n])
  <2> SUFFICES ASSUME NEW n \in pool PROVE Named(files', fids[n])
    OBVIOUS
  <2>1. fids[n].file \in Files
    BY DEF TypeOK
  <2> QED
    BY <1>1, <1>4, <2>1 DEF PathInv
<1>7. files'[Root] = RootFile /\ \A p, q \in Paths : files'[p] = files'[q] /\ files'[p] # NoFile => p = q
  BY <1>1, <1>2, <1>3 DEF PathInv
<1>8. PathInv'
  BY <1>5, <1>6, <1>7 DEF PathInv
<1>9. NoEntryLeft'
  <2> SUFFICES ASSUME NEW p \in Paths \ {Root}, files'[p] # NoFile, refs[files'[p]] = 0
               PROVE  \E s \in Tags : rq'[s].pc = "reap" /\ rq'[s].drop = [file |-> files'[p], path |-> p]
    BY DEF NoEntryLeft, At
  <2>1. files'[p] = files[p]
    BY <1>3
  <2>2. PICK s \in Tags : rq[s].pc = "reap" /\ rq[s].drop = [file |-> files[p], path |-> p]
    BY <1>1, <2>1 DEF NoEntryLeft, At
  <2>3. s # r
    <3> SUFFICES ASSUME s = r PROVE FALSE
      OBVIOUS
    <3>1. rq[r].drop.file = files[p] /\ rq[r].drop.path = p
      BY <2>2
    <3>2. files' = [files EXCEPT ![p] = NoFile]
      BY <2>1, <3>1
    <3> QED
      BY <3>2 DEF TypeOK
  <2>4. rq'[s] = rq[s]
    BY <2>3 DEF Others
  <2> QED
    BY <2>1, <2>2, <2>4
<1> QED
  BY <1>8, <1>9

\* A new entry, for a File that nothing refers to.
LEMMA EntriesAdded ==
  ASSUME TypeOK, EntryInv, NEW r \in Tags, Others(r), rq[r].pc # "reap", NEW g \in Unused,
         files[rq[r].path] = NoFile, files' = [files EXCEPT ![rq[r].path] = g],
         refs' = [refs EXCEPT ![g] = 1], rq'[r].drop = rq[r].drop, pool' = pool, fids' = fids,
         rq'[r].held = Append(rq[r].held, [file |-> g, path |-> rq[r].path])
  PROVE  EntryInv'
<1> SUFFICES ASSUME "create" \notin Ops
             PROVE  PathInv' /\ NoEntryLeft'
  BY DEF EntryInv
<1>1. PathInv /\ NoEntryLeft
  BY DEF EntryInv
<1>2. rq[r].path \in Paths /\ g \in Files /\ g # NoFile /\ Root \in Paths /\ rq[r].path # Root
  BY <1>1, RequestType, ParentType, FilesKnown DEF Unused, PathInv
<1>3. files'[rq[r].path] = g /\ \A p \in Paths : p # rq[r].path => files'[p] = files[p]
  BY <1>2 DEF TypeOK
<1>4. \A p \in Paths : files[p] # g
  BY DEF Unused
<1>5. ASSUME NEW ref, ref.file # g, Named(files, ref)
      PROVE  Named(files', ref)
  BY <1>3, <1>5 DEF Named
<1>6. ASSUME NEW s \in Tags
      PROVE  /\ Named(files', rq[s].drop)
             /\ \A i \in 1 .. Len(rq[s].held) : Named(files', rq[s].held[i])
  <2>1. rq[s].drop.file # g /\ \A i \in 1 .. Len(rq[s].held) : rq[s].held[i].file # g
    BY DEF Unused
  <2> QED
    BY <1>1, <1>5, <2>1 DEF PathInv
<1> DEFINE new == [file |-> g, path |-> rq[r].path]
<1>7. Named(files', new)
  BY <1>3, <1>4 DEF Named
<1>8. \A s \in Tags : /\ Named(files', rq'[s].drop)
                      /\ \A i \in 1 .. Len(rq'[s].held) : Named(files', rq'[s].held[i])
  <2> SUFFICES ASSUME NEW s \in Tags
               PROVE  /\ Named(files', rq'[s].drop)
                      /\ \A i \in 1 .. Len(rq'[s].held) : Named(files', rq'[s].held[i])
    OBVIOUS
  <2>1. CASE s # r
    BY <1>6, <2>1 DEF Others
  <2>2. CASE s = r
    <3> DEFINE h == rq[r].held
    <3>1. h \in Seq(Refs) /\ rq'[r].held = Append(h, new)
      BY RequestType
    <3> HIDE DEF new, h
    <3>2. \A i \in 1 .. Len(rq'[r].held) :
            (i \in 1 .. Len(h) /\ rq'[r].held[i] = h[i]) \/ rq'[r].held[i] = new
      <4>1. \A i \in 1 .. Len(Append(h, new)) :
              (i \in 1 .. Len(h) /\ Append(h, new)[i] = h[i]) \/ Append(h, new)[i] = new
        BY <3>1, AppendIs
      <4> QED
        BY <3>1, <4>1, Zenon
    <3>3. \A i \in 1 .. Len(h) : Named(files', h[i])
      BY <1>6 DEF h
    <3> QED
      BY <1>6, <1>7, <2>2, <3>2, <3>3
  <2> QED
    BY <2>1, <2>2
<1>9. \A n \in pool : Named(files', fids[n])
  <2> SUFFICES ASSUME NEW n \in pool PROVE Named(files', fids[n])
    OBVIOUS
  <2>1. fids[n].file # g
    BY DEF Unused
  <2> QED
    BY <1>1, <1>5, <2>1 DEF PathInv
<1>10. files'[Root] = RootFile /\ \A p, q \in Paths : files'[p] = files'[q] /\ files'[p] # NoFile => p = q
  BY <1>1, <1>2, <1>3, <1>4 DEF PathInv
<1>11. PathInv'
  BY <1>8, <1>9, <1>10 DEF PathInv
<1>12. NoEntryLeft'
  <2> SUFFICES ASSUME NEW p \in Paths \ {Root}, files'[p] # NoFile, refs'[files'[p]] = 0
               PROVE  \E s \in Tags : rq'[s].pc = "reap" /\ rq'[s].drop = [file |-> files'[p], path |-> p]
    BY DEF NoEntryLeft, At
  <2>1. refs'[g] = 1 /\ \A f \in Files : f # g => refs'[f] = refs[f]
    BY <1>2 DEF TypeOK
  <2>2. p # rq[r].path /\ files'[p] = files[p] /\ files[p] \in Files
    BY <1>3, <2>1 DEF TypeOK
  <2>3. refs[files[p]] = 0
    BY <1>4, <2>1, <2>2
  <2>4. PICK s \in Tags : rq[s].pc = "reap" /\ rq[s].drop = [file |-> files[p], path |-> p]
    BY <1>1, <2>2, <2>3 DEF NoEntryLeft, At
  <2>5. rq'[s] = rq[s]
    BY <2>4 DEF Others
  <2> QED
    BY <2>2, <2>4, <2>5
<1> QED
  BY <1>11, <1>12

-----------------------------------------------------------------------------
(* Steps of a kind.                                                        *)

\* The handler goes on, with the references it has.
LEMMA Neutral ==
  ASSUME IInv, NEW r \in Tags, Others(r), Kept(r),
         rq'[r].held = rq[r].held, rq'[r].drop = rq[r].drop,
         files' = files, refs' = refs, filesLock' \in Tags \cup {NoTag}, pool' = pool,
         fids' \in [Fids -> [refs : Nat, path : Paths, file : Files,
                             opened : BOOLEAN, owned : BOOLEAN]],
         \A n \in Fids : /\ fids'[n].refs = fids[n].refs /\ fids'[n].owned = fids[n].owned
                         /\ fids'[n].file = fids[n].file /\ fids'[n].path = fids[n].path,
         rq[r].pc \notin {"idle", "drop", "reap", "reapfid", "move"},
         rq'[r].pc \notin {"idle", "begin", "drop", "reap", "reapfid", "move"},
         Fits(rq'[r].pc, rq[r].op, Len(rq[r].held)),
         rq'[r].pc = "newfid" => rq[r].op = "walk"
  PROVE  IInv'
<1> USE DEF IInv
<1>1. ~InDecRef(rq[r]) /\ ~InDecRef(rq'[r]) /\ ~MovingFid(rq[r]) /\ ~MovingFid(rq'[r])
  BY DEF InDecRef, MovingFid
<1>2. Pinned(rq[r]) /\ Pinned(rq'[r])
  BY <1>1 DEF Pinned
<1>3. TypeOK'
  BY DEF TypeOK, Others
<1>4. ShapeInv'
  <2>1. Shape(rq[r])
    BY DEF ShapeInv
  <2>2. Shape(rq'[r])
    BY <1>1, <2>1 DEF Shape, Kept
  <2> QED
    BY <2>2, ShapeStep
<1>5. FidInv'
  BY <1>2, FidsSame
<1>6. FileInv'
  BY <1>1, FilesSame
<1>7. EntryInv'
  <2>1. ASSUME PathInv PROVE PathsRight(r)
    <3>1. \A n \in pool : fids'[n].file = fids[n].file /\ fids'[n].path = fids[n].path
      BY DEF TypeOK
    <3> QED
      BY <2>1, <3>1 DEF PathInv, PathsRight, Named
  <2> QED
    BY <2>1, EntriesSame
<1> QED
  BY <1>3, <1>4, <1>5, <1>6, <1>7

\* The same, with nothing but the place changed.
LEMMA NeutralGoto ==
  ASSUME IInv, NEW r \in Tags, NEW pc \in PCs, Goto(r, pc),
         UNCHANGED <<files, refs, filesLock, pool, fids>>,
         rq[r].pc \notin {"idle", "drop", "reap", "reapfid", "move"},
         pc \notin {"idle", "begin", "drop", "reap", "reapfid", "move"},
         Fits(pc, rq[r].op, Len(rq[r].held)), pc = "newfid" => rq[r].op = "walk"
  PROVE  IInv'
<1>1. TypeOK
  BY DEF IInv
<1>2. /\ Others(r) /\ Kept(r) /\ rq'[r].pc = pc /\ rq'[r].held = rq[r].held
      /\ rq'[r].drop = rq[r].drop
  BY <1>1, GotoIs
<1>3. /\ fids' \in [Fids -> [refs : Nat, path : Paths, file : Files,
                             opened : BOOLEAN, owned : BOOLEAN]]
      /\ filesLock' \in Tags \cup {NoTag}
  BY <1>1 DEF TypeOK
<1> QED
  BY <1>2, <1>3, Neutral

\* The parts of a request that a step may set while the handler goes on.
LEMMA SetGoes ==
  ASSUME TypeOK, NEW r \in Tags, NEW new \in Requests, Set(r, new), new.pc # "idle",
         new.op = rq[r].op, new.fid = rq[r].fid, new.newfid = rq[r].newfid,
         new.held = rq[r].held, new.drop = rq[r].drop
  PROVE  /\ Others(r) /\ Kept(r) /\ rq'[r].pc = new.pc /\ rq'[r].held = rq[r].held
         /\ rq'[r].drop = rq[r].drop
<1>1. Others(r) /\ rq'[r] = new
  BY SetIs
<1> QED
  BY <1>1 DEF Kept

\* The same, with local data of the handler changed too.
LEMMA NeutralSet ==
  ASSUME IInv, NEW r \in Tags, NEW new \in Requests, Set(r, new),
         new.op = rq[r].op, new.fid = rq[r].fid, new.newfid = rq[r].newfid,
         new.held = rq[r].held, new.drop = rq[r].drop,
         UNCHANGED <<files, refs, filesLock, pool, fids>>,
         rq[r].pc \notin {"idle", "drop", "reap", "reapfid", "move"},
         new.pc \notin {"idle", "begin", "drop", "reap", "reapfid", "move", "newfid"},
         Fits(new.pc, rq[r].op, Len(rq[r].held))
  PROVE  IInv'
<1>1. TypeOK
  BY DEF IInv
<1>2. /\ Others(r) /\ Kept(r) /\ rq'[r].pc = new.pc /\ rq'[r].held = rq[r].held
      /\ rq'[r].drop = rq[r].drop
  BY <1>1, SetGoes
<1>3. /\ fids' \in [Fids -> [refs : Nat, path : Paths, file : Files,
                             opened : BOOLEAN, owned : BOOLEAN]]
      /\ filesLock' \in Tags \cup {NoTag}
  BY <1>1 DEF TypeOK
<1> QED
  BY <1>2, <1>3, Neutral

\* The top of the stack, and the stack below it.
LEMMA TopType ==
  ASSUME TypeOK, NEW r \in Tags, Len(rq[r].held) > 0
  PROVE  /\ Top(r) \in Refs /\ Pop(r) \in Seq(Refs) /\ Len(Pop(r)) = Len(rq[r].held) - 1
         /\ \A i \in 1 .. Len(Pop(r)) : Pop(r)[i] = rq[r].held[i] /\ i \in 1 .. Len(rq[r].held)
         /\ Len(rq[r].held) = 1 => Pop(r) = <<>>
         /\ PathInv => Named(files, Top(r))
<1> DEFINE h == rq[r].held
<1>1. h \in Seq(Refs) /\ Len(h) > 0 /\ Len(h) \in Nat
  BY RequestType
<1>2. Top(r) = h[Len(h)] /\ Pop(r) = SubSeq(h, 1, Len(h) - 1)
  BY DEF Top, Pop
<1>3. PathInv => \A i \in 1 .. Len(h) : Named(files, h[i])
  BY DEF PathInv
<1> HIDE DEF h
<1>4. Len(h) \in 1 .. Len(h)
  BY <1>1
<1>5. h[Len(h)] \in Refs
  BY <1>1, <1>4
<1>6. /\ SubSeq(h, 1, Len(h) - 1) \in Seq(Refs) /\ Len(SubSeq(h, 1, Len(h) - 1)) = Len(h) - 1
      /\ \A i \in 1 .. Len(h) - 1 : SubSeq(h, 1, Len(h) - 1)[i] = h[i]
  BY <1>1, FrontIs
<1>7. \A i \in 1 .. Len(h) - 1 : i \in 1 .. Len(h)
  BY <1>1
<1>8. Len(h) = 1 => SubSeq(h, 1, Len(h) - 1) = <<>>
  BY <1>1, <1>6
<1> QED
  BY <1>2, <1>3, <1>4, <1>5, <1>6, <1>7, <1>8 DEF h

\* The only local variable.
LEMMA OnlyTop ==
  ASSUME TypeOK, NEW r \in Tags, Len(rq[r].held) = 1
  PROVE  Len(rq[r].held) > 0 /\ Top(r) \in Refs /\ Pop(r) = <<>> /\ Len(rq[r].held) - 1 = 0
<1>1. Len(rq[r].held) > 0 /\ Len(rq[r].held) - 1 = 0
  OBVIOUS
<1> QED
  BY <1>1, TopType

\* The handler calls DecRef on its innermost local variable.
LEMMA TopDropped ==
  ASSUME IInv, NEW r \in Tags, Len(rq[r].held) > 0, Others(r), Kept(r),
         rq'[r].pc = "drop", rq'[r].drop = Top(r), rq'[r].held = Pop(r),
         rq'[r].then \in {"finish", "seek", "step", "mkdir"},
         Fits(rq'[r].then, rq[r].op, Len(rq[r].held) - 1),
         rq[r].pc \notin {"idle", "drop", "reap", "reapfid", "move"},
         UNCHANGED <<files, refs, filesLock, pool, fids>>
  PROVE  IInv'
<1> USE DEF IInv
<1>1. ~InDecRef(rq[r]) /\ InDecRef(rq'[r]) /\ ~MovingFid(rq[r]) /\ ~MovingFid(rq'[r])
  BY DEF InDecRef, MovingFid
<1>2. Pinned(rq[r]) /\ Pinned(rq'[r])
  BY <1>1 DEF Pinned
<1>3. TypeOK'
  BY DEF TypeOK, Others
<1>4. ShapeInv'
  <2>1. Shape(rq[r])
    BY DEF ShapeInv
  <2>2. Len(rq'[r].held) = Len(rq[r].held) - 1
    BY TopType
  <2>3. Fits(rq'[r].pc, rq'[r].op, Len(rq'[r].held))
    BY DEF Fits
  <2>4. Shape(rq'[r])
    BY <1>1, <2>1, <2>2, <2>3 DEF Shape, Kept
  <2> QED
    BY <2>4, ShapeStep
<1>5. FidInv'
  BY <1>2, FidsSame
<1>6. FileInv'
  BY <1>1, FilesTopDropped
<1>7. EntryInv'
  <2>1. ASSUME PathInv PROVE PathsRight(r)
    <3>1. Named(files, Top(r)) /\ \A i \in 1 .. Len(Pop(r)) : Named(files, Pop(r)[i])
      BY <2>1, TopType DEF PathInv
    <3> QED
      BY <2>1, <3>1 DEF PathInv, PathsRight
  <2> QED
    BY <2>1, EntriesSame
<1> QED
  BY <1>3, <1>4, <1>5, <1>6, <1>7

\* The same, for a call DecRef.
LEMMA DecRefTop ==
  ASSUME IInv, NEW r \in Tags, Len(rq[r].held) > 0, NEW then \in {"finish", "step", "mkdir"},
         DecRef(r, Top(r), Pop(r), then), Fits(then, rq[r].op, Len(rq[r].held) - 1),
         rq[r].pc \notin {"idle", "drop", "reap", "reapfid", "move"},
         UNCHANGED <<files, refs, filesLock, pool, fids>>
  PROVE  IInv'
<1>1. TypeOK
  BY DEF IInv
<1>2. Top(r) \in Refs /\ Pop(r) \in Seq(Refs) /\ then \in PCs
  BY <1>1, TopType DEF PCs
<1>3. /\ Others(r) /\ Kept(r) /\ rq'[r].pc = "drop" /\ rq'[r].drop = Top(r)
      /\ rq'[r].held = Pop(r) /\ rq'[r].then = then
  BY <1>1, <1>2, DecRefIs
<1> QED
  BY <1>3, TopDropped

\* DecRef is called on the file of the request's fid, which moves.
LEMMA FidDropped ==
  ASSUME IInv, NEW r \in Tags, DecRef(r, FidRef(r), rq[r].held, "move"),
         rq[r].pc \notin {"idle", "drop", "reap", "reapfid", "move"}, Len(rq[r].held) = 1,
         rq[r].fid # NoFid, Rewrites(rq[r].op, rq[r].fid, rq[r].newfid),
         UNCHANGED <<files, refs, filesLock, pool, fids>>
  PROVE  IInv'
<1> USE DEF IInv
<1>1. rq[r].held \in Seq(Refs) /\ rq[r].fid \in Fids /\ rq[r].fid \in pool /\ Pinned(rq[r])
  <2>1. Pinned(rq[r])
    BY DEF Pinned, InDecRef
  <2> QED
    BY <2>1, RequestType, PinnedFid
<1>2. FidRef(r) \in Refs /\ FidRef(r).file = fids[rq[r].fid].file /\ FidRef(r).path = fids[rq[r].fid].path
  BY <1>1 DEF TypeOK, FidRef, MyFid, Refs
<1>3. /\ Others(r) /\ Kept(r) /\ rq'[r].pc = "drop" /\ rq'[r].drop = FidRef(r)
      /\ rq'[r].held = rq[r].held /\ rq'[r].then = "move"
  <2>1. "move" \in PCs
    BY DEF PCs
  <2> QED
    BY <1>1, <1>2, <2>1, DecRefIs
<1>4. ~InDecRef(rq[r]) /\ InDecRef(rq'[r]) /\ ~MovingFid(rq[r]) /\ MovingFid(rq'[r]) /\ Pinned(rq'[r])
  BY <1>3 DEF InDecRef, MovingFid, Pinned
<1>5. TypeOK'
  BY <1>3 DEF TypeOK, Others
<1>6. Shape(rq'[r])
  <2>1. Shape(rq[r])
    BY DEF ShapeInv
  <2>2. Fits("drop", rq[r].op, 1) /\ Fits("move", rq[r].op, 1)
    BY DEF Fits
  <2> QED
    BY <1>3, <1>4, <2>1, <2>2 DEF Shape, Kept
<1>7. ShapeInv'
  BY <1>3, <1>6, ShapeStep
<1>8. FidInv'
  BY <1>1, <1>3, <1>4, FidsSame
<1>9. FileInv'
  <2>1. \A f \in Files : Cardinality(OwnersOf(rq', pool', fids', f)) =
          Cardinality(OwnersOf(rq, pool, fids, f)) - (IF FidRef(r).file = f THEN 1 ELSE 0)
    BY <1>1, <1>2, <1>3, <1>4, <1>6, OwnersLeft
  <2>2. pool' \in SUBSET Fids
    BY DEF TypeOK
  <2> QED
    BY <1>3, <2>1, <2>2, FilesFidDropped
<1>10. EntryInv'
  <2>1. ASSUME PathInv PROVE PathsRight(r)
    <3>1. Named(files, FidRef(r))
      BY <1>1, <1>2, <2>1 DEF PathInv, Named
    <3> QED
      BY <1>3, <2>1, <3>1 DEF PathInv, PathsRight
  <2> QED
    BY <1>3, <2>1, EntriesSame
<1> QED
  BY <1>5, <1>7, <1>8, <1>9, <1>10

-----------------------------------------------------------------------------
(* The actions.                                                            *)

\* WalkFound: the walk goes on, or the lookup's stat has failed.
LEMMA WalkFoundInv ==
  ASSUME IInv, NEW r \in Tags, WalkFound(r)
  PROVE  IInv'
<1>1. TypeOK /\ Shape(rq[r]) /\ rq[r].pc = "found" /\ rq[r].op = "walk"
  BY DEF IInv, ShapeInv, WalkFound, At
<1>2. Len(rq[r].held) = 1
  BY <1>1 DEF Shape, Fits
<1>3. CASE Goto(r, "step")
  <2>1. Fits("step", rq[r].op, Len(rq[r].held)) /\ "step" \in PCs
    BY <1>1, <1>2 DEF Fits, PCs
  <2>2. UNCHANGED <<files, refs, filesLock, pool, fids>>
    BY DEF WalkFound
  <2> QED
    BY <1>1, <1>3, <2>1, <2>2, NeutralGoto
<1>4. CASE DecRef(r, Top(r), <<>>, "finish")
  <2>1. Len(rq[r].held) > 0 /\ Pop(r) = <<>> /\ Len(rq[r].held) - 1 = 0
    BY <1>1, <1>2, OnlyTop
  <2>2. UNCHANGED <<files, refs, filesLock, pool, fids>> /\ DecRef(r, Top(r), Pop(r), "finish")
    BY <1>4, <2>1 DEF WalkFound
  <2>3. Fits("finish", rq[r].op, Len(rq[r].held) - 1)
    BY <2>1 DEF Fits
  <2> QED
    BY <1>1, <2>1, <2>2, <2>3, DecRefTop
<1> QED
  BY <1>3, <1>4 DEF WalkFound

\* WalkName drops the file it is at.
LEMMA WalkNameInv ==
  ASSUME IInv, NEW r \in Tags, WalkName(r)
  PROVE  IInv'
<1>1. TypeOK /\ Shape(rq[r]) /\ rq[r].pc = "step" /\ rq[r].op = "walk"
  BY DEF IInv, ShapeInv, WalkName, At
<1>2. Len(rq[r].held) = 1
  BY <1>1 DEF Shape, Fits
<1>3. Len(rq[r].held) > 0 /\ Top(r) \in Refs /\ Pop(r) = <<>> /\ Len(rq[r].held) - 1 = 0
  BY <1>1, <1>2, OnlyTop
<1> DEFINE new(p) == [rq[r] EXCEPT !.path = p, !.names = @ - 1, !.drop = Top(r),
                                   !.held = <<>>, !.then = "seek", !.pc = "drop"]
<1>4. PICK p \in Children(Top(r).path) \cup {Parent[Top(r).path]} : Set(r, new(p))
  BY DEF WalkName
<1>5. p \in Paths
  BY <1>3, ParentType DEF Children, Refs
<1>6. /\ new(p) \in Requests /\ new(p).pc = "drop" /\ new(p).op = rq[r].op /\ new(p).fid = rq[r].fid
      /\ new(p).newfid = rq[r].newfid /\ new(p).held = <<>> /\ new(p).drop = Top(r)
      /\ new(p).then = "seek"
  <2> DEFINE q == rq[r]
             t == Top(r)
             k == q.names - 1
             e == <<>>
             q1 == [q EXCEPT !.path = p, !.names = k]
             q2 == [q1 EXCEPT !.drop = t, !.held = e, !.then = "seek", !.pc = "drop"]
  <2>1. q \in Requests /\ t \in Refs /\ k \in 0 .. MaxNames
    <3>1. q \in Requests /\ q.names \in 0 .. MaxNames
      BY <1>1, RequestType DEF Requests
    <3>2. q.names > 0
      BY DEF WalkName
    <3> QED
      BY <1>3, <3>1, <3>2, MaxNamesType
  <2>2. new(p) = q2
    OBVIOUS
  <2>3. e \in Seq(Refs)
    OBVIOUS
  <2> HIDE DEF q, t, k, e, new
  <2>4. q1 \in Requests /\ q1.op = q.op /\ q1.fid = q.fid /\ q1.newfid = q.newfid
    BY <1>5, <2>1, MaxNamesType DEF Requests
  <2> HIDE DEF q1
  <2>5. /\ q2 \in Requests /\ q2.pc = "drop" /\ q2.op = q1.op /\ q2.fid = q1.fid
        /\ q2.newfid = q1.newfid /\ q2.held = e /\ q2.drop = t /\ q2.then = "seek"
    BY <2>1, <2>3, <2>4 DEF Requests, PCs
  <2> HIDE DEF q2
  <2> QED
    BY <2>2, <2>4, <2>5 DEF q, t, e
<1> HIDE DEF new
<1>7. Others(r) /\ rq'[r] = new(p)
  BY <1>1, <1>4, <1>6, SetIs
<1>8. Fits("seek", rq[r].op, Len(rq[r].held) - 1)
  BY <1>3 DEF Fits
<1>9. UNCHANGED <<files, refs, filesLock, pool, fids>> /\ Kept(r)
  BY <1>6, <1>7 DEF WalkName, Kept
<1>10. rq'[r].then \in {"finish", "seek", "step", "mkdir"} /\ Fits(rq'[r].then, rq[r].op, Len(rq[r].held) - 1)
  BY <1>6, <1>7, <1>8
<1> QED
  BY <1>1, <1>3, <1>6, <1>7, <1>9, <1>10, TopDropped

\* WalkEnd: a new fid, or the request's own.
LEMMA WalkEndInv ==
  ASSUME IInv, NEW r \in Tags, WalkEnd(r)
  PROVE  IInv'
<1>1. TypeOK /\ Shape(rq[r]) /\ rq[r].pc = "step" /\ rq[r].op = "walk"
  BY DEF IInv, ShapeInv, WalkEnd, At
<1>2. Len(rq[r].held) = 1 /\ rq[r].fid # NoFid
  BY <1>1 DEF Shape, Fits
<1>3. UNCHANGED <<files, refs, filesLock, pool, fids>>
  BY DEF WalkEnd
<1>4. CASE rq[r].newfid = rq[r].fid
  <2>1. Rewrites(rq[r].op, rq[r].fid, rq[r].newfid) /\ DecRef(r, FidRef(r), rq[r].held, "move")
    BY <1>1, <1>4 DEF Rewrites, WalkEnd
  <2> QED
    BY <1>1, <1>2, <1>3, <2>1, FidDropped
<1>5. CASE rq[r].newfid # rq[r].fid
  <2>1. Goto(r, "newfid") /\ "newfid" \in PCs /\ Fits("newfid", rq[r].op, Len(rq[r].held))
    BY <1>2, <1>5 DEF WalkEnd, PCs, Fits
  <2> QED
    BY <1>1, <1>3, <2>1, NeutralGoto
<1> QED
  BY <1>4, <1>5

\* Open sets a flag of the fid.
LEMMA OpenInv ==
  ASSUME IInv, NEW r \in Tags, Open(r)
  PROVE  IInv'
<1>1. TypeOK /\ Shape(rq[r]) /\ rq[r].pc = "begin"
  BY DEF IInv, ShapeInv, Open, At
<1>2. Len(rq[r].held) = 0 /\ rq[r].fid \in Fids
  BY <1>1, RequestType DEF Shape, Fits
<1>3. PICK packed \in BOOLEAN : fids' = [fids EXCEPT ![rq[r].fid].opened = @ \/ packed]
  BY DEF Open
<1> DEFINE n == rq[r].fid
           v == fids[n].opened \/ packed
<1>4. v \in BOOLEAN /\ fids' = [fids EXCEPT ![n].opened = v]
  BY <1>3
<1> HIDE DEF v
<1>5. ASSUME NEW x \in [refs : Nat, path : Paths, file : Files, opened : BOOLEAN, owned : BOOLEAN],
             NEW y, y = [x EXCEPT !.opened = v]
      PROVE  /\ y \in [refs : Nat, path : Paths, file : Files, opened : BOOLEAN, owned : BOOLEAN]
             /\ y.refs = x.refs /\ y.owned = x.owned /\ y.file = x.file /\ y.path = x.path
  BY <1>4, <1>5
<1>6. fids'[n] = [fids[n] EXCEPT !.opened = v]
  BY <1>1, <1>2, <1>4 DEF TypeOK
<1>7. \A k \in Fids \ {n} : fids'[k] = fids[k]
  BY <1>1, <1>4 DEF TypeOK
<1>8. \A k \in Fids : fids[k] \in [refs : Nat, path : Paths, file : Files, opened : BOOLEAN, owned : BOOLEAN]
  BY <1>1 DEF TypeOK
<1>9. \A k \in Fids :
        /\ fids'[k] \in [refs : Nat, path : Paths, file : Files, opened : BOOLEAN, owned : BOOLEAN]
        /\ fids'[k].refs = fids[k].refs /\ fids'[k].owned = fids[k].owned
        /\ fids'[k].file = fids[k].file /\ fids'[k].path = fids[k].path
  BY <1>5, <1>6, <1>7, <1>8
<1>10. fids' \in [Fids -> [refs : Nat, path : Paths, file : Files, opened : BOOLEAN, owned : BOOLEAN]]
  <2>1. DOMAIN fids' = Fids /\ fids' = [k \in Fids |-> fids'[k]]
    BY <1>1, <1>4 DEF TypeOK
  <2> QED
    BY <1>9, <2>1
<1>11. /\ Others(r) /\ Kept(r) /\ rq'[r].pc = "finish" /\ rq'[r].held = rq[r].held
       /\ rq'[r].drop = rq[r].drop
  <2>1. Goto(r, "finish") /\ "finish" \in PCs
    BY DEF Open, PCs
  <2> QED
    BY <1>1, <2>1, GotoIs
<1>12. Fits("finish", rq[r].op, Len(rq[r].held))
  BY <1>2 DEF Fits
<1>13. files' = files /\ refs' = refs /\ filesLock' \in Tags \cup {NoTag} /\ pool' = pool
  BY <1>1 DEF Open, TypeOK
<1> QED
  BY <1>1, <1>9, <1>10, <1>11, <1>12, <1>13, Neutral

\* Read lists the children.
LEMMA ReadInv ==
  ASSUME IInv, NEW r \in Tags, Read(r)
  PROVE  IInv'
<1>1. TypeOK /\ Shape(rq[r]) /\ rq[r].pc = "begin" /\ rq[r].op = "read"
  BY DEF IInv, ShapeInv, Read, At
<1> DEFINE new(names) == [rq[r] EXCEPT !.todo = names, !.pc = "step"]
<1>2. PICK names \in SUBSET Children(MyFid(r).path) : Set(r, new(names))
  BY DEF Read
<1>3. names \in SUBSET Paths /\ rq[r] \in Requests
  BY <1>1, RequestType DEF Children
<1>4. /\ new(names) \in Requests /\ new(names).pc = "step" /\ new(names).op = rq[r].op
      /\ new(names).fid = rq[r].fid /\ new(names).newfid = rq[r].newfid
      /\ new(names).held = rq[r].held /\ new(names).drop = rq[r].drop
  BY <1>3 DEF Requests, PCs
<1>5. Fits("step", rq[r].op, Len(rq[r].held))
  BY <1>1 DEF Shape, Fits
<1>6. UNCHANGED <<files, refs, filesLock, pool, fids>>
  BY DEF Read
<1> HIDE DEF new
<1> QED
  BY <1>1, <1>2, <1>4, <1>5, <1>6, NeutralSet

\* ReadStep looks up the next child.
LEMMA ReadStepInv ==
  ASSUME IInv, NEW r \in Tags, ReadStep(r)
  PROVE  IInv'
<1>1. TypeOK /\ Shape(rq[r]) /\ rq[r].pc = "step" /\ rq[r].op = "read"
  BY DEF IInv, ShapeInv, ReadStep, At
<1>2. UNCHANGED <<files, refs, filesLock, pool, fids>>
  BY DEF ReadStep
<1>3. Fits("seek", rq[r].op, Len(rq[r].held)) /\ Fits("finish", rq[r].op, Len(rq[r].held))
  BY <1>1 DEF Shape, Fits
<1>4. CASE rq[r].todo = {}
  <2>1. Goto(r, "finish") /\ "finish" \in PCs
    BY <1>4 DEF ReadStep, PCs
  <2> QED
    BY <1>1, <1>2, <1>3, <2>1, NeutralGoto
<1>5. CASE rq[r].todo # {}
  <2> DEFINE new(p) == [rq[r] EXCEPT !.path = p, !.todo = @ \ {p}, !.pc = "seek"]
  <2>1. PICK p \in rq[r].todo : Set(r, new(p))
    BY <1>5 DEF ReadStep
  <2>2. rq[r] \in Requests /\ rq[r].todo \in SUBSET Paths
    BY <1>1, RequestType DEF Requests
  <2>3. /\ new(p) \in Requests /\ new(p).pc = "seek" /\ new(p).op = rq[r].op
        /\ new(p).fid = rq[r].fid /\ new(p).newfid = rq[r].newfid
        /\ new(p).held = rq[r].held /\ new(p).drop = rq[r].drop
    <3>1. p \in Paths /\ rq[r].todo \ {p} \in SUBSET Paths
      BY <2>2
    <3> QED
      BY <2>2, <3>1 DEF Requests, PCs
  <2> HIDE DEF new
  <2> QED
    BY <1>1, <1>2, <1>3, <2>1, <2>3, NeutralSet
<1> QED
  BY <1>4, <1>5

\* ReadFound drops the child.
LEMMA ReadFoundInv ==
  ASSUME IInv, NEW r \in Tags, ReadFound(r)
  PROVE  IInv'
<1>1. TypeOK /\ Shape(rq[r]) /\ rq[r].pc = "found" /\ rq[r].op = "read"
  BY DEF IInv, ShapeInv, ReadFound, At
<1>2. Len(rq[r].held) = 1
  BY <1>1 DEF Shape, Fits
<1>3. Len(rq[r].held) > 0 /\ Pop(r) = <<>> /\ Len(rq[r].held) - 1 = 0
  BY <1>1, <1>2, OnlyTop
<1>4. PICK then \in {"step", "finish"} : DecRef(r, Top(r), Pop(r), then)
  BY <1>3 DEF ReadFound
<1>5. Fits(then, rq[r].op, Len(rq[r].held) - 1)
  BY <1>1, <1>3 DEF Fits
<1>6. UNCHANGED <<files, refs, filesLock, pool, fids>>
  BY DEF ReadFound
<1> QED
  BY <1>1, <1>3, <1>4, <1>5, <1>6, DecRefTop

\* Create is refused, or looks the new path up.
LEMMA CreateInv ==
  ASSUME IInv, NEW r \in Tags, Create(r)
  PROVE  IInv'
<1>1. TypeOK /\ Shape(rq[r]) /\ rq[r].pc = "begin" /\ rq[r].op = "create"
  BY DEF IInv, ShapeInv, Create, At
<1>2. UNCHANGED <<files, refs, filesLock, pool, fids>>
  BY DEF Create
<1>3. Fits("seek", rq[r].op, Len(rq[r].held)) /\ Fits("finish", rq[r].op, Len(rq[r].held))
  BY <1>1 DEF Shape, Fits
<1>4. CASE Goto(r, "finish")
  <2>1. "finish" \in PCs
    BY DEF PCs
  <2> QED
    BY <1>1, <1>2, <1>3, <1>4, <2>1, NeutralGoto
<1> DEFINE new(p) == [rq[r] EXCEPT !.path = p, !.pc = "seek"]
<1>5. CASE \E p \in Children(MyFid(r).path) : Set(r, new(p))
  <2>1. PICK p \in Children(MyFid(r).path) : Set(r, new(p))
    BY <1>5
  <2>2. rq[r] \in Requests /\ p \in Paths
    BY <1>1, RequestType DEF Children
  <2>3. /\ new(p) \in Requests /\ new(p).pc = "seek" /\ new(p).op = rq[r].op
        /\ new(p).fid = rq[r].fid /\ new(p).newfid = rq[r].newfid
        /\ new(p).held = rq[r].held /\ new(p).drop = rq[r].drop
    BY <2>2 DEF Requests, PCs
  <2> HIDE DEF new
  <2> QED
    BY <1>1, <1>2, <1>3, <2>1, <2>3, NeutralSet
<1> QED
  BY <1>4, <1>5 DEF Create

\* BuildFound calls File.create.
LEMMA BuildFoundInv ==
  ASSUME IInv, NEW r \in Tags, BuildFound(r)
  PROVE  IInv'
<1>1. Shape(rq[r]) /\ rq[r].pc = "found" /\ rq[r].op \in {"create", "remove"}
  BY DEF IInv, ShapeInv, BuildFound, At
<1>2. UNCHANGED <<files, refs, filesLock, pool, fids>> /\ Goto(r, "build") /\ "build" \in PCs
  BY DEF BuildFound, PCs
<1>3. Fits("build", rq[r].op, Len(rq[r].held))
  BY <1>1 DEF Shape, Fits
<1> QED
  BY <1>1, <1>2, <1>3, NeutralGoto

\* Build returns, or looks up the parent.
LEMMA BuildInv ==
  ASSUME IInv, NEW r \in Tags, Build(r)
  PROVE  IInv'
<1>1. TypeOK /\ Shape(rq[r]) /\ rq[r].pc = "build" /\ rq[r] \in Requests
  BY RequestType DEF IInv, ShapeInv, Build, At
<1>2. UNCHANGED <<files, refs, filesLock, pool, fids>>
  BY DEF Build
<1>3. Len(rq[r].held) > 0 /\ Fits("built", rq[r].op, Len(rq[r].held))
  BY <1>1 DEF Shape, Fits
<1> DEFINE a == [rq[r] EXCEPT !.ok = FALSE, !.pc = "built"]
           b == [rq[r] EXCEPT !.ok = FALSE, !.path = Parent[Top(r).path], !.pc = "seek"]
<1>4. CASE Set(r, a)
  <2>1. /\ a \in Requests /\ a.pc = "built" /\ a.op = rq[r].op
        /\ a.fid = rq[r].fid /\ a.newfid = rq[r].newfid
        /\ a.held = rq[r].held /\ a.drop = rq[r].drop
    BY <1>1 DEF Requests, PCs
  <2> HIDE DEF a
  <2> QED
    BY <1>1, <1>2, <1>3, <1>4, <2>1, NeutralSet
<1>5. CASE Set(r, b)
  <2> DEFINE p == Parent[Top(r).path]
  <2>1. p \in Paths
    BY <1>1, <1>3, TopType, ParentType DEF Refs
  <2> HIDE DEF p
  <2>2. /\ b \in Requests /\ b.pc = "seek" /\ b.op = rq[r].op
        /\ b.fid = rq[r].fid /\ b.newfid = rq[r].newfid
        /\ b.held = rq[r].held /\ b.drop = rq[r].drop
    <3>1. b = [rq[r] EXCEPT !.ok = FALSE, !.path = p, !.pc = "seek"]
      BY DEF p
    <3> HIDE DEF b
    <3> QED
      BY <1>1, <2>1, <3>1 DEF Requests, PCs
  <2>3. Fits("seek", rq[r].op, Len(rq[r].held))
    BY <1>1 DEF Shape, Fits
  <2> HIDE DEF b
  <2> QED
    BY <1>1, <1>2, <1>5, <2>2, <2>3, NeutralSet
<1> QED
  BY <1>4, <1>5 DEF Build

\* Mkdir returns from File.create or File.remove.
LEMMA MkdirInv ==
  ASSUME IInv, NEW r \in Tags, Mkdir(r)
  PROVE  IInv'
<1>1. TypeOK /\ Shape(rq[r]) /\ rq[r].pc = "mkdir" /\ rq[r] \in Requests /\ rq[r].held \in Seq(Refs)
  BY RequestType DEF IInv, ShapeInv, Mkdir, At
<1>2. UNCHANGED <<files, refs, filesLock, pool, fids>>
  BY DEF Mkdir
<1>3. CASE rq[r].held = <<>>
  <2>1. Goto(r, "finish") /\ "finish" \in PCs /\ Fits("finish", rq[r].op, Len(rq[r].held))
    BY <1>3 DEF Mkdir, PCs, Fits
  <2> QED
    BY <1>1, <1>2, <2>1, NeutralGoto
<1>4. CASE rq[r].held # <<>>
  <2> DEFINE new(ok) == [rq[r] EXCEPT !.ok = ok, !.pc = "built"]
  <2>1. PICK ok \in BOOLEAN : Set(r, new(ok))
    BY <1>4 DEF Mkdir
  <2>2. /\ new(ok) \in Requests /\ new(ok).pc = "built" /\ new(ok).op = rq[r].op
        /\ new(ok).fid = rq[r].fid /\ new(ok).newfid = rq[r].newfid
        /\ new(ok).held = rq[r].held /\ new(ok).drop = rq[r].drop
    BY <1>1 DEF Requests, PCs
  <2>3. Len(rq[r].held) > 0
    BY <1>1, <1>4
  <2>4. Fits("built", rq[r].op, Len(rq[r].held))
    BY <1>1, <2>3 DEF Shape, Fits
  <2> HIDE DEF new
  <2> QED
    BY <1>1, <1>2, <2>1, <2>2, <2>4, NeutralSet
<1> QED
  BY <1>3, <1>4

\* BuiltParent drops the parent.
LEMMA BuiltParentInv ==
  ASSUME IInv, NEW r \in Tags, BuiltParent(r)
  PROVE  IInv'
<1>1. TypeOK /\ Shape(rq[r]) /\ rq[r].pc = "built"
  BY DEF IInv, ShapeInv, BuiltParent, At
<1>2. Len(rq[r].held) > 0 /\ Fits("mkdir", rq[r].op, Len(rq[r].held) - 1)
  BY <1>1 DEF Shape, Fits
<1>3. UNCHANGED <<files, refs, filesLock, pool, fids>> /\ DecRef(r, Top(r), Pop(r), "mkdir")
  BY DEF BuiltParent
<1> QED
  BY <1>1, <1>2, <1>3, DecRefTop

\* CreateEnd drops the new file, or moves the fid to it.
LEMMA CreateEndInv ==
  ASSUME IInv, NEW r \in Tags, CreateEnd(r)
  PROVE  IInv'
<1>1. TypeOK /\ Shape(rq[r]) /\ rq[r].pc = "built" /\ rq[r].op = "create" /\ Len(rq[r].held) = 1
  BY DEF IInv, ShapeInv, CreateEnd, At
<1>2. UNCHANGED <<files, refs, filesLock, pool, fids>>
  BY DEF CreateEnd
<1>3. CASE DecRef(r, Top(r), <<>>, "finish")
  <2>1. Len(rq[r].held) > 0 /\ Pop(r) = <<>> /\ Len(rq[r].held) - 1 = 0
    BY <1>1, OnlyTop
  <2>2. DecRef(r, Top(r), Pop(r), "finish") /\ Fits("finish", rq[r].op, Len(rq[r].held) - 1)
    BY <1>3, <2>1 DEF Fits
  <2> QED
    BY <1>1, <1>2, <2>1, <2>2, DecRefTop
<1>4. CASE DecRef(r, FidRef(r), rq[r].held, "move")
  <2>1. rq[r].fid # NoFid /\ Rewrites(rq[r].op, rq[r].fid, rq[r].newfid)
    BY <1>1 DEF Shape, Rewrites
  <2> QED
    BY <1>1, <1>2, <1>4, <2>1, FidDropped
<1> QED
  BY <1>3, <1>4 DEF CreateEnd

\* A Fid without the reference of the pool.
LEMMA GivenUpType ==
  ASSUME NEW x \in [refs : Nat, path : Paths, file : Files, opened : BOOLEAN, owned : BOOLEAN],
         x.refs - 1 \in Nat, NEW y, y = [x EXCEPT !.refs = x.refs - 1, !.owned = FALSE]
  PROVE  /\ y \in [refs : Nat, path : Paths, file : Files, opened : BOOLEAN, owned : BOOLEAN]
         /\ y.refs = x.refs - 1 /\ ~y.owned /\ y.file = x.file /\ y.path = x.path
OBVIOUS

\* The client gives the fid up, and the handler goes on.
LEMMA GiveUp ==
  ASSUME IInv, NEW r \in Tags, rq[r].pc = "begin", Closes(rq[r].op), Others(r), Kept(r),
         rq'[r].held = rq[r].held, rq'[r].drop = rq[r].drop, rq'[r].pc \in {"finish", "seek"},
         fids' = [fids EXCEPT ![rq[r].fid] = [@ EXCEPT !.refs = MyFid(r).refs - 1, !.owned = FALSE]],
         UNCHANGED <<files, refs, filesLock, pool>>
  PROVE  IInv'
<1> USE DEF IInv
<1> DEFINE n == rq[r].fid
           FidType == [refs : Nat, path : Paths, file : Files, opened : BOOLEAN, owned : BOOLEAN]
<1>1. Shape(rq[r]) /\ ~InDecRef(rq[r]) /\ ~InDecRef(rq'[r]) /\ ~MovingFid(rq[r]) /\ ~MovingFid(rq'[r])
  BY DEF InDecRef, MovingFid, ShapeInv
<1>2. n # NoFid /\ Pinned(rq[r]) /\ Len(rq[r].held) = 0
  BY <1>1 DEF Shape, Pinned, Fits
<1>3. n \in Fids /\ fids[n].refs - 1 \in Nat /\ fids[n] \in FidType
  <2>1. n \in Fids /\ fids[n].refs \in Nat /\ fids[n].refs > 0
    BY <1>2, PinnedFid
  <2> QED
    BY <2>1 DEF TypeOK
<1> DEFINE x == fids[n]
           y == [x EXCEPT !.refs = x.refs - 1, !.owned = FALSE]
<1>4. fids' = [fids EXCEPT ![n] = y]
  BY DEF MyFid
<1>5. \A k \in Fids \ {n} : fids'[k] = fids[k]
  BY <1>4 DEF TypeOK
<1>6. /\ fids'[n] \in FidType /\ fids'[n].refs = fids[n].refs - 1 /\ ~fids'[n].owned
      /\ fids'[n].file = fids[n].file /\ fids'[n].path = fids[n].path
  <2> HIDE DEF x
  <2>1. y \in FidType /\ y.refs = x.refs - 1 /\ ~y.owned /\ y.file = x.file /\ y.path = x.path
    BY <1>3, GivenUpType DEF x
  <2> HIDE DEF y
  <2>2. fids'[n] = y
    BY <1>3, <1>4 DEF TypeOK
  <2> QED
    BY <2>1, <2>2 DEF x
<1>7. fids' \in [Fids -> FidType]
  <2>1. fids' = [k \in Fids |-> fids'[k]]
    BY DEF TypeOK
  <2>2. \A k \in Fids : fids'[k] \in FidType
    BY <1>5, <1>6 DEF TypeOK
  <2> HIDE DEF FidType
  <2> QED
    BY <2>1, <2>2
<1>8. TypeOK'
  BY <1>7 DEF TypeOK, Others
<1>9. ShapeInv'
  <2>1. Fits(rq'[r].pc, rq[r].op, Len(rq[r].held))
    BY <1>2 DEF Fits
  <2>2. Shape(rq'[r])
    BY <1>1, <2>1 DEF Shape, Kept
  <2> QED
    BY <2>2, ShapeStep
<1> HIDE DEF n
<1>10. FidInv'
  BY <1>5, <1>6, FidClosed DEF n
<1>11. \A k \in Fids : fids'[k].file = fids[k].file /\ fids'[k].path = fids[k].path
  BY <1>5, <1>6
<1>12. FileInv'
  BY <1>1, <1>11, FilesSame
<1>13. EntryInv'
  <2>1. ASSUME PathInv PROVE PathsRight(r)
    <3>1. \A k \in pool : fids'[k].file = fids[k].file /\ fids'[k].path = fids[k].path
      BY <1>11 DEF TypeOK
    <3> QED
      BY <2>1, <3>1 DEF PathInv, PathsRight, Named
  <2> QED
    BY <2>1, EntriesSame
<1> QED
  BY <1>8, <1>9, <1>10, <1>12, <1>13

\* Clunk, with and without an answer.
LEMMA ClunkInv ==
  ASSUME IInv, NEW r \in Tags, Clunk(r)
  PROVE  IInv'
<1>1. TypeOK /\ Shape(rq[r]) /\ rq[r].pc = "begin" /\ rq[r].op = "clunk"
  BY DEF IInv, ShapeInv, Clunk, At
<1>2. Goto(r, "finish") /\ "finish" \in PCs /\ UNCHANGED <<files, refs, filesLock, pool>>
  BY DEF Clunk, PCs
<1>3. CASE UNCHANGED fids
  <2>1. Fits("finish", rq[r].op, Len(rq[r].held))
    BY <1>1 DEF Shape, Fits
  <2> QED
    BY <1>1, <1>2, <1>3, <2>1, NeutralGoto
<1>4. CASE fids' = [fids EXCEPT ![rq[r].fid] = [@ EXCEPT !.refs = MyFid(r).refs - 1, !.owned = FALSE]]
  <2>1. /\ Others(r) /\ Kept(r) /\ rq'[r].pc = "finish" /\ rq'[r].held = rq[r].held
        /\ rq'[r].drop = rq[r].drop
    BY <1>1, <1>2, GotoIs
  <2>2. Closes(rq[r].op)
    BY <1>1 DEF Closes
  <2> QED
    BY <1>1, <1>2, <1>4, <2>1, <2>2, GiveUp
<1> QED
  BY <1>3, <1>4 DEF Clunk

\* Remove gives the fid up.
LEMMA RemoveInv ==
  ASSUME IInv, NEW r \in Tags, Remove(r)
  PROVE  IInv'
<1>1. /\ TypeOK /\ Shape(rq[r]) /\ rq[r].pc = "begin" /\ Closes(rq[r].op)
      /\ UNCHANGED <<files, refs, filesLock, pool>>
      /\ fids' = [fids EXCEPT ![rq[r].fid] = [@ EXCEPT !.refs = MyFid(r).refs - 1, !.owned = FALSE]]
  BY DEF IInv, ShapeInv, Remove, At, Closes
<1> DEFINE new == [rq[r] EXCEPT !.path = Parent[MyFid(r).path], !.pc = "seek"]
<1>2. CASE Goto(r, "finish")
  <2>1. "finish" \in PCs
    BY DEF PCs
  <2>2. /\ Others(r) /\ Kept(r) /\ rq'[r].pc = "finish" /\ rq'[r].held = rq[r].held
        /\ rq'[r].drop = rq[r].drop
    BY <1>1, <1>2, <2>1, GotoIs
  <2> QED
    BY <1>1, <2>2, GiveUp
<1>3. CASE Set(r, new)
  <2> DEFINE p == Parent[MyFid(r).path]
             q == rq[r]
  <2>1. p \in Paths /\ q \in Requests
    <3>1. rq[r].fid \in Fids
      BY <1>1, RequestType DEF Shape
    <3>2. MyFid(r).path \in Paths
      BY <1>1, <3>1 DEF TypeOK, MyFid
    <3> QED
      BY <1>1, <3>2, RequestType, ParentType
  <2>2. new = [q EXCEPT !.path = p, !.pc = "seek"]
    OBVIOUS
  <2> HIDE DEF p, q, new
  <2>3. /\ new \in Requests /\ new.pc = "seek" /\ new.op = q.op /\ new.fid = q.fid
        /\ new.newfid = q.newfid /\ new.held = q.held /\ new.drop = q.drop
    BY <2>1, <2>2 DEF Requests, PCs
  <2>4. /\ Others(r) /\ Kept(r) /\ rq'[r].pc = "seek" /\ rq'[r].held = rq[r].held
        /\ rq'[r].drop = rq[r].drop
    BY <1>1, <1>3, <2>3, SetGoes DEF q
  <2> QED
    BY <1>1, <2>4, GiveUp
<1> QED
  BY <1>2, <1>3 DEF Remove

\* A request that has no local variable has the stack of an answered one.
LEMMA NoHeld ==
  ASSUME TypeOK, NEW r \in Tags, Len(rq[r].held) = 0
  PROVE  rq[r].held = <<>> /\ rq[r].held = Idle.held
<1>1. rq[r].held \in Seq(Refs)
  BY RequestType
<1> QED
  BY <1>1, IdleType

\* Finish drops the reference of the request.
LEMMA FinishInv ==
  ASSUME IInv, NEW r \in Tags, Finish(r)
  PROVE  IInv'
<1> USE DEF IInv
<1> DEFINE n == rq[r].fid
           FidType == [refs : Nat, path : Paths, file : Files, opened : BOOLEAN, owned : BOOLEAN]
<1>1. Shape(rq[r]) /\ rq[r].pc = "finish" /\ UNCHANGED <<files, refs, filesLock, pool>>
  BY DEF ShapeInv, Finish, At
<1>2. Len(rq[r].held) = 0 /\ ~InDecRef(rq[r]) /\ ~MovingFid(rq[r]) /\ Pinned(rq[r])
  BY <1>1 DEF Shape, Fits, InDecRef, MovingFid, Pinned
<1>3. rq[r].held = <<>> /\ rq[r].held = Idle.held
  BY <1>2, NoHeld
<1>4. CASE n = NoFid
  <2>1. Goto(r, "idle") /\ UNCHANGED fids /\ "idle" \in PCs
    BY <1>4 DEF Finish, PCs
  <2>2. Others(r) /\ rq'[r] = Idle
    BY <2>1, GotoIs
  <2>3. TypeOK'
    BY <1>1, <2>1, <2>2 DEF TypeOK, Others
  <2>4. ShapeInv'
    BY <2>2, IdleShape, ShapeStep
  <2>5. FidInv'
    BY <1>1, <1>4, <2>1, <2>2, IdleType, FidsSame
  <2>6. FileInv'
    BY <1>1, <1>2, <1>3, <2>1, <2>2, IdleType, IdleShape, FilesSame
  <2>7. EntryInv'
    <3>1. ASSUME PathInv PROVE PathsRight(r)
      <4>1. Named(files, Idle.drop)
        BY <3>1, RootNamed
      <4>2. \A i \in 1 .. Len(Idle.held) : Named(files, Idle.held[i])
        BY <1>3, <3>1 DEF PathInv
      <4> QED
        BY <1>1, <2>1, <2>2, <3>1, <4>1, <4>2 DEF PathInv, PathsRight
    <3> QED
      BY <1>1, <2>2, <3>1, EntriesSame
  <2> QED
    BY <2>3, <2>4, <2>5, <2>6, <2>7
<1>5. CASE n # NoFid
  <2>1. /\ fids' = [fids EXCEPT ![n].refs = @ - 1]
        /\ Goto(r, IF fids[n].refs = 1 THEN "reapfid" ELSE "idle")
    BY <1>5 DEF Finish, MyFid
  <2>2. n \in Fids /\ fids[n].refs \in Nat /\ fids[n].refs > 0 /\ fids[n] \in FidType
    <3>1. n \in Fids /\ fids[n].refs \in Nat /\ fids[n].refs > 0
      BY <1>2, <1>5, PinnedFid
    <3> QED
      BY <3>1 DEF TypeOK
  <2>3. /\ fids'[n] = [fids[n] EXCEPT !.refs = fids[n].refs - 1]
        /\ \A k \in Fids \ {n} : fids'[k] = fids[k]
    BY <2>1, <2>2 DEF TypeOK
  <2>4. /\ fids'[n] \in FidType /\ fids'[n].refs = fids[n].refs - 1 /\ fids'[n].owned = fids[n].owned
        /\ fids'[n].file = fids[n].file /\ fids'[n].path = fids[n].path
    BY <2>2, <2>3
  <2>5. fids' \in [Fids -> FidType]
    <3>1. fids' = [k \in Fids |-> fids'[k]]
      BY <2>1 DEF TypeOK
    <3>2. \A k \in Fids : fids'[k] \in FidType
      BY <2>3, <2>4 DEF TypeOK
    <3> HIDE DEF FidType
    <3> QED
      BY <3>1, <3>2
  <2>6. /\ Others(r) /\ rq'[r].held = rq[r].held
        /\ fids[n].refs = 1 => rq'[r].pc = "reapfid" /\ Kept(r) /\ rq'[r].drop = rq[r].drop
        /\ fids[n].refs # 1 => rq'[r] = Idle
    <3>1. "reapfid" \in PCs /\ "idle" \in PCs
      BY DEF PCs
    <3>2. CASE fids[n].refs = 1
      BY <2>1, <3>1, <3>2, GotoIs
    <3>3. CASE fids[n].refs # 1
      BY <1>3, <2>1, <3>1, <3>3, GotoIs
    <3> QED
      BY <3>2, <3>3
  <2>7. ~MovingFid(rq'[r]) /\ rq'[r].pc # "drop"
    BY <2>6, IdleShape, IdleType DEF MovingFid, InDecRef
  <2>8. TypeOK'
    BY <1>1, <2>5, <2>6 DEF TypeOK, Others
  <2>9. ShapeInv'
    <3>1. CASE fids[n].refs = 1
      <4>1. Fits("reapfid", rq[r].op, 0)
        BY DEF Fits
      <4>2. Shape(rq'[r])
        BY <1>1, <1>2, <1>5, <2>6, <2>7, <3>1, <4>1 DEF Shape, Kept, InDecRef
      <4> QED
        BY <2>6, <4>2, ShapeStep
    <3>2. CASE fids[n].refs # 1
      BY <2>6, <3>2, IdleShape, ShapeStep
    <3> QED
      BY <3>1, <3>2
  <2> HIDE DEF n
  <2>10. FidInv'
    BY <1>1, <1>5, <2>3, <2>4, <2>6, FidReleased DEF n
  <2>11. \A k \in Fids : fids'[k].file = fids[k].file /\ fids'[k].path = fids[k].path
    BY <2>3, <2>4
  <2>12. FileInv'
    BY <1>1, <1>2, <2>6, <2>7, <2>11, FilesSame
  <2>13. EntryInv'
    <3>1. ASSUME PathInv PROVE PathsRight(r)
      <4>1. Named(files, rq'[r].drop)
        BY <2>6, <3>1, RootNamed DEF PathInv
      <4>2. \A i \in 1 .. Len(rq'[r].held) : Named(files, rq'[r].held[i])
        BY <2>6, <3>1 DEF PathInv
      <4>3. \A k \in pool : fids'[k].file = fids[k].file /\ fids'[k].path = fids[k].path
        BY <2>11 DEF TypeOK
      <4> QED
        BY <1>1, <3>1, <4>1, <4>2, <4>3 DEF PathInv, PathsRight, Named
    <3> QED
      BY <1>1, <2>6, <3>1, EntriesSame
  <2> QED
    BY <2>8, <2>9, <2>10, <2>12, <2>13
<1> QED
  BY <1>4, <1>5

\* The stack is given away.
LEMMA SetEmpty ==
  ASSUME TypeOK, NEW r \in Tags, Set(r, [rq[r] EXCEPT !.held = <<>>, !.pc = "finish"])
  PROVE  /\ Others(r) /\ Kept(r) /\ rq'[r].pc = "finish" /\ rq'[r].held = <<>>
         /\ rq'[r].drop = rq[r].drop
<1> DEFINE q == rq[r]
           e == <<>>
           new == [q EXCEPT !.held = e, !.pc = "finish"]
<1>1. q \in Requests /\ e \in Seq(Refs)
  BY RequestType
<1>2. Set(r, new)
  OBVIOUS
<1> HIDE DEF q, e
<1>3. /\ new \in Requests /\ new.pc = "finish" /\ new.op = q.op /\ new.fid = q.fid
      /\ new.newfid = q.newfid /\ new.held = e /\ new.drop = q.drop
  BY <1>1 DEF Requests, PCs
<1> HIDE DEF new
<1>4. Others(r) /\ rq'[r] = new
  BY <1>2, <1>3, SetIs
<1> QED
  BY <1>3, <1>4 DEF Kept, q, e

\* A request that has given its stack away and is to return.
LEMMA FinishShape ==
  ASSUME NEW q, NEW x, Shape(q), q.pc # "idle", x.pc = "finish", x.op = q.op, x.fid = q.fid,
         x.newfid = q.newfid, x.held = <<>>
  PROVE  Shape(x) /\ Pinned(x) /\ ~MovingFid(x)
<1>1. Len(x.held) = 0
  OBVIOUS
<1> QED
  BY <1>1 DEF Shape, Fits, InDecRef, MovingFid, Pinned

\* Move gives the fid the file.
LEMMA MoveInv ==
  ASSUME IInv, NEW r \in Tags, Move(r)
  PROVE  IInv'
<1> USE DEF IInv
<1> DEFINE n == rq[r].fid
           FidType == [refs : Nat, path : Paths, file : Files, opened : BOOLEAN, owned : BOOLEAN]
           x == fids[n]
           t == Top(r)
           p == IF rq[r].op = "walk" THEN t.path ELSE x.path
           o == (rq[r].op = "create")
           y == [x EXCEPT !.file = t.file, !.path = p, !.opened = o]
<1>1. Shape(rq[r]) /\ rq[r].pc = "move" /\ UNCHANGED <<files, refs, filesLock, pool>>
  BY DEF ShapeInv, Move, At
<1>2. Len(rq[r].held) = 1 /\ MovingFid(rq[r]) /\ Pinned(rq[r])
  BY <1>1 DEF Shape, Fits, MovingFid, InDecRef, Pinned
<1>3. /\ Others(r) /\ Kept(r) /\ rq'[r].pc = "finish" /\ rq'[r].held = <<>>
      /\ rq'[r].drop = rq[r].drop
  BY SetEmpty DEF Move
<1>4. Shape(rq'[r]) /\ Pinned(rq'[r]) /\ ~MovingFid(rq'[r])
  BY <1>1, <1>3, FinishShape DEF Kept
<1>5. n \in Fids /\ x \in FidType /\ t \in Refs /\ rq'[r].held = Pop(r) /\ Len(rq[r].held) > 0
  <2>1. n \in Fids
    BY <1>2, MovesAlone
  <2> QED
    BY <1>2, <1>3, <2>1, OnlyTop DEF TypeOK
<1>6. fids' = [fids EXCEPT ![n] = y]
  BY DEF Move, MyFid
<1>7. /\ y \in FidType /\ y.refs = x.refs /\ y.owned = x.owned /\ y.file = t.file /\ y.path = p
  <2>1. o \in BOOLEAN /\ p \in Paths /\ t.file \in Files
    BY <1>5 DEF Refs
  <2> HIDE DEF o, p, t, x
  <2> QED
    BY <1>5, <2>1
<1>8. fids'[n] = y /\ \A k \in Fids \ {n} : fids'[k] = fids[k]
  <2> HIDE DEF y
  <2> QED
    BY <1>5, <1>6 DEF TypeOK
<1> HIDE DEF y
<1>9. fids' \in [Fids -> FidType]
  <2>1. fids' = [k \in Fids |-> fids'[k]]
    BY <1>6 DEF TypeOK
  <2>2. \A k \in Fids : fids'[k] \in FidType
    BY <1>7, <1>8 DEF TypeOK
  <2> HIDE DEF FidType
  <2> QED
    BY <2>1, <2>2
<1>10. TypeOK'
  BY <1>1, <1>3, <1>9 DEF TypeOK, Others
<1>11. ShapeInv'
  BY <1>3, <1>4, ShapeStep
<1>12. FidInv'
  <2>1. \A k \in Fids : fids'[k].refs = fids[k].refs /\ fids'[k].owned = fids[k].owned
    BY <1>7, <1>8
  <2> QED
    BY <1>1, <1>2, <1>3, <1>4, <2>1, FidsSame
<1>13. FileInv'
  <2>1. \A f \in Files : Cardinality(OwnersOf(rq', pool', fids', f)) =
          Cardinality(OwnersOf(rq, pool, fids, f)) + (IF fids'[rq[r].fid].file = f THEN 1 ELSE 0)
    BY <1>1, <1>2, <1>3, <1>4, <1>8, OwnersMoved
  <2>2. fids'[rq[r].fid].file = Top(r).file /\ pool' \in SUBSET Fids
    BY <1>7, <1>8, <1>10 DEF TypeOK
  <2>3. \A f \in Files : Cardinality(OwnersOf(rq', pool', fids', f)) =
          Cardinality(OwnersOf(rq, pool, fids, f)) + (IF Top(r).file = f THEN 1 ELSE 0)
    BY <2>1, <2>2
  <2> QED
    BY <1>1, <1>3, <1>5, <2>2, <2>3, FilesGiven
<1>14. EntryInv'
  <2>1. ASSUME "create" \notin Ops, PathInv PROVE PathsRight(r)
    <3>1. rq[r].op = "walk"
      BY <1>1, <1>2, <2>1, RequestType DEF Shape, Rewrites
    <3>2. Named(files, t)
      BY <1>5, <2>1, TopType
    <3>3. Named(files, fids'[n])
      BY <1>7, <1>8, <3>1, <3>2 DEF Named
    <3>4. \A k \in pool : Named(files, fids'[k])
      BY <1>8, <2>1, <3>3 DEF PathInv, TypeOK
    <3>5. Named(files, rq'[r].drop)
      BY <1>3, <2>1 DEF PathInv
    <3>6. \A i \in 1 .. Len(rq'[r].held) : Named(files, rq'[r].held[i])
      BY <1>3
    <3> QED
      BY <1>1, <3>4, <3>5, <3>6 DEF PathsRight
  <2> QED
    BY <1>1, <1>3, <2>1, EntriesSame
<1> QED
  BY <1>10, <1>11, <1>12, <1>13, <1>14

\* PutFid: the number is new, or in use.
LEMMA PutFidInv ==
  ASSUME IInv, NEW r \in Tags, PutFid(r)
  PROVE  IInv'
<1> USE DEF IInv
<1> DEFINE m == rq[r].newfid
<1>1. Shape(rq[r]) /\ rq[r].pc = "newfid" /\ UNCHANGED <<files, refs, filesLock>>
  BY DEF ShapeInv, PutFid, At
<1>2. Len(rq[r].held) = 1 /\ m \in Fids /\ ~MovingFid(rq[r])
  BY <1>1 DEF Shape, Fits, MovingFid, InDecRef
<1>3. Len(rq[r].held) > 0 /\ Top(r) \in Refs /\ Pop(r) = <<>> /\ Len(rq[r].held) - 1 = 0
  BY <1>2, OnlyTop
<1>4. CASE m \in pool
  <2>1. DecRef(r, Top(r), Pop(r), "finish") /\ UNCHANGED <<pool, fids>>
    BY <1>3, <1>4 DEF PutFid
  <2>2. Fits("finish", rq[r].op, Len(rq[r].held) - 1)
    BY <1>3 DEF Fits
  <2> QED
    BY <1>1, <1>3, <2>1, <2>2, DecRefTop
<1>5. CASE m \notin pool
  <2> DEFINE FidType == [refs : Nat, path : Paths, file : Files, opened : BOOLEAN, owned : BOOLEAN]
             t == Top(r)
             y == [refs |-> 1, path |-> t.path, file |-> t.file, opened |-> FALSE, owned |-> TRUE]
  <2>1. pool' = pool \cup {m} /\ fids' = [fids EXCEPT ![m] = y]
    BY <1>5 DEF PutFid
  <2>2. Set(r, [rq[r] EXCEPT !.held = <<>>, !.pc = "finish"])
    BY <1>5 DEF PutFid
  <2>3. /\ Others(r) /\ Kept(r) /\ rq'[r].pc = "finish" /\ rq'[r].held = <<>>
        /\ rq'[r].drop = rq[r].drop
    BY <2>2, SetEmpty
  <2>4. Shape(rq'[r]) /\ ~MovingFid(rq'[r])
    BY <1>1, <2>3, FinishShape DEF Kept
  <2>5. y \in FidType /\ y.refs = 1 /\ y.owned /\ y.file = t.file /\ y.path = t.path
    BY <1>3 DEF Refs
  <2> HIDE DEF y
  <2>6. fids'[m] = y /\ \A k \in Fids \ {m} : fids'[k] = fids[k]
    BY <1>2, <2>1 DEF TypeOK
  <2>7. fids' \in [Fids -> FidType]
    <3>1. fids' = [k \in Fids |-> fids'[k]]
      BY <2>1 DEF TypeOK
    <3>2. \A k \in Fids : fids'[k] \in FidType
      BY <2>5, <2>6 DEF TypeOK
    <3> HIDE DEF FidType
    <3> QED
      BY <3>1, <3>2
  <2>8. TypeOK'
    BY <1>1, <1>2, <2>1, <2>3, <2>7 DEF TypeOK, Others
  <2>9. ShapeInv'
    BY <2>3, <2>4, ShapeStep
  <2> HIDE DEF m
  <2>10. FidInv'
    BY <1>1, <1>2, <1>5, <2>1, <2>3, <2>5, <2>6, FidAdded
  <2>11. FileInv'
    <3>1. \A f \in Files : Cardinality(OwnersOf(rq', pool', fids', f)) =
            Cardinality(OwnersOf(rq, pool, fids, f)) + (IF fids'[m].file = f THEN 1 ELSE 0)
      BY <1>2, <1>5, <2>1, <2>3, <2>4, <2>6, OwnersAdded
    <3>2. fids'[m].file = Top(r).file /\ pool' \in SUBSET Fids
      BY <2>5, <2>6, <2>8 DEF TypeOK
    <3>3. \A f \in Files : Cardinality(OwnersOf(rq', pool', fids', f)) =
            Cardinality(OwnersOf(rq, pool, fids, f)) + (IF Top(r).file = f THEN 1 ELSE 0)
      BY <3>1, <3>2
    <3> QED
      BY <1>1, <1>3, <2>3, <3>2, <3>3, FilesGiven
  <2>12. EntryInv'
    <3>1. ASSUME PathInv PROVE PathsRight(r)
      <4>1. Named(files, t)
        BY <1>3, <3>1, TopType
      <4>2. Named(files, fids'[m])
        BY <2>5, <2>6, <4>1 DEF Named
      <4>3. \A k \in pool' : Named(files, fids'[k])
        BY <2>1, <2>6, <3>1, <4>2 DEF PathInv, TypeOK
      <4>4. Named(files, rq'[r].drop)
        BY <2>3, <3>1 DEF PathInv
      <4>5. \A i \in 1 .. Len(rq'[r].held) : Named(files, rq'[r].held[i])
        BY <2>3
      <4> QED
        BY <1>1, <4>3, <4>4, <4>5 DEF PathsRight
    <3> QED
      BY <1>1, <2>3, <3>1, EntriesSame
  <2> QED
    BY <2>8, <2>9, <2>10, <2>11, <2>12
<1> QED
  BY <1>4, <1>5

\* ReapFid takes the fid out of the pool: nobody can have taken a reference
\* since the count reached zero.
LEMMA ReapFidInv ==
  ASSUME IInv, NEW r \in Tags, ReapFid(r)
  PROVE  IInv'
<1> USE DEF IInv
<1> DEFINE n == rq[r].fid
           FidType == [refs : Nat, path : Paths, file : Files, opened : BOOLEAN, owned : BOOLEAN]
           e == <<>>
<1>1. Shape(rq[r]) /\ rq[r].pc = "reapfid" /\ UNCHANGED <<files, refs, filesLock>>
  BY DEF ShapeInv, ReapFid, At
<1>2. Len(rq[r].held) = 0 /\ ~MovingFid(rq[r])
  BY <1>1 DEF Shape, Fits, MovingFid, InDecRef
<1>3. n \in pool /\ n \in Fids /\ fids[n].refs = 0
  BY <1>1 DEF FidInv, ReapInv, At, TypeOK
<1>4. /\ pool' = pool \ {n} /\ fids' = [fids EXCEPT ![n] = FreeFid]
      /\ DecRef(r, FidRef(r), e, "idle")
  BY <1>3 DEF ReapFid, MyFid
<1>5. /\ FidRef(r) \in Refs /\ FidRef(r).file = fids[n].file /\ FidRef(r).path = fids[n].path
      /\ e \in Seq(Refs) /\ "idle" \in PCs
  BY <1>3 DEF TypeOK, FidRef, MyFid, Refs, PCs
<1>6. rq[r].held = e
  BY <1>2, NoHeld
<1> HIDE DEF e
<1>7. /\ Others(r) /\ Kept(r) /\ rq'[r].pc = "drop" /\ rq'[r].drop = FidRef(r)
      /\ rq'[r].held = rq[r].held /\ rq'[r].then = "idle"
  BY <1>4, <1>5, <1>6, DecRefIs
<1>8. InDecRef(rq'[r]) /\ ~MovingFid(rq'[r])
  BY <1>7 DEF InDecRef, MovingFid
<1>9. \A k \in Fids \ {n} : fids'[k] = fids[k]
  BY <1>4 DEF TypeOK
<1>10. TypeOK'
  <2>1. FreeFid \in FidType
    BY FilesKnown, ParentType DEF FreeFid
  <2>2. fids' \in [Fids -> FidType]
    <3> HIDE DEF FidType
    <3>1. fids \in [Fids -> FidType]
      BY DEF TypeOK, FidType
    <3> QED
      BY <1>3, <1>4, <2>1, <3>1
  <2> QED
    BY <1>1, <1>4, <1>7, <2>2 DEF TypeOK, Others
<1>11. ShapeInv'
  <2>1. Fits("drop", rq[r].op, 0) /\ Fits("idle", rq[r].op, 0)
    BY DEF Fits
  <2>2. Shape(rq'[r])
    BY <1>1, <1>2, <1>7, <1>8, <2>1 DEF Shape, Kept
  <2> QED
    BY <1>7, <2>2, ShapeStep
<1>12. FidInv'
  BY <1>1, <1>4, <1>7, <1>8, <1>9, FidRemoved
<1>13. FileInv'
  <2>1. \A f \in Files : Cardinality(OwnersOf(rq', pool', fids', f)) =
          Cardinality(OwnersOf(rq, pool, fids, f)) - (IF fids[n].file = f THEN 1 ELSE 0)
    <3> HIDE DEF n
    <3> QED
      BY <1>2, <1>3, <1>4, <1>7, <1>8, <1>9, OwnersReaped
  <2>2. pool' \in SUBSET Fids /\ rq'[r].drop.file = fids[n].file
    BY <1>5, <1>7, <1>10 DEF TypeOK
  <2> HIDE DEF n
  <2> QED
    BY <1>1, <1>7, <2>1, <2>2, FilesFidDropped
<1>14. EntryInv'
  <2>1. ASSUME PathInv PROVE PathsRight(r)
    <3>1. Named(files, FidRef(r))
      BY <1>3, <1>5, <2>1 DEF PathInv, Named
    <3>2. \A k \in pool' : Named(files, fids'[k])
      BY <1>4, <1>9, <2>1 DEF PathInv, TypeOK
    <3>3. \A i \in 1 .. Len(rq'[r].held) : Named(files, rq'[r].held[i])
      BY <1>7, <2>1 DEF PathInv
    <3> QED
      BY <1>1, <1>7, <3>1, <3>2, <3>3 DEF PathsRight
  <2> QED
    BY <1>1, <1>7, <2>1, EntriesSame
<1> QED
  BY <1>10, <1>11, <1>12, <1>13, <1>14

\* The return from DecRef.
LEMMA Returned ==
  ASSUME TypeOK, ShapeInv, NEW r \in Tags, InDecRef(rq[r]), Return(r)
  PROVE  /\ Others(r) /\ Shape(rq'[r]) /\ rq'[r].held = rq[r].held /\ rq'[r].drop = Idle.drop
         /\ rq'[r].pc \notin {"drop", "reap", "reapfid", "begin"}
         /\ \/ Kept(r) /\ (Pinned(rq'[r]) <=> Pinned(rq[r]))
            \/ rq'[r] = Idle /\ ~Pinned(rq[r])
         /\ \/ ~MovingFid(rq[r]) /\ ~MovingFid(rq'[r])
            \/ Kept(r) /\ MovingFid(rq[r]) /\ MovingFid(rq'[r])
<1>1. Shape(rq[r]) /\ rq[r].pc \notin {"move", "reapfid", "idle"}
  BY DEF ShapeInv, InDecRef
<1>2. /\ rq[r].then \in {"idle", "finish", "seek", "step", "mkdir", "move"}
      /\ Fits(rq[r].then, rq[r].op, Len(rq[r].held))
  BY <1>1 DEF Shape
<1>3. CASE rq[r].then = "idle"
  <2>1. Others(r) /\ rq'[r] = Idle
    BY <1>3, ReturnIs
  <2>2. Len(rq[r].held) = 0
    BY <1>2, <1>3 DEF Fits
  <2>3. rq[r].held = Idle.held
    BY <2>2, NoHeld
  <2>4. ~Pinned(rq[r]) /\ ~MovingFid(rq[r])
    BY <1>1, <1>3 DEF Pinned, MovingFid
  <2> QED
    BY <2>1, <2>3, <2>4, IdleShape, IdleType
<1>4. CASE rq[r].then # "idle"
  <2>1. /\ Others(r) /\ rq'[r].pc = rq[r].then /\ Kept(r) /\ rq'[r].held = rq[r].held
        /\ rq'[r].drop = Idle.drop
    BY <1>4, ReturnIs
  <2>2. ~InDecRef(rq'[r]) /\ Pinned(rq[r]) /\ Pinned(rq'[r]) /\ (MovingFid(rq'[r]) <=> MovingFid(rq[r]))
    BY <1>1, <1>2, <1>4, <2>1 DEF InDecRef, Pinned, MovingFid
  <2>3. Shape(rq'[r])
    BY <1>1, <1>2, <1>4, <2>1, <2>2 DEF Shape, Kept
  <2> QED
    BY <1>2, <1>4, <2>1, <2>2, <2>3
<1> QED
  BY <1>3, <1>4

\* Drop: the decrement, and what is done at zero.
LEMMA DropInv ==
  ASSUME IInv, NEW r \in Tags, Drop(r)
  PROVE  IInv'
<1> USE DEF IInv
<1> DEFINE g == rq[r].drop.file
<1>1. /\ Shape(rq[r]) /\ rq[r].pc = "drop" /\ UNCHANGED <<files, filesLock, pool, fids>>
      /\ refs' = [refs EXCEPT ![g] = @ - 1]
      /\ IF refs[g] = 1 THEN Goto(r, "reap") ELSE Return(r)
  BY DEF ShapeInv, Drop, At
<1>2. InDecRef(rq[r])
  BY <1>1 DEF InDecRef
<1>3. g \in Files /\ refs[g] \in Nat /\ refs[g] > 0
  BY <1>1, DropCounted DEF TypeOK
<1>4. refs' \in [Files -> Nat] /\ refs'[g] = refs[g] - 1 /\ \A f \in Files : f # g => refs'[f] = refs[f]
  <2>1. refs[g] - 1 \in Nat
    BY <1>3
  <2> HIDE DEF g
  <2> QED
    BY <1>1, <1>3, <2>1 DEF TypeOK
<1>5. /\ Others(r) /\ Shape(rq'[r]) /\ rq'[r].held = rq[r].held
      /\ rq'[r].drop \in {rq[r].drop, Idle.drop}
      /\ refs[g] = 1 => rq'[r].pc = "reap" /\ rq'[r].drop = rq[r].drop
      /\ rq'[r].pc \notin {"drop", "reapfid", "begin"}
      /\ \/ Kept(r) /\ (Pinned(rq'[r]) <=> Pinned(rq[r]))
         \/ rq'[r] = Idle /\ ~Pinned(rq[r])
      /\ \/ ~MovingFid(rq[r]) /\ ~MovingFid(rq'[r])
         \/ Kept(r) /\ MovingFid(rq[r]) /\ MovingFid(rq'[r])
  <2>1. CASE refs[g] = 1
    <3>1. /\ Others(r) /\ Kept(r) /\ rq'[r].pc = "reap" /\ rq'[r].held = rq[r].held
          /\ rq'[r].drop = rq[r].drop /\ rq'[r].then = rq[r].then
      <4>1. Goto(r, "reap") /\ "reap" \in PCs
        BY <1>1, <2>1 DEF PCs
      <4> QED
        BY <4>1, GotoIs
    <3>2. InDecRef(rq'[r]) /\ (Pinned(rq'[r]) <=> Pinned(rq[r])) /\ (MovingFid(rq'[r]) <=> MovingFid(rq[r]))
      BY <1>1, <3>1 DEF InDecRef, Pinned, MovingFid
    <3>3. Fits("reap", rq[r].op, Len(rq[r].held))
      BY DEF Fits
    <3>4. Shape(rq'[r])
      BY <1>1, <1>2, <3>1, <3>2, <3>3 DEF Shape, Kept
    <3> QED
      BY <3>1, <3>2, <3>4
  <2>2. CASE refs[g] # 1
    <3>1. Return(r)
      BY <1>1, <2>2
    <3> HIDE DEF g
    <3> QED
      BY <1>2, <2>2, <3>1, Returned
  <2> QED
    BY <2>1, <2>2
<1>6. TypeOK'
  BY <1>1, <1>4, <1>5 DEF TypeOK, Others
<1>7. ShapeInv'
  BY <1>5, ShapeStep
<1>8. FidInv'
  BY <1>1, <1>5, FidsSame
<1>9. FileInv'
  <2>1. \A f \in Files : refs'[f] = refs[f] - (IF g = f THEN 1 ELSE 0)
    BY <1>3, <1>4 DEF TypeOK
  <2> QED
    BY <1>1, <1>5, <2>1, FilesDropped
<1>10. EntryInv'
  <2>1. ASSUME PathInv PROVE PathsRight(r)
    <3>1. Named(files, rq'[r].drop)
      BY <1>5, <2>1, RootNamed DEF PathInv
    <3>2. \A i \in 1 .. Len(rq'[r].held) : Named(files, rq'[r].held[i])
      BY <1>5, <2>1 DEF PathInv
    <3> QED
      BY <1>1, <2>1, <3>1, <3>2 DEF PathInv, PathsRight
  <2>2. refs'[g] = 0 => rq'[r].pc = "reap" /\ rq'[r].drop = rq[r].drop
    BY <1>3, <1>4, <1>5
  <2> QED
    BY <1>1, <1>4, <1>5, <2>1, <2>2, EntriesDropped
<1> QED
  BY <1>6, <1>7, <1>8, <1>9, <1>10

\* Reap removes the entry.
LEMMA ReapInvariant ==
  ASSUME IInv, NEW r \in Tags, Reap(r)
  PROVE  IInv'
<1> USE DEF IInv
<1>1. /\ rq[r].pc = "reap" /\ Return(r) /\ UNCHANGED <<refs, filesLock, pool, fids>>
      /\ files' = IF refs[rq[r].drop.file] # 0 \/ rq[r].drop.path = Root
                  THEN files ELSE [files EXCEPT ![rq[r].drop.path] = NoFile]
  BY DEF Reap, At
<1>2. InDecRef(rq[r])
  BY <1>1 DEF InDecRef
<1>3. /\ Others(r) /\ Shape(rq'[r]) /\ rq'[r].held = rq[r].held /\ rq'[r].drop = Idle.drop
      /\ rq'[r].pc \notin {"drop", "reap", "reapfid", "begin"}
      /\ \/ Kept(r) /\ (Pinned(rq'[r]) <=> Pinned(rq[r]))
         \/ rq'[r] = Idle /\ ~Pinned(rq[r])
      /\ \/ ~MovingFid(rq[r]) /\ ~MovingFid(rq'[r])
         \/ Kept(r) /\ MovingFid(rq[r]) /\ MovingFid(rq'[r])
  BY <1>1, <1>2, Returned
<1>4. TypeOK'
  <2>1. files' \in [Paths -> Files \cup {NoFile}]
    BY <1>1 DEF TypeOK
  <2> QED
    BY <1>1, <1>3, <2>1 DEF TypeOK, Others
<1>5. ShapeInv'
  BY <1>3, ShapeStep
<1>6. FidInv'
  BY <1>1, <1>3, FidsSame
<1>7. FileInv'
  BY <1>1, <1>3, FilesSame
<1>8. EntryInv'
  BY <1>1, <1>3, EntriesReaped
<1> QED
  BY <1>4, <1>5, <1>6, <1>7, <1>8

\* One more local variable, with its reference.
LEMMA Pushed ==
  ASSUME IInv, NEW r \in Tags, NEW ref \in Refs, Others(r), Shape(rq'[r]),
         rq'[r].held = Append(rq[r].held, ref), rq'[r].drop = rq[r].drop \/ rq'[r].drop = Idle.drop,
         refs' = [refs EXCEPT ![ref.file] = @ + 1], UNCHANGED <<files, filesLock, pool, fids>>,
         rq[r].pc \in {"idle", "begin", "seek"}, rq'[r].pc \in {"found", "newfid", "step"},
         Kept(r) \/ (rq[r].fid = NoFid /\ rq'[r].fid = NoFid),
         "create" \notin Ops /\ PathInv => Named(files, ref)
  PROVE  IInv'
<1> USE DEF IInv
<1>1. ~MovingFid(rq[r]) /\ ~MovingFid(rq'[r]) /\ Pinned(rq[r]) /\ Pinned(rq'[r])
  BY DEF MovingFid, InDecRef, Pinned
<1> DEFINE g == ref.file
<1>2. g \in Files /\ refs[g] \in Nat
  BY DEF Refs, TypeOK
<1>3. refs' \in [Files -> Nat] /\ refs'[g] = refs[g] + 1 /\ \A f \in Files : f # g => refs'[f] = refs[f]
  <2>1. refs[g] + 1 \in Nat
    BY <1>2
  <2> HIDE DEF g
  <2>2. refs' = [refs EXCEPT ![g] = refs[g] + 1]
    BY DEF g
  <2> QED
    BY <1>2, <2>1, <2>2 DEF TypeOK
<1>4. TypeOK'
  BY <1>3 DEF TypeOK, Others
<1>5. ShapeInv'
  BY ShapeStep
<1>6. FidInv'
  BY <1>1, FidsSame
<1>7. FileInv'
  <2>1. \A f \in Files : refs'[f] = refs[f] + (IF ref.file = f THEN 1 ELSE 0)
    BY <1>2, <1>3 DEF TypeOK
  <2> QED
    BY <1>1, <2>1, FilesPushed
<1>8. EntryInv'
  <2>1. \A f \in Files : refs'[f] = 0 => refs[f] = 0
    BY <1>2, <1>3
  <2>2. ASSUME "create" \notin Ops, PathInv PROVE PathsRight(r)
    <3>1. Named(files, rq'[r].drop)
      BY <2>2, RootNamed DEF PathInv
    <3>2. \A i \in 1 .. Len(rq'[r].held) : Named(files, rq'[r].held[i])
      <4> DEFINE h == rq[r].held
      <4>1. h \in Seq(Refs) /\ \A i \in 1 .. Len(h) : Named(files, h[i])
        BY <2>2, RequestType DEF PathInv
      <4>2. rq'[r].held = Append(h, ref)
        OBVIOUS
      <4> HIDE DEF h
      <4>3. \A i \in 1 .. Len(Append(h, ref)) :
              (i \in 1 .. Len(h) /\ Append(h, ref)[i] = h[i]) \/ Append(h, ref)[i] = ref
        BY <4>1, AppendIs
      <4> QED
        BY <2>2, <4>1, <4>2, <4>3, Zenon
    <3> QED
      BY <2>2, <3>1, <3>2 DEF PathInv, PathsRight
  <2> QED
    BY <2>1, <2>2, EntriesSame
<1> QED
  BY <1>4, <1>5, <1>6, <1>7, <1>8

\* Push.
LEMMA PushIs ==
  ASSUME TypeOK, ShapeInv, NEW r \in Tags, NEW f \in Files, Push(r, f), rq[r].pc \in {"seek", "insert"}
  PROVE  /\ Others(r) /\ Kept(r) /\ rq'[r].pc = "found" /\ rq'[r].drop = rq[r].drop
         /\ rq'[r].held = Append(rq[r].held, [file |-> f, path |-> rq[r].path])
         /\ [file |-> f, path |-> rq[r].path] \in Refs
         /\ Shape(rq'[r])
<1> DEFINE q == rq[r]
           ref == [file |-> f, path |-> q.path]
           h == Append(q.held, ref)
           new == [q EXCEPT !.held = h, !.pc = "found"]
<1>1. q \in Requests /\ q.path \in Paths /\ q.held \in Seq(Refs)
  BY RequestType
<1>2. ref \in Refs
  BY <1>1 DEF Refs
<1>3. h \in Seq(Refs) /\ Len(h) = Len(q.held) + 1 /\ Len(q.held) \in Nat
  <2> HIDE DEF q, ref
  <2> QED
    BY <1>1, <1>2
<1>4. Set(r, new)
  BY DEF Push
<1> HIDE DEF q, h
<1>5. /\ new \in Requests /\ new.pc = "found" /\ new.op = q.op /\ new.fid = q.fid
      /\ new.newfid = q.newfid /\ new.held = h /\ new.drop = q.drop
  BY <1>1, <1>3 DEF Requests, PCs
<1> HIDE DEF new
<1>6. Others(r) /\ rq'[r] = new
  BY <1>4, <1>5, SetIs
<1>7. Shape(rq'[r])
  <2>1. Shape(q) /\ q.pc \in {"seek", "insert"}
    BY DEF ShapeInv, q
  <2>2. Fits("found", q.op, Len(h))
    BY <1>3, <2>1 DEF Shape, Fits
  <2> QED
    BY <1>5, <1>6, <2>1, <2>2 DEF Shape, InDecRef, MovingFid
<1> QED
  BY <1>2, <1>5, <1>6, <1>7 DEF Kept, q, h

\* Seek: the entry is there, or not.
LEMMA SeekInv ==
  ASSUME IInv, NEW r \in Tags, Seek(r)
  PROVE  IInv'
<1> DEFINE f == files[rq[r].path]
<1>1. /\ TypeOK /\ ShapeInv /\ Shape(rq[r]) /\ rq[r].pc = "seek"
      /\ UNCHANGED <<files, filesLock, pool, fids>>
  BY DEF IInv, ShapeInv, Seek, At
<1>2. rq[r].path \in Paths /\ f \in Files \cup {NoFile}
  BY <1>1, RequestType DEF TypeOK
<1>3. CASE f # NoFile
  <2>1. refs' = [refs EXCEPT ![f] = @ + 1] /\ Push(r, f) /\ f \in Files
    BY <1>2, <1>3 DEF Seek
  <2> DEFINE ref == [file |-> f, path |-> rq[r].path]
  <2>2. "create" \notin Ops /\ PathInv => Named(files, ref)
    BY <1>2, <1>3 DEF PathInv, Named
  <2>3. ref.file = f
    OBVIOUS
  <2> HIDE DEF f
  <2>4. /\ Others(r) /\ Kept(r) /\ rq'[r].pc = "found" /\ rq'[r].drop = rq[r].drop
        /\ rq'[r].held = Append(rq[r].held, ref) /\ ref \in Refs /\ Shape(rq'[r])
    BY <1>1, <2>1, PushIs
  <2>5. refs' = [refs EXCEPT ![ref.file] = @ + 1]
    BY <2>1, <2>3
  <2> HIDE DEF ref
  <2> QED
    BY <1>1, <2>2, <2>4, <2>5, Pushed
<1>4. CASE f = NoFile
  <2>1. UNCHANGED refs /\ Goto(r, "insert") /\ "insert" \in PCs
    BY <1>4 DEF Seek, PCs
  <2>2. Fits("insert", rq[r].op, Len(rq[r].held))
    BY <1>1 DEF Shape, Fits
  <2> QED
    BY <1>1, <2>1, <2>2, NeutralGoto
<1> QED
  BY <1>3, <1>4

\* Insert: the race lost, an error, or a new entry.
LEMMA InsertInv ==
  ASSUME IInv, NEW r \in Tags, Insert(r)
  PROVE  IInv'
<1> USE DEF IInv
<1>1. Shape(rq[r]) /\ rq[r].pc = "insert" /\ UNCHANGED <<pool, fids>> /\ rq[r].held \in Seq(Refs)
  BY RequestType DEF ShapeInv, Insert, At
<1>2. CASE LookupLost(r)
  <2>1. /\ files' = files /\ refs' = refs /\ filesLock' \in Tags \cup {NoTag}
        /\ Goto(r, "stuck") /\ "stuck" \in PCs
    BY <1>2 DEF LookupLost, PCs
  <2>2. /\ Others(r) /\ Kept(r) /\ rq'[r].pc = "stuck" /\ rq'[r].held = rq[r].held
        /\ rq'[r].drop = rq[r].drop
    BY <2>1, GotoIs
  <2>3. Fits("stuck", rq[r].op, Len(rq[r].held))
    BY DEF Fits
  <2>4. fids' \in [Fids -> [refs : Nat, path : Paths, file : Files, opened : BOOLEAN, owned : BOOLEAN]]
    BY <1>1 DEF TypeOK
  <2> QED
    BY <1>1, <2>1, <2>2, <2>3, <2>4, Neutral
<1>3. CASE LookupFailed(r)
  <2> DEFINE pc == IF rq[r].held # <<>> THEN "built" ELSE "finish"
  <2>1. UNCHANGED <<files, refs, filesLock, pool, fids>> /\ Goto(r, pc)
    BY <1>1, <1>3 DEF LookupFailed
  <2>2. pc \in PCs /\ Fits(pc, rq[r].op, Len(rq[r].held)) /\ pc \in {"built", "finish"}
    <3>1. CASE rq[r].held = <<>>
      <4>1. Len(rq[r].held) = 0
        BY <3>1
      <4> QED
        BY <3>1, <4>1 DEF PCs, Fits
    <3>2. CASE rq[r].held # <<>>
      <4>1. Len(rq[r].held) > 0
        BY <1>1, <3>2
      <4> QED
        BY <1>1, <3>2, <4>1 DEF PCs, Fits, Shape
    <3> QED
      BY <3>1, <3>2
  <2> HIDE DEF pc
  <2> QED
    BY <1>1, <2>1, <2>2, NeutralGoto
<1>4. CASE LookupAdded(r)
  <2> DEFINE g == CHOOSE f \in Unused : TRUE
             ref == [file |-> g, path |-> rq[r].path]
  <2>1. /\ g \in Unused /\ files[rq[r].path] = NoFile
        /\ files' = [files EXCEPT ![rq[r].path] = g]
        /\ refs' = [refs EXCEPT ![g] = 1] /\ Push(r, g) /\ UNCHANGED filesLock
    BY <1>4 DEF LookupAdded
  <2> HIDE DEF g
  <2>2. g \in Files /\ g # RootFile /\ refs[g] = 0
    BY <2>1, UnusedZero
  <2>3. /\ Others(r) /\ Kept(r) /\ rq'[r].pc = "found" /\ rq'[r].drop = rq[r].drop
        /\ rq'[r].held = Append(rq[r].held, ref) /\ ref \in Refs /\ Shape(rq'[r])
    BY <1>1, <2>1, <2>2, PushIs
  <2>4. ~MovingFid(rq[r]) /\ ~MovingFid(rq'[r]) /\ Pinned(rq[r]) /\ Pinned(rq'[r])
    BY <1>1, <2>3 DEF MovingFid, InDecRef, Pinned
  <2>5. TypeOK'
    <3>1. files' \in [Paths -> Files \cup {NoFile}] /\ refs' \in [Files -> Nat]
      BY <2>1, <2>2, RequestType DEF TypeOK
    <3> QED
      BY <1>1, <2>1, <2>3, <3>1 DEF TypeOK, Others
  <2>6. ShapeInv'
    BY <2>3, ShapeStep
  <2>7. FidInv'
    BY <1>1, <2>3, <2>4, FidsSame
  <2>8. FileInv'
    <3>1. \A f \in Files : refs'[f] = refs[f] + (IF g = f THEN 1 ELSE 0)
      BY <2>1, <2>2 DEF TypeOK
    <3>2. ref.file = g
      OBVIOUS
    <3> HIDE DEF ref
    <3> QED
      BY <1>1, <2>3, <2>4, <3>1, <3>2, FilesPushed
  <2>9. EntryInv'
    BY <1>1, <2>1, <2>3, EntriesAdded
  <2> QED
    BY <2>5, <2>6, <2>7, <2>8, <2>9
<1> QED
  BY <1>2, <1>3, <1>4 DEF Insert

\* A stack of one.
LEMMA AppendEmpty ==
  ASSUME NEW x, NEW h, h = <<>>
  PROVE  <<x>> = Append(h, x) /\ Len(<<x>>) = 1
OBVIOUS

\* Attach takes a reference to the root.
LEMMA AttachInv ==
  ASSUME IInv, NEW r \in Tags, Attach(r)
  PROVE  IInv'
<1> DEFINE ref == [file |-> RootFile, path |-> Root]
           h == <<ref>>
           new(m) == [Idle EXCEPT !.pc = "newfid", !.op = "attach", !.newfid = m, !.held = h]
<1>1. /\ TypeOK /\ Shape(rq[r]) /\ rq[r].pc = "idle" /\ "attach" \in Ops
      /\ refs' = [refs EXCEPT ![ref.file] = @ + 1] /\ UNCHANGED <<files, filesLock, pool, fids>>
  BY DEF IInv, ShapeInv, Attach, At
<1>2. PICK m \in Fids : Set(r, new(m))
  BY DEF Attach
<1>3. rq[r] = Idle /\ rq[r].held = <<>> /\ rq[r].fid = NoFid
  BY <1>1, IdleType DEF Shape
<1>4. ref \in Refs
  BY FilesKnown, ParentType DEF Refs
<1>5. h \in Seq(Refs) /\ Len(h) = 1 /\ h = Append(rq[r].held, ref)
  <2> HIDE DEF ref
  <2> QED
    BY <1>3, <1>4, AppendEmpty
<1>6. /\ new(m) \in Requests /\ new(m).pc = "newfid" /\ new(m).op = "attach" /\ new(m).fid = Idle.fid
      /\ new(m).newfid = m /\ new(m).held = h /\ new(m).drop = Idle.drop
  <2> DEFINE i == Idle
  <2>1. i \in Requests /\ new(m) = [i EXCEPT !.pc = "newfid", !.op = "attach", !.newfid = m, !.held = h]
    BY IdleType
  <2> HIDE DEF i, h, new
  <2>2. /\ new(m) \in Requests /\ new(m).pc = "newfid" /\ new(m).op = "attach" /\ new(m).fid = i.fid
        /\ new(m).newfid = m /\ new(m).held = h /\ new(m).drop = i.drop
    BY <1>1, <1>5, <2>1 DEF Requests, PCs
  <2> QED
    BY <2>2 DEF i
<1> HIDE DEF new
<1>7. Others(r) /\ rq'[r] = new(m)
  BY <1>1, <1>2, <1>6, SetIs
<1> HIDE DEF h
<1>8. Shape(rq'[r])
  <2>1. Fits("newfid", "attach", 1)
    BY DEF Fits
  <2>2. rq'[r].pc = "newfid" /\ rq'[r].op = "attach" /\ rq'[r].fid = NoFid /\ rq'[r].newfid \in Fids
        /\ Len(rq'[r].held) = 1
    BY <1>5, <1>6, <1>7, IdleType
  <2> QED
    BY <2>1, <2>2 DEF Shape, InDecRef, MovingFid
<1>9. "create" \notin Ops /\ PathInv => Named(files, ref)
  BY <1>1, RootNamed, IdleType
<1> HIDE DEF ref
<1>10. /\ rq'[r].pc = "newfid" /\ rq'[r].fid = NoFid /\ rq'[r].drop = Idle.drop
       /\ rq'[r].held = Append(rq[r].held, ref)
  BY <1>5, <1>6, <1>7, IdleType
<1> QED
  BY <1>1, <1>3, <1>4, <1>7, <1>8, <1>9, <1>10, Pushed

\* Walk takes a reference to the fid's file.
LEMMA WalkInv ==
  ASSUME IInv, NEW r \in Tags, Walk(r)
  PROVE  IInv'
<1> DEFINE ref == FidRef(r)
           h == <<ref>>
           q == rq[r]
           new == [q EXCEPT !.held = h, !.names = MaxNames, !.pc = "step"]
<1>1. /\ TypeOK /\ FidInv /\ Shape(q) /\ q.pc = "begin" /\ q.op = "walk"
      /\ UNCHANGED <<files, filesLock, pool, fids>> /\ Set(r, new)
      /\ refs' = [refs EXCEPT ![MyFid(r).file] = @ + 1]
  BY DEF IInv, ShapeInv, Walk, At
<1>2. Len(q.held) = 0 /\ q.fid # NoFid /\ Pinned(q)
  BY <1>1 DEF Shape, Fits, Pinned, InDecRef
<1>3. q.held = <<>> /\ q.fid \in Fids /\ q.fid \in pool
  BY <1>1, <1>2, NoHeld, PinnedFid
<1>4. ref \in Refs /\ ref.file = MyFid(r).file
  BY <1>1, <1>3 DEF TypeOK, FidRef, MyFid, Refs
<1>5. h \in Seq(Refs) /\ Len(h) = 1 /\ h = Append(q.held, ref)
  <2> HIDE DEF ref, q
  <2> QED
    BY <1>3, <1>4, AppendEmpty
<1>6. "create" \notin Ops /\ PathInv => Named(files, ref)
  BY <1>3 DEF PathInv, FidRef, MyFid, Named
<1>7. q \in Requests
  BY <1>1, RequestType
<1> HIDE DEF h, ref, q
<1>8. /\ new \in Requests /\ new.pc = "step" /\ new.op = q.op /\ new.fid = q.fid
      /\ new.newfid = q.newfid /\ new.held = h /\ new.drop = q.drop
  <2> DEFINE k == MaxNames
             q1 == [q EXCEPT !.held = h, !.names = k]
  <2>1. k \in 0 .. MaxNames
    BY MaxNamesType
  <2>2. new = [q1 EXCEPT !.pc = "step"]
    OBVIOUS
  <2> HIDE DEF k, new
  <2>3. /\ q1 \in Requests /\ q1.op = q.op /\ q1.fid = q.fid
        /\ q1.newfid = q.newfid /\ q1.held = h /\ q1.drop = q.drop
    BY <1>5, <1>7, <2>1, MaxNamesType DEF Requests
  <2> HIDE DEF q1
  <2>4. /\ new \in Requests /\ new.pc = "step" /\ new.op = q1.op /\ new.fid = q1.fid
        /\ new.newfid = q1.newfid /\ new.held = q1.held /\ new.drop = q1.drop
    BY <2>2, <2>3 DEF Requests, PCs
  <2> QED
    BY <2>3, <2>4
<1> HIDE DEF new
<1>9. Others(r) /\ rq'[r] = new
  BY <1>1, <1>8, SetIs
<1>10. Shape(rq'[r])
  <2>1. Fits("step", q.op, 1)
    BY <1>1 DEF Fits
  <2> QED
    BY <1>1, <1>5, <1>8, <1>9, <2>1 DEF Shape, InDecRef, MovingFid
<1>11. refs' = [refs EXCEPT ![ref.file] = @ + 1]
  BY <1>1, <1>4
<1>12. /\ rq'[r].held = Append(rq[r].held, ref) /\ rq'[r].drop = rq[r].drop
       /\ rq[r].pc = "begin" /\ rq'[r].pc = "step" /\ Kept(r)
  BY <1>1, <1>5, <1>8, <1>9 DEF q, Kept
<1> QED
  BY <1>1, <1>4, <1>6, <1>9, <1>10, <1>11, <1>12, Pushed

\* Start: a request on a fid that is in the pool.
LEMMA StartInv ==
  ASSUME IInv, NEW r \in Tags, NEW op \in Ops, NEW n \in Fids, NEW m \in Fids \cup {NoFid},
         op # "attach", op = "walk" => m \in Fids, Start(r, op, n, m)
  PROVE  IInv'
<1> USE DEF IInv
<1> DEFINE FidType == [refs : Nat, path : Paths, file : Files, opened : BOOLEAN, owned : BOOLEAN]
           new == [Idle EXCEPT !.pc = "begin", !.op = op, !.fid = n, !.newfid = m]
<1>1. /\ Shape(rq[r]) /\ rq[r].pc = "idle" /\ n \in pool /\ fids[n].owned /\ Set(r, new)
      /\ UNCHANGED <<files, refs, filesLock, pool>> /\ fids' = [fids EXCEPT ![n].refs = @ + 1]
      /\ \A s \in Tags : rq[s].fid = n => /\ ~Rewrites(op, n, m)
                                          /\ ~Rewrites(rq[s].op, n, rq[s].newfid)
                                          /\ ~Closes(rq[s].op)
  BY DEF ShapeInv, Start, At
<1>2. rq[r] = Idle /\ n # NoFid
  BY <1>1, NoFidFresh DEF Shape
<1>3. /\ new \in Requests /\ new.pc = "begin" /\ new.op = op /\ new.fid = n
      /\ new.newfid = m /\ new.held = Idle.held /\ new.drop = Idle.drop
  <2> DEFINE i == Idle
  <2>1. i \in Requests /\ new = [i EXCEPT !.pc = "begin", !.op = op, !.fid = n, !.newfid = m]
    BY IdleType
  <2> HIDE DEF i, new
  <2>2. /\ new \in Requests /\ new.pc = "begin" /\ new.op = op /\ new.fid = n
        /\ new.newfid = m /\ new.held = i.held /\ new.drop = i.drop
    BY <2>1 DEF Requests, PCs
  <2> QED
    BY <2>2 DEF i
<1> HIDE DEF new
<1>4. /\ Others(r) /\ rq'[r].pc = "begin" /\ rq'[r].op = op /\ rq'[r].fid = n
      /\ rq'[r].newfid = m /\ rq'[r].held = rq[r].held /\ rq'[r].drop = rq[r].drop
  BY <1>1, <1>2, <1>3, SetIs
<1>5. Len(rq'[r].held) = 0
  BY <1>2, <1>4, IdleType
<1>6. ~MovingFid(rq[r]) /\ ~MovingFid(rq'[r]) /\ ~InDecRef(rq'[r])
  BY <1>1, <1>4 DEF MovingFid, InDecRef
<1>7. /\ fids'[n] = [fids[n] EXCEPT !.refs = fids[n].refs + 1]
      /\ \A k \in Fids \ {n} : fids'[k] = fids[k]
  BY <1>1 DEF TypeOK
<1>8. /\ fids'[n] \in FidType /\ fids'[n].refs = fids[n].refs + 1 /\ fids'[n].owned = fids[n].owned
      /\ fids'[n].file = fids[n].file /\ fids'[n].path = fids[n].path
  <2>1. fids[n] \in FidType
    BY DEF TypeOK
  <2> QED
    BY <1>7, <2>1
<1>9. fids' \in [Fids -> FidType]
  <2>1. fids' = [k \in Fids |-> fids'[k]]
    BY <1>1 DEF TypeOK
  <2>2. \A k \in Fids : fids'[k] \in FidType
    BY <1>7, <1>8 DEF TypeOK
  <2> HIDE DEF FidType
  <2> QED
    BY <2>1, <2>2
<1>10. TypeOK'
  BY <1>1, <1>4, <1>9 DEF TypeOK, Others
<1>11. ShapeInv'
  <2>1. Fits("begin", op, 0)
    BY DEF Fits
  <2>2. Shape(rq'[r])
    BY <1>2, <1>4, <1>5, <1>6, <2>1 DEF Shape
  <2> QED
    BY <1>4, <2>2, ShapeStep
<1>12. FidInv'
  BY <1>1, <1>4, <1>7, <1>8, FidStarted
<1>13. \A k \in Fids : fids'[k].file = fids[k].file /\ fids'[k].path = fids[k].path
  BY <1>7, <1>8
<1>14. FileInv'
  BY <1>1, <1>4, <1>6, <1>13, FilesSame
<1>15. EntryInv'
  <2>1. ASSUME PathInv PROVE PathsRight(r)
    <3>1. \A k \in pool : fids'[k].file = fids[k].file /\ fids'[k].path = fids[k].path
      BY <1>13 DEF TypeOK
    <3> QED
      BY <1>1, <1>4, <2>1, <3>1 DEF PathInv, PathsRight, Named
  <2> QED
    BY <1>1, <1>4, <2>1, EntriesSame
<1> QED
  BY <1>10, <1>11, <1>12, <1>14, <1>15

-----------------------------------------------------------------------------
(* The specification.                                                      *)

\* The invariant holds after setup: fs.root has the only reference.
LEMMA InitInv ==
  ASSUME Init
  PROVE  IInv
<1>1. TypeOK
  <2>1. Idle \in Requests /\ FreeFid \in [refs : Nat, path : Paths, file : Files,
                                          opened : BOOLEAN, owned : BOOLEAN]
    BY IdleType, FilesKnown, ParentType DEF FreeFid
  <2> QED
    BY <2>1, FilesKnown DEF Init, TypeOK
<1>2. \A r \in Tags : rq[r] = Idle
  BY DEF Init
<1>3. ShapeInv
  BY <1>2, IdleShape DEF ShapeInv
<1>4. FidInv
  <2>1. \A r \in Tags : rq[r].fid = NoFid /\ rq[r].pc = "idle"
    BY <1>2, IdleType
  <2>2. pool = {}
    BY DEF Init
  <2>3. Exclusive /\ PinInv /\ CountInv
    BY <2>1, <2>2 DEF Exclusive, PinInv, CountInv
  <2>4. ReapInv /\ CloseInv
    BY <2>1 DEF ReapInv, CloseInv, At
  <2> QED
    BY <2>3, <2>4 DEF FidInv
<1>5. FileInv
  <2> SUFFICES ASSUME NEW f \in Files
               PROVE  IsFiniteSet(HeldOf(rq, f)) /\ refs[f] = Total(rq, pool, fids, f)
    BY DEF FileInv
  <2>1. \A r \in Tags : rq[r].pc = "idle" /\ Len(rq[r].held) = 0
    BY <1>2, IdleType
  <2>2. OwnersOf(rq, pool, fids, f) = {}
    BY DEF OwnersOf, Init
  <2>3. DropsOf(rq, f) = {}
    BY <2>1 DEF DropsOf
  <2>4. HeldOf(rq, f) = {}
    <3>1. ASSUME NEW x \in HeldOf(rq, f) PROVE FALSE
      <4>1. x[1] \in Tags /\ x[2] \in 1 .. Len(rq[x[1]].held)
        BY <3>1 DEF HeldOf
      <4>2. Len(rq[x[1]].held) = 0
        BY <2>1, <4>1
      <4> QED
        BY <4>1, <4>2
    <3> QED
      BY <3>1
  <2>5. refs[f] = IF f = RootFile THEN 1 ELSE 0
    BY DEF Init
  <2> QED
    BY <2>2, <2>3, <2>4, <2>5, FS_EmptySet DEF Total
<1>6. EntryInv
  <2>1. files[Root] = RootFile /\ \A p \in Paths \ {Root} : files[p] = NoFile
    BY ParentType DEF Init
  <2>2. \A p \in Paths : files[p] # NoFile => p = Root
    BY <2>1
  <2>3. Named(files, Idle.drop)
    <3>1. Idle.drop.file = RootFile /\ Idle.drop.path = Root
      BY IdleType
    <3> QED
      BY <2>2, <3>1, FilesKnown DEF Named
  <2>4. \A r \in Tags : Named(files, rq[r].drop) /\ Len(rq[r].held) = 0
    BY <1>2, <2>3, IdleType
  <2>5. \A r \in Tags : \A i \in 1 .. Len(rq[r].held) : Named(files, rq[r].held[i])
    BY <2>4
  <2>6. pool = {}
    BY DEF Init
  <2>7. PathInv
    BY <2>1, <2>2, <2>4, <2>5, <2>6 DEF PathInv
  <2>8. NoEntryLeft
    BY <2>1 DEF NoEntryLeft
  <2> QED
    BY <2>7, <2>8 DEF EntryInv
<1> QED
  BY <1>1, <1>3, <1>4, <1>5, <1>6 DEF IInv

\* Every step keeps the invariant.
LEMMA NextInv ==
  ASSUME IInv, [Next]_vars
  PROVE  IInv'
<1>1. CASE UNCHANGED vars
  <2>1. TypeOK'
    BY <1>1 DEF IInv, TypeOK, vars
  <2>2. ShapeInv' /\ FidInv' /\ FileInv'
    BY <1>1 DEF IInv, vars, ShapeInv, FidInv, Exclusive, PinInv, ReapInv, CloseInv, CountInv,
                FileInv, At
  <2>3. EntryInv'
    BY <1>1 DEF IInv, vars, EntryInv, PathInv, NoEntryLeft, At
  <2> QED
    BY <2>1, <2>2, <2>3 DEF IInv
<1>2. ASSUME NEW r \in Tags, StartOp(r) PROVE IInv'
  <2>1. PICK n \in Fids : \/ "walk" \in Ops /\ \E m \in Fids : Start(r, "walk", n, m)
                          \/ \E op \in Ops \ {"attach", "walk"} : Start(r, op, n, NoFid)
    BY <1>2 DEF StartOp
  <2>2. CASE "walk" \in Ops /\ \E m \in Fids : Start(r, "walk", n, m)
    BY <2>2, StartInv
  <2>3. CASE \E op \in Ops \ {"attach", "walk"} : Start(r, op, n, NoFid)
    BY <2>3, StartInv
  <2> QED
    BY <2>1, <2>2, <2>3
<1>3. ASSUME NEW r \in Tags, Handle(r) PROVE IInv'
  BY <1>3, PutFidInv, FinishInv, ReapFidInv, DropInv, ReapInvariant, SeekInv, InsertInv,
     WalkInv, WalkNameInv, WalkFoundInv, WalkEndInv, MoveInv, OpenInv, ReadInv, ReadStepInv,
     ReadFoundInv, ClunkInv, CreateInv, RemoveInv, BuildFoundInv, BuildInv, MkdirInv,
     BuiltParentInv, CreateEndInv DEF Handle
<1>4. CASE Next
  <2>1. PICK r \in Tags : Attach(r) \/ StartOp(r) \/ Handle(r)
    BY <1>4 DEF Next
  <2> QED
    BY <1>2, <1>3, <2>1, AttachInv
<1> QED
  BY <1>1, <1>4

\* The invariant holds in every state.
THEOREM Invariance == Spec => []IInv
<1>1. Init => IInv
  BY InitInv
<1>2. IInv /\ [Next]_vars => IInv'
  BY NextInv
<1> QED
  BY <1>1, <1>2, PTL DEF Spec

\* The counts of fids as the invariant has them are those of the property.
LEMMA FidsAreCounted ==
  ASSUME IInv
  PROVE  FidsCounted
<1> SUFFICES ASSUME NEW n \in pool
             PROVE  /\ fids[n].refs = Cardinality(Pins(n)) + (IF fids[n].owned THEN 1 ELSE 0)
                    /\ fids[n].refs = 0 => \E r \in Tags : rq[r].fid = n /\ At(r, "reapfid")
  BY DEF FidsCounted
<1>1. Pins(n) = PinsOf(rq, n)
  BY DEF Pins, PinsOf, Pinned, InDecRef, At
<1>2. Counted(rq, fids, n)
  BY DEF IInv, FidInv, CountInv
<1> QED
  BY <1>1, <1>2 DEF Counted, At

\* The references to files as the invariant has them are those of the property.
LEMMA FilesAreCounted ==
  ASSUME IInv
  PROVE  FilesCounted
<1> SUFFICES ASSUME NEW f \in Files
             PROVE  refs[f] = Cardinality(FidOwners(f)) + Cardinality(HeldRefs(f))
                                + Cardinality(DroppedRefs(f)) + (IF f = RootFile THEN 1 ELSE 0)
  BY DEF FilesCounted
<1>1. \A r \in Tags : Moving(r) <=> MovingFid(rq[r])
  BY DEF Moving, MovingFid, InDecRef, At
<1>2. FidOwners(f) = OwnersOf(rq, pool, fids, f)
  BY <1>1 DEF FidOwners, OwnersOf
<1>3. DroppedRefs(f) = DropsOf(rq, f)
  BY DEF DroppedRefs, DropsOf, At
<1>4. HeldRefs(f) = HeldOf(rq, f)
  <2>1. \A r \in Tags : Len(rq[r].held) \in Nat
    BY RequestType DEF IInv
  <2>2. ASSUME NEW x
        PROVE  x \in HeldRefs(f) <=> x \in HeldOf(rq, f)
    <3>1. x \in HeldRefs(f) <=>
            \E r \in Tags : \E i \in {j \in 1 .. Len(rq[r].held) : rq[r].held[j].file = f} : x = <<r, i>>
      BY DEF HeldRefs
    <3>2. ASSUME x \in HeldRefs(f) PROVE x \in HeldOf(rq, f)
      <4>1. PICK r \in Tags :
              \E i \in {j \in 1 .. Len(rq[r].held) : rq[r].held[j].file = f} : x = <<r, i>>
        BY <3>1, <3>2
      <4>2. PICK i \in {j \in 1 .. Len(rq[r].held) : rq[r].held[j].file = f} : x = <<r, i>>
        BY <4>1
      <4>3. x \in Tags \X Nat /\ x[1] = r /\ x[2] = i
        BY <2>1, <4>2
      <4> QED
        BY <4>2, <4>3 DEF HeldOf
    <3>3. ASSUME x \in HeldOf(rq, f) PROVE x \in HeldRefs(f)
      <4>1. x \in Tags \X Nat /\ x[2] \in 1 .. Len(rq[x[1]].held) /\ rq[x[1]].held[x[2]].file = f
        BY <3>3 DEF HeldOf
      <4>2. x[1] \in Tags /\ x = <<x[1], x[2]>>
        BY <4>1
      <4> QED
        BY <3>1, <4>1, <4>2
    <3> QED
      BY <3>2, <3>3
  <2> QED
    BY <2>2
<1>5. refs[f] = Total(rq, pool, fids, f)
  BY DEF IInv, FileInv
<1> QED
  BY <1>2, <1>3, <1>4, <1>5 DEF Total

\* A fid's count is that of the requests that hold it and of the pool, and at
\* zero one of them takes it out (fid.go: GetFid, DecRef).
THEOREM FidsHaveCounts == Spec => []FidsCounted
BY Invariance, FidsAreCounted, PTL

\* The count of a File is the number of references to it, on every path
\* through the handlers (file.go: IncRef, DecRef).
THEOREM FilesHaveCounts == Spec => []FilesCounted
BY Invariance, FilesAreCounted, PTL

\* Without creates, no entry of the map outlives its File (file.go: DecRef).
THEOREM EntriesLeave ==
  ASSUME "create" \notin Ops
  PROVE  Spec => []NoEntryLeft
<1>1. IInv => NoEntryLeft
  BY DEF IInv, EntryInv
<1> QED
  BY <1>1, Invariance, PTL

=============================================================================
