------------------------------ MODULE MemoryMap ------------------------------
(***************************************************************************)
(* The guest's physical memory (machine/memory.go, user.go,                *)
(* platform/kvm_memory.go): devices reserve regions as they are attached,  *)
(* the user-memory device lays the pages of its file out in what is left,  *)
(* and the loader allocates from there.  After a restart the devices are   *)
(* attached again in the same order and the file is laid out once more,    *)
(* from the segments that were saved.                                      *)
(*                                                                         *)
(* One goroutine does all of it; an action is one Attach, one step of a    *)
(* loop or one allocation.  Addresses are those of a 64-bit register: they *)
(* wrap at AddrMod.                                                        *)
(***************************************************************************)
EXTENDS Naturals, FiniteSets, Sequences, FiniteSetsExt

CONSTANTS
  PageSize,
  AddrMod,    \* 2^64 in the code
  Requests,   \* what devices reserve: records of start, size and type
  MaxBefore,  \* how many reservations come before the user-memory device
  MaxAfter,   \* and how many after it
  FileSizes,  \* sizes of the memory file
  LoadSizes,  \* sizes of what the loader puts into memory
  NoFile

ASSUME PageAssumption == PageSize \in Nat \ {0} /\ AddrMod \in Nat /\ AddrMod % PageSize = 0
ASSUME SizesAssumption == FileSizes \subseteq 1 .. AddrMod - 1 /\ LoadSizes \subseteq 1 .. AddrMod - 1
ASSUME BoundsAssumption == MaxBefore \in Nat /\ MaxAfter \in Nat

Types == {"reserved", "acpi", "special"}
ASSUME RequestsAssumption ==
  Requests \subseteq [start : 0 .. AddrMod - 1, size : 1 .. AddrMod - 1, type : Types]

\* Nothing that is reserved or loaded comes near the top of the address space,
\* wherever the file is laid out.
BelowTop(a) == \A size \in LoadSizes \cup {0} : a + size < AddrMod
ASSUME RoomAssumption ==
  \A n \in FileSizes : BelowTop(n) /\ \A q \in Requests : BelowTop(q.start + q.size + n)

Addrs   == 0 .. AddrMod - 1

VARIABLES
  before, after,  \* the reservations before and after the user-memory device
  filesize,       \* the size of its file
  phase,
  next,           \* how many reservations have been made
  map,            \* model.MemoryMap, without the order: starts differ
  slots,          \* the memory slots KVM knows
  chunks,         \* TypedMemoryRegion.allocated of all regions
  Allocated,      \* UserMemory.Allocated
  lay,            \* the variables of Reload and Layout
  saved           \* what the guest's memory was when the state was saved

vars == <<before, after, filesize, phase, next, map, slots, chunks, Allocated, lay, saved>>
config == <<before, after, filesize>>

After(a, n)  == (a + n) % AddrMod
Minus(a, b)  == (a + AddrMod - b) % AddrMod
End(r)       == After(r.start, r.size)

-----------------------------------------------------------------------------
(* Regions.                                                                *)

\* Faulty variant: only the start of the region is looked at.
OverlapsStart(r, start, size) == r.start >= start /\ r.start < After(start, size)

Overlaps(r, start, size) ==
  \/ r.start >= start /\ r.start < After(start, size)
  \/ End(r) > start /\ End(r) <= After(start, size)

Contains(r, start, size) == r.start <= start /\ End(r) >= After(start, size)

Conflicts(start, size) == \E r \in map : Overlaps(r, start, size)

\* The i-th region of the map, which Add keeps sorted.
Nth(i) == CHOOSE r \in map : Cardinality({s \in map : s.start < r.start}) = i

\* MemoryMap.Max.
MaxAddr == IF map = {} THEN 0 ELSE End(Nth(Cardinality(map) - 1))

\* KVM refuses a slot that overlaps another.
MapUserMemoryFails(start, size) ==
  \E s \in slots : start < s.start + s.size /\ s.start < start + size

Unaligned(start, size) == start % PageSize # 0 \/ size % PageSize # 0

\* What Reserve returns, and what it does to the map and to KVM's slots: the
\* region stays in the map when KVM refuses it.
Reserved(r) == ~Unaligned(r.start, r.size) /\ ~Conflicts(r.start, r.size)
ReserveFails(r) ==
  \/ ~Reserved(r)
  \/ r.type \in {"user", "acpi"} /\ MapUserMemoryFails(r.start, r.size)
Reserve(r) ==
  /\ map' = IF Reserved(r) THEN map \cup {r} ELSE map
  /\ slots' = IF ~ReserveFails(r) /\ r.type \in {"user", "acpi"}
              THEN slots \cup {[start |-> r.start, size |-> r.size]} ELSE slots

UserRegion(start, size, file) == [start |-> start, size |-> size, type |-> "user", file |-> file]
UserRegions == {r \in map : r.type = "user"}

-----------------------------------------------------------------------------
(* Attaching the devices.                                                  *)

NoLayout == [seg |-> 1, i |-> 0, top |-> 0, start |-> 0, memory |-> 0]

Init ==
  /\ before \in UNION {[1 .. n -> Requests] : n \in 0 .. MaxBefore}
  /\ after \in UNION {[1 .. n -> Requests] : n \in 0 .. MaxAfter}
  /\ filesize \in FileSizes
  /\ phase = "before"
  /\ next = 1
  /\ map = {}
  /\ slots = {}
  /\ chunks = {}
  /\ Allocated = <<>>
  /\ lay = NoLayout
  /\ saved = {}

\* A device reserves its region.
Attach(requests, done) ==
  /\ phase = requests
  /\ LET seq == IF requests = "before" THEN before ELSE after
     IN  IF next > Len(seq)
         THEN /\ phase' = done
              /\ next' = 1
              /\ UNCHANGED <<map, slots>>
         ELSE LET q == seq[next]
                  r == [start |-> q.start, size |-> q.size, type |-> q.type, file |-> NoFile]
              IN  /\ Reserve(r)
                  /\ phase' = IF ReserveFails(r) THEN "failed" ELSE phase
                  /\ next' = next + 1
  /\ UNCHANGED <<config, chunks, Allocated, lay, saved>>

AttachBefore == Attach("before", "reload")
AttachAfter  == Attach("after", "ready")

\* The loop's variables after a segment: the total and the highest offset.
Reloaded(s) ==
  lay' = [lay EXCEPT !.seg = @ + 1, !.memory = @ + s.size,
                     !.start = IF s.file + s.size > @ THEN s.file + s.size ELSE @]

\* UserMemory.Reload, one segment; then what is left of the file is laid out.
Reload ==
  /\ phase = "reload"
  /\ IF lay.seg <= Len(Allocated)
     THEN LET s == Allocated[lay.seg]
              r == UserRegion(s.start, s.size, s.file)
          IN  /\ Reserve(r)
              /\ phase' = IF ReserveFails(r) THEN "failed" ELSE phase
              /\ Reloaded(s)
     ELSE /\ phase' = IF filesize > lay.memory THEN "layout" ELSE "after"
          /\ lay' = [lay EXCEPT !.memory = filesize - @]
          /\ UNCHANGED <<map, slots>>
  /\ UNCHANGED <<config, next, chunks, Allocated, saved>>

\* Faulty variant: the backing store does not move ahead.
LaidOutSameFile(gap) ==
  lay' = [lay EXCEPT !.i = @ + 1, !.top = End(Nth(lay.i)), !.memory = @ - gap]

\* The loop's variables after a region, with gap bytes put in front of it.
LaidOut(gap) ==
  lay' = [lay EXCEPT !.i = @ + 1, !.top = End(Nth(lay.i)), !.memory = @ - gap, !.start = @ + gap]

\* Faulty variant: the segment is recorded after moving ahead in the file.
RememberedNext(r) ==
  Allocated' = Append(Allocated, [start |-> r.start, size |-> r.size, file |-> r.file + r.size])

Remembered(r) ==
  Allocated' = Append(Allocated, [start |-> r.start, size |-> r.size, file |-> r.file])

\* One round of Layout's loop.  The region that filled the gap before the i-th
\* one takes its place in the map, so that the next round sees the same region
\* again, from its end: the gap is then negative, and as an unsigned number
\* larger than what is left of the file.
Layout ==
  /\ phase = "layout"
  /\ lay.i < Cardinality(map) /\ lay.memory > 0
  /\ LET region == Nth(lay.i)
         space  == Minus(region.start, lay.top)
         gap    == IF space > lay.memory THEN lay.memory ELSE space
         r      == UserRegion(lay.top, gap, lay.start)
     IN  IF lay.top = region.start
         THEN LaidOut(0) /\ UNCHANGED <<phase, map, slots, Allocated>>
         ELSE IF ReserveFails(r)
         THEN Reserve(r) /\ phase' = "failed" /\ UNCHANGED <<lay, Allocated>>
         ELSE /\ Reserve(r)
              /\ Remembered(r)
              /\ LaidOut(gap)
              /\ UNCHANGED phase
  /\ UNCHANGED <<config, next, chunks, saved>>

\* After the loop, what is left goes above the last region.
LayoutRest ==
  /\ phase = "layout"
  /\ lay.i >= Cardinality(map) \/ lay.memory = 0
  /\ LET r == UserRegion(lay.top, lay.memory, lay.start)
     IN  IF lay.memory = 0
         THEN phase' = "after" /\ UNCHANGED <<map, slots>>
         ELSE Reserve(r) /\ phase' = IF ReserveFails(r) THEN "failed" ELSE "after"
  /\ UNCHANGED <<config, next, chunks, Allocated, lay, saved>>

-----------------------------------------------------------------------------
(* The loader.                                                             *)

\* Faulty variant: a chunk that ends inside an allocated one is not noticed.
TakenBelow(r, offset, size) ==
  \E c \in chunks : c.region = r.start /\ offset >= c.offset /\ offset < c.offset + c.size

\* Map's test of the allocated chunks of a region; a chunk that ends where
\* another begins counts as taken.
Taken(r, offset, size) ==
  \E c \in chunks :
    /\ c.region = r.start
    /\ \/ offset >= c.offset /\ offset < c.offset + c.size
       \/ offset + size >= c.offset /\ offset < c.offset

\* The region Map stops at: the first of type user that contains the chunk.
Holding(addr, size) == {r \in UserRegions : Contains(r, addr, size)}
First(S) == CHOOSE r \in S : \A s \in S : r.start <= s.start

MapFails(addr, size) ==
  \/ Holding(addr, size) = {}
  \/ LET r == First(Holding(addr, size)) IN Taken(r, addr - r.start, size)

Marked(addr, size) ==
  LET r == First(Holding(addr, size))
  IN  chunks \cup {[region |-> r.start, offset |-> addr - r.start, size |-> size]}

\* ElfLoad: a segment goes where the kernel wants it, in whole pages.  One at
\* the top of the address space wraps into the first region: the slice Map
\* takes of it is out of bounds, and the process panics.
ElfLoad(addr, size) ==
  /\ phase = "ready"
  /\ LET pages == size + (Minus(0, size) % PageSize)
     IN  IF MapFails(addr, pages)
         THEN phase' = "failed" /\ UNCHANGED chunks
         ELSE IF addr + pages >= AddrMod
         THEN phase' = "lost" /\ UNCHANGED chunks
         ELSE chunks' = Marked(addr, pages) /\ UNCHANGED phase
  /\ UNCHANGED <<config, next, map, slots, Allocated, lay, saved>>

Room(size) == {a \in 0 .. MaxAddr : a % PageSize = 0 /\ ~MapFails(a, size)}

\* Allocate from the bottom: the command line once the kernel is in place,
\* and in the end GDT, page tables and boot parameters.
LoadBottom(size) ==
  /\ phase \in {"ready", "setup"}
  /\ IF Room(size) = {}
     THEN phase' = "failed" /\ UNCHANGED chunks
     ELSE /\ chunks' = Marked(Min(Room(size)), size)
          /\ phase' = IF phase = "ready" THEN "cmdline" ELSE phase
  /\ UNCHANGED <<config, next, map, slots, Allocated, lay, saved>>

\* Allocate from the top: the ramdisk.  Without room the address goes below
\* zero and wraps: the loop then comes to an address whose chunk wraps into a
\* region, and slices out of it, or goes on for ever.
LoadTop(size) ==
  /\ phase = "cmdline"
  /\ IF Room(size) = {}
     THEN phase' = "lost" /\ UNCHANGED chunks
     ELSE chunks' = Marked(Max(Room(size)), size) /\ phase' = "setup"
  /\ UNCHANGED <<config, next, map, slots, Allocated, lay, saved>>

-----------------------------------------------------------------------------
(* A restart.                                                              *)

\* Where each page of the guest is in the file.
Backing ==
  UNION {{<<r.start + o, r.file + o>> : o \in 0 .. r.size - 1} : r \in UserRegions}

\* The state is saved and a new process reads it: only Allocated survives.
Restart ==
  /\ phase = "setup"
  /\ saved' = Backing
  /\ phase' = "before"
  /\ next' = 1
  /\ map' = {}
  /\ slots' = {}
  /\ chunks' = {}
  /\ lay' = NoLayout
  /\ UNCHANGED <<config, Allocated>>

Setup == AttachBefore \/ Reload \/ Layout \/ LayoutRest \/ AttachAfter
Boot ==
  \/ \E size \in LoadSizes : LoadBottom(size) \/ LoadTop(size)
  \/ \E size \in LoadSizes, addr \in Addrs : ElfLoad(addr, size)

Next == Setup \/ (saved = {} /\ Boot) \/ (saved = {} /\ Restart)

Spec == Init /\ [][Next]_vars

-----------------------------------------------------------------------------
(* Properties.                                                             *)

Meet(r, s)   == r.start < s.start + s.size /\ s.start < r.start + r.size
Inside(r, s) == s.start < r.start /\ r.start + r.size < s.start + s.size

\* Whatever the devices ask for and in whatever order, two regions of the map
\* share an address only when one was asked for strictly inside the other:
\* that is the one case the test of memory.go:83 misses.
RegionsApart ==
  \A r, s \in map : r # s /\ Meet(r, s) => Inside(r, s) \/ Inside(s, r)

\* Once the devices are attached every byte of the memory file is at exactly
\* one address, although Layout walks a map that its own regions are inserted
\* into (user.go:111).
FileLaidOut ==
  phase = "ready" =>
    \A o \in 0 .. filesize - 1 : Cardinality({p \in Backing : p[2] = o}) = 1

\* Chunks the loader has been given do not overlap and lie in user memory.
ChunksApart ==
  /\ \A c \in chunks : \E r \in UserRegions : r.start = c.region /\ c.offset + c.size <= r.size
  /\ \A c, d \in chunks : c # d /\ c.region = d.region =>
       c.offset + c.size <= d.offset \/ d.offset + d.size <= c.offset

\* A restarted process finds each byte of the guest's memory where it was
\* before, and always gets that far, although a part laid out above the last
\* region is not among the segments saved (user.go:158) and has to be placed
\* again with the devices of the new process.
RestartKeepsMemory ==
  saved # {} => phase # "failed" /\ (phase = "ready" => Backing = saved)

=============================================================================
