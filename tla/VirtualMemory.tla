--------------------------- MODULE VirtualMemory ---------------------------
(***************************************************************************)
(* The memory manager: vm/vm_manager.rs with the chunks of vm/chunk.rs and *)
(* vm/vm_chunk_manager.rs, the areas of vm/vm_area.rs and the per-process  *)
(* list of chunks of vm/process_vm.rs.  Memory is private and anonymous.   *)
(*                                                                         *)
(* All processes of the enclave share one address space.  The manager      *)
(* divides it into chunks: a chunk either is one area (single-VMA) or is   *)
(* of the default size and holds areas, possibly of several processes,     *)
(* and a free list of its own (multi-VMA).                                 *)
(*                                                                         *)
(* What an operation does under a lock is an operator from one memory to   *)
(* the next; the actions are the sections between two acquisitions of the  *)
(* locks.  A thread keeps a reference to a chunk across sections, so       *)
(* chunks are objects: an identifier and a place in the heap.              *)
(***************************************************************************)
EXTENDS FreeSpace, SequencesExt, FiniteSets

CONSTANTS
    NumPages, DefaultSize,          \* the address space, CHUNK_DEFAULT_SIZE
    Processes, Threads, ProcessOf,  \* ProcessOf[t]: the process of a thread
    StartSizes,                     \* the chunks a process starts with: ELF, heap, stack
    Scenarios,                      \* what the threads ask for: calls, each any number of times or once
    CanExit,                        \* the processes that exit
    MaxStale,                       \* bound on the chunk objects the manager has dropped
    NoThread

Pages == 0 .. NumPages - 1
Perms == {"rw", "r"}
ChunkIds == 1 .. NumPages + MaxStale
NoRange == VMRange(0, 0)
NoAddr == NumPages
Parent == "parent"      \* the pid in the areas of a process that is being built

ASSUME SizesAssumption ==
    /\ NumPages \in Nat \ {0} /\ DefaultSize \in 1 .. NumPages
    /\ StartSizes \in [Processes -> Seq(Nat \ {0})] /\ MaxStale \in Nat
ASSUME ThreadsAssumption == ProcessOf \in [Threads -> Processes] /\ CanExit \subseteq Processes

VARIABLES
    heap,       \* the chunk objects
    chunks,     \* InternalVMManager.chunks
    free,       \* InternalVMManager.free_manager
    mem,        \* ProcessVM.mem_chunks of each process
    dirty,      \* the pages whose contents need not be zero
    status,     \* of a process: new (being built), failed, live or dead
    todo,       \* the calls a thread may still make
    th,         \* the call a thread is in
    lock,       \* who keeps the lock of the InternalVMManager from one step to the next
    reply,      \* what the last step told its process: which range is mapped how
    panicked    \* unreachable! was reached

vars == <<heap, chunks, free, mem, dirty, status, todo, th, lock, reply, panicked>>

-----------------------------------------------------------------------------
(* Areas, chunks and the memory *)

VMArea(range, perms, pid) == [range |-> range, perms |-> perms, pid |-> pid]

new_chunk_with_vma(vma) ==
    [kind |-> "single", range |-> vma.range, vmas |-> {vma}, list |-> <<>>, size |-> 0, procs |-> {}]
new_default_chunk(range) ==
    [kind |-> "multi", range |-> range, vmas |-> {}, list |-> <<range>>, size |-> Size(range), procs |-> {}]
NoChunk == [kind |-> "none", range |-> NoRange, vmas |-> {}, list |-> <<>>, size |-> 0, procs |-> {}]

memory == [heap |-> heap, chunks |-> chunks, free |-> free, mem |-> mem, dirty |-> dirty]

Vma(w, id) == CHOOSE v \in w.heap[id].vmas : TRUE
FreshId(w) == Min({id \in ChunkIds : w.heap[id] = NoChunk})

\* The result of an operation that may fail: the memory it leaves and the address it returns.
Ok(w, at) == [ok |-> TRUE, w |-> w, at |-> at]
Fail(w) == [ok |-> FALSE, w |-> w, at |-> NoAddr]

\* The manager's set is ordered by start address, a process's is hashed by range.
InsertChunk(w, id) ==
    IF \E c \in w.chunks : w.heap[c].range.start = w.heap[id].range.start THEN w
    ELSE [w EXCEPT !.chunks = @ \cup {id}]
RemoveChunk(w, id) ==
    [w EXCEPT !.chunks = {c \in @ : w.heap[c].range.start # w.heap[id].range.start}]

add_mem_chunk(w, p, id) ==
    IF \E c \in w.mem[p] : w.heap[c].range = w.heap[id].range THEN w
    ELSE [w EXCEPT !.mem[p] = @ \cup {id}]
remove_mem_chunk(w, p, id) ==
    [w EXCEPT !.mem[p] = {c \in @ : w.heap[c].range # w.heap[id].range}]

AddBack(w, r) == [w EXCEPT !.free = add_range_back_to_free_manager(@, r)]

\* flush_and_clean_memory; a copying initializer brings the old contents along.
Clean(w, r) == [w EXCEPT !.dirty = @ \ PagesOf(r)]
init_memory(w, opt, at) ==
    [w EXCEPT !.dirty = @ \cup {at + i : i \in {i \in 0 .. MinOf(opt.size, Size(opt.copy)) - 1 :
                                                   opt.copy.start + i \in w.dirty}}]

\* Mutant: the range does not go back to the free list.
FreeChunkLosing(w, id) == RemoveChunk(w, id)

free_chunk(w, id) == AddBack(RemoveChunk(w, id), w.heap[id].range)

add_new_chunk(w, p, vma) ==
    LET id == FreshId(w)
    IN  add_mem_chunk(InsertChunk([w EXCEPT !.heap[id] = new_chunk_with_vma(vma)], id), p, id)

update_single_vma_chunk(w, p, old, vma) ==
    add_new_chunk(RemoveChunk(remove_mem_chunk(w, p, old), old), p, vma)

\* A request: where, how many pages, which permissions, and the range to copy from.
Options(addr, size, perms, copy) == [addr |-> addr, size |-> size, perms |-> perms, copy |-> copy]
Target(opt) == VMRange(opt.addr.page, opt.addr.page + opt.size)

\* mmap_chunk, with the add_mem_chunk that follows it.  pid is the current process.
MmapChunkAt(w, p, pid, opt, f) ==
    LET r == VMRange(f.start, f.start + opt.size)
        w1 == [w EXCEPT !.free = free_list_update_range(@, f.index, r)]
    IN  IF f.index = 0 THEN Fail(w)
        ELSE Ok(add_new_chunk(init_memory(w1, opt, r.start), p, VMArea(r, opt.perms, pid)), r.start)
mmap_chunk(w, p, pid, opt) == MmapChunkAt(w, p, pid, opt, Found(w.free, opt.size, 1, opt.addr))

-----------------------------------------------------------------------------
(* Inside a multi-VMA chunk *)

\* Mutant: the areas of the other processes are unmapped as well.
MunmapRangeOfAll(w, p, id, r) ==
    LET hit  == {v \in w.heap[id].vmas : OverlapWith(v.range, r)}
        rest == UNION {{[v EXCEPT !.range = s] : s \in ToSet(Subtract(v.range, r))} : v \in hit}
        cut  == {Intersect(v.range, r) : v \in hit}
    IN  [w EXCEPT !.heap[id].vmas = (@ \ hit) \cup rest,
                  !.heap[id].list = FoldSet(LAMBDA s, l : add_range_back_to_free_manager(l, s), @, cut),
                  !.heap[id].size = @ + MapThenSumSet(Size, cut),
                  !.dirty = @ \ UNION {PagesOf(s) : s \in cut}]

\* munmap_range: the areas of p lose what lies in r.
munmap_range(w, p, id, r) ==
    LET c    == w.heap[id]
        hit  == {v \in c.vmas : v.pid = p /\ OverlapWith(v.range, r)}
        rest == UNION {{[v EXCEPT !.range = s] : s \in ToSet(Subtract(v.range, r))} : v \in hit}
        cut  == {Intersect(v.range, r) : v \in hit}
    IN  [w EXCEPT !.heap[id].vmas = (@ \ hit) \cup rest,
                  !.heap[id].list = FoldSet(LAMBDA s, l : add_range_back_to_free_manager(l, s), @, cut),
                  !.heap[id].size = @ + MapThenSumSet(Size, cut),
                  !.dirty = @ \ UNION {PagesOf(s) : s \in cut}]

\* ChunkManager::mmap; a forced one begins with a munmap.
MmapInAt(w, p, id, opt, f) ==
    LET r == VMRange(f.start, f.start + opt.size)
        w1 == [w EXCEPT !.heap[id].list = free_list_update_range(@, f.index, r),
                        !.heap[id].size = @ - opt.size,
                        !.heap[id].vmas = @ \cup {VMArea(r, opt.perms, p)}]
    IN  IF f.index = 0 THEN Fail(w) ELSE Ok(init_memory(w1, opt, r.start), r.start)

MmapFree(w, p, id, opt) == MmapInAt(w, p, id, opt, Found(w.heap[id].list, opt.size, 1, opt.addr))

ChunkMmap(w, p, id, opt) ==
    MmapFree(IF opt.addr.kind = "force" /\ OverlapWith(Target(opt), w.heap[id].range)
             THEN munmap_range(w, p, id, Intersect(Target(opt), w.heap[id].range)) ELSE w,
             p, id, opt)

\* Chunk::mmap and Chunk::try_mmap
MmapIn(w, p, id, opt) == IF w.heap[id].size < opt.size THEN Fail(w) ELSE ChunkMmap(w, p, id, opt)

\* ChunkManager::mprotect: the areas of p with other permissions change where they meet r.
MprotectIn(w, p, id, r, perms) ==
    LET hit == {v \in w.heap[id].vmas : v.pid = p /\ v.perms # perms /\ OverlapWith(v.range, r)}
        new(v) == {[v EXCEPT !.range = s] : s \in ToSet(Subtract(v.range, r))}
                  \cup {[v EXCEPT !.range = Intersect(v.range, r), !.perms = perms]}
    IN  [w EXCEPT !.heap[id].vmas = (@ \ hit) \cup UNION {new(v) : v \in hit}]

-----------------------------------------------------------------------------
(* Under the lock of the manager *)

\* munmap_chunk.  A multi-VMA chunk loses all areas of p, whatever the range, and is freed
\* if no area is left.  From a single-VMA chunk the range is cut out.
munmap_chunk(w, p, id, r) ==
    LET c == w.heap[id]
        emptied == munmap_range(w, p, id, c.range)
        v == Vma(w, id)
        cut == Intersect(v.range, r)
        rest == Subtract(v.range, cut)
        part(i) == [v EXCEPT !.range = rest[i]]
        w1 == Clean(w, cut)
    IN  CASE c.kind = "multi" ->
                IF emptied.heap[id].vmas = {}
                THEN free_chunk([emptied EXCEPT !.heap[id].procs = @ \ {p}], id) ELSE emptied
          [] c.kind = "single" /\ Len(rest) = 0 -> remove_mem_chunk(free_chunk(w1, id), p, id)
          [] c.kind = "single" /\ Len(rest) = 1 -> AddBack(update_single_vma_chunk(w1, p, id, part(1)), cut)
          [] c.kind = "single" /\ Len(rest) = 2 ->
                update_single_vma_chunk(add_new_chunk(AddBack(w1, cut), p, part(2)), p, id, part(1))

\* Mutant: only the single-VMA chunks are unmapped.
MunmapAcrossSingles(w, p, r) ==
    FoldSet(LAMBDA id, x : munmap_chunk(x, p, id, r), w,
            {id \in w.mem[p] : w.heap[id].kind = "single" /\ OverlapWith(w.heap[id].range, r)})

\* munmap of a range that no single chunk contains.
MunmapAcross(w, p, r) ==
    FoldSet(LAMBDA id, x : IF w.heap[id].kind = "single" THEN munmap_chunk(x, p, id, r)
                                                         ELSE munmap_range(x, p, id, r),
            w, {id \in w.mem[p] : OverlapWith(w.heap[id].range, r)})

mprotect_single_vma_chunk(w, p, id, r, perms) ==
    LET v == Vma(w, id)
        rest == Subtract(v.range, r)
        new == VMArea(r, perms, p)
        old(s, pid) == VMArea(s, v.perms, pid)
    IN  CASE v.perms = perms -> w
          [] v.perms # perms /\ Len(rest) = 0 -> [w EXCEPT !.heap[id].vmas = {[v EXCEPT !.perms = perms]}]
          [] v.perms # perms /\ Len(rest) = 1 ->
                add_new_chunk(update_single_vma_chunk(w, p, id, old(rest[1], v.pid)), p, new)
          [] v.perms # perms /\ Len(rest) = 2 ->
                add_new_chunk(add_new_chunk(update_single_vma_chunk(w, p, id, old(rest[1], v.pid)),
                                            p, new), p, old(rest[2], p))

\* mmap_with_addr, when the target does not reach beyond the chunk found (0: none was found).
MmapAt(w, p, opt, id) ==
    CASE id = 0 -> mmap_chunk(w, p, p, opt)
      [] id # 0 /\ w.heap[id].kind = "multi" -> ChunkMmap(w, p, id, opt)
      [] id # 0 /\ w.heap[id].kind = "single" ->
            IF opt.addr.kind # "force" THEN Fail(w)
            ELSE mmap_chunk(munmap_chunk(w, p, id, Target(opt)), p, p, opt)

Intersecting(w, p, r) == {id \in w.mem[p] : OverlapWith(w.heap[id].range, r)}
OneOf(ids) == IF ids = {} THEN {0} ELSE ids

is_owned_by_current_process(w, p, id) ==
    /\ \E c \in w.mem[p] : w.heap[c].range = w.heap[id].range
    /\ w.heap[id].kind = "multi" => w.heap[id].procs = {p}

\* The parts of the target in one chunk each, and the gaps between them, in address order.
target_contained_ranges(w, at) ==
    LET parts == {Intersect(w.heap[id].range, at) : id \in {id \in w.chunks : OverlapWith(w.heap[id].range, at)}}
        gaps == {VMRange(a.end, b.start) : a, b \in parts}
        inner == {g \in gaps : g.start < g.end /\ \A s \in parts : ~OverlapWith(g, s)}
    IN  SetToSortSeq(parts \cup inner, LAMBDA a, b : a.start < b.start)

force_mmap_across_multiple_chunks(w, p, opt) ==
    LET at == Target(opt)
        owned == \A id \in w.chunks : OverlapWith(w.heap[id].range, at) => is_owned_by_current_process(w, p, id)
        one(x, r) == MmapAt(x.w, p, [opt EXCEPT !.addr = ForceAt(r.start), !.size = Size(r)],
                            CHOOSE id \in OneOf(Intersecting(x.w, p, r)) : TRUE)
        all == FoldLeft(LAMBDA x, r : IF x.ok THEN one(x, r) ELSE x, Ok(w, at.start),
                        target_contained_ranges(w, at))
    IN  IF opt.copy # NoRange \/ ~owned THEN Fail(w) ELSE [all EXCEPT !.at = at.start]

mmap_with_addr(w, p, opt, id) ==
    IF id # 0 /\ opt.addr.kind = "force" /\ ~SupersetOf(w.heap[id].range, Target(opt))
    THEN force_mmap_across_multiple_chunks(w, p, opt) ELSE MmapAt(w, p, opt, id)

-----------------------------------------------------------------------------
(* mremap *)

can_merge_vmas(a, b) == a.range.end = b.range.start /\ a.perms = b.perms /\ a.pid = b.pid

\* Every run of areas that can be merged becomes one area.
Merged(vmas) ==
    LET alike(v) == UNION {PagesOf(u.range) : u \in {u \in vmas : u.perms = v.perms /\ u.pid = v.pid}}
        last(v) == Max({u.range.end : u \in {u \in vmas : /\ v.range.start < u.range.end
                                                         /\ v.range.start .. u.range.end - 1 \subseteq alike(v)}})
    IN  {[v EXCEPT !.range.end = last(v)] : v \in {v \in vmas : \A u \in vmas : ~can_merge_vmas(u, v)}}

merge_all_single_vma_chunks(w, p) ==
    LET singles == {id \in w.mem[p] : w.heap[id].kind = "single"}
        vmas == {Vma(w, id) : id \in singles}
        gone == {id \in singles : Vma(w, id) \notin Merged(vmas)}
    IN  FoldSet(LAMBDA v, x : add_new_chunk(x, p, v),
                [w EXCEPT !.mem[p] = @ \ gone, !.chunks = @ \ gone], Merged(vmas) \ vmas)

\* Mutant: merging clears the chunk.
MergeAllCleaning(w, id) == [Clean(w, w.heap[id].range) EXCEPT !.heap[id].vmas = Merged(@)]

merge_all_vmas(w, id) == [w EXCEPT !.heap[id].vmas = Merged(@)]

NoRemap == [range |-> NoRange, size |-> 0, flag |-> "none", to |-> 0]
NoOptions == Options(AnyAddr, 0, "rw", NoRange)
NoPlan == [ok |-> FALSE, opt |-> NoOptions, at |-> NoAddr, unmap |-> NoRange, may_move |-> FALSE]

\* VMRemapParser::parse: an mremap is an optional mmap followed by an optional munmap.
parse(list, call, perms) ==
    LET old == call.range
        grow == call.size > Size(old)
        to == VMRange(call.to, call.to + call.size)
        here == call.flag # "fixed" /\ grow
                /\ (call.flag = "none" \/ is_free_range(list, VMRange(old.end, old.start + call.size)))
        plan(opt, at, unmap) ==
            [ok |-> TRUE, opt |-> opt, at |-> at, unmap |-> unmap, may_move |-> call.flag = "maymove"]
    IN  CASE call.flag = "fixed" /\ OverlapWith(to, old) -> NoPlan
          [] call.flag = "fixed" /\ ~OverlapWith(to, old) ->
                plan(Options(ForceAt(call.to), call.size, perms, old), call.to, old)
          [] here -> plan(Options(Need(old.end), call.size - Size(old), perms, NoRange), old.start, NoRange)
          [] call.flag # "fixed" /\ grow /\ ~here ->
                plan(Options(AnyAddr, call.size, perms, old), NoAddr, old)
          [] call.flag # "fixed" /\ ~grow ->
                plan(NoOptions, old.start,
                     IF call.size < Size(old) THEN VMRange(old.start + call.size, old.end) ELSE NoRange)

-----------------------------------------------------------------------------
(* The steps of the threads *)

Idle == [pc |-> "user", opt |-> NoOptions, range |-> NoRange, perms |-> "rw", chunk |-> 0,
         remap |-> NoRemap, plan |-> NoPlan]

Areas(w, p) ==
    UNION {IF w.heap[id].kind = "single" THEN w.heap[id].vmas
           ELSE {v \in w.heap[id].vmas : v.pid = p} : id \in w.mem[p]}
PagesWith(w, p, perms) == UNION {PagesOf(v.range) : v \in {v \in Areas(w, p) : v.perms \in perms}}

Init ==
    /\ heap = [id \in ChunkIds |-> NoChunk] /\ chunks = {}
    /\ free = <<VMRange(0, NumPages)>>
    /\ mem = [p \in Processes |-> {}] /\ dirty = {}
    /\ status = [p \in Processes |-> "new"]
    /\ todo \in Scenarios /\ th = [t \in Threads |-> Idle] /\ lock = NoThread /\ reply = {} /\ panicked = FALSE

\* A step ends with memory w.  Chunk objects nobody refers to are dropped, and the others
\* are numbered anew, those of the manager by their first page.
Become(w, th2, told) ==
    LET used == (w.chunks \cup UNION {w.mem[q] : q \in Processes} \cup {th2[t].chunk : t \in Threads}) \ {0}
        stale == used \ w.chunks
        name == [id \in used |-> IF id \in w.chunks THEN w.heap[id].range.start + 1
                                 ELSE NumPages + Cardinality({c \in stale : c <= id})]
        named == [n \in {name[id] : id \in used} |-> w.heap[CHOOSE id \in used : name[id] = n]]
    IN  /\ heap' = [n \in ChunkIds |-> IF n \in DOMAIN named THEN named[n] ELSE NoChunk]
        /\ chunks' = {name[id] : id \in w.chunks}
        /\ mem' = [q \in Processes |-> {name[id] : id \in w.mem[q]}]
        /\ th' = [t \in Threads |-> [th2[t] EXCEPT !.chunk = IF @ = 0 THEN 0 ELSE name[@]]]
        /\ free' = w.free /\ dirty' = w.dirty /\ reply' = told

Answer(p, r, perms, fixed) == {[process |-> p, range |-> r, perms |-> perms, fixed |-> fixed]}
Goto(t, w, s) == Become(w, [th EXCEPT ![t] = s], {}) /\ UNCHANGED <<status, todo, panicked>>
Return(t, w, s, told) == Become(w, [th EXCEPT ![t] = s], told) /\ UNCHANGED <<status, todo, panicked>>
Unlocked == lock = NoThread

\* Where an mmap begins, and where it goes on without a place for its address.
BySize(opt) == IF opt.size > DefaultSize THEN "global" ELSE "fast"
Begins(opt) == IF opt.addr.kind = "any" THEN BySize(opt) ELSE "addr"

\* A program has written to all it may write to when it makes its next call.
Written(p) == [memory EXCEPT !.dirty = @ \cup PagesWith(memory, p, {"rw"})]

Called(call) ==
    CASE call.op = "mmap" -> [Idle EXCEPT !.pc = Begins(call.opt), !.opt = call.opt]
      [] call.op = "munmap" -> [Idle EXCEPT !.pc = "munmap", !.range = call.range]
      [] call.op = "mprotect" -> [Idle EXCEPT !.pc = "mprotect", !.range = call.range, !.perms = call.perms]
      [] call.op = "mremap" -> [Idle EXCEPT !.pc = "mremap", !.remap = call.remap]

Enter(t) ==
    /\ th[t].pc = "user" /\ status[ProcessOf[t]] = "live"
    /\ \E call \in todo[t].calls :
          /\ Become(Written(ProcessOf[t]), [th EXCEPT ![t] = Called(call)], {})
          /\ todo' = IF todo[t].once THEN [todo EXCEPT ![t].calls = @ \ {call}] ELSE todo
    /\ UNCHANGED <<status, lock, panicked>>

\* After the mmap of an mremap comes its munmap.  Unless the mremap may move, a failure of
\* the mmap goes unnoticed.
AfterMmap(s, ok) ==
    IF s.plan.unmap = NoRange \/ (~ok /\ s.plan.may_move) THEN Idle
    ELSE [Idle EXCEPT !.pc = "munmap", !.range = s.plan.unmap]

MmapReturns(t, r) ==
    LET opt == th[t].opt
    IN  Return(t, r.w, AfterMmap(th[t], r.ok),
               IF r.ok THEN Answer(ProcessOf[t], VMRange(r.at, r.at + opt.size), opt.perms, opt.addr.kind = "force") ELSE {})

MunmapReturns(t, w) == Return(t, w, Idle, Answer(ProcessOf[t], th[t].range, "unmapped", FALSE))

MmapAddr(t) ==
    LET s == th[t]
        p == ProcessOf[t]
    IN  /\ s.pc = "addr" /\ Unlocked
        /\ \E id \in OneOf(Intersecting(memory, p, Target(s.opt))) :
           \E r \in {mmap_with_addr(memory, p, s.opt, id)} :
              IF ~r.ok /\ s.opt.addr.kind = "hint" THEN Goto(t, r.w, [s EXCEPT !.pc = BySize(s.opt)])
              ELSE MmapReturns(t, r)
        /\ UNCHANGED lock

Multi(w, ids) == {id \in ids : w.heap[id].kind = "multi"}

\* Fast path: a chunk of the process, unless another thread has its lock.
MmapFast(t) ==
    LET s == th[t]
        p == ProcessOf[t]
        try(id) == MmapIn(memory, p, id, s.opt)
        busy == \E u \in Threads \ {t} : th[u].pc # "user"
    IN  /\ s.pc = "fast"
        /\ \E fits \in {{id \in Multi(memory, mem[p]) : try(id).ok}} :
              \/ \E id \in fits : MmapReturns(t, try(id))
              \/ (fits = {} \/ busy) /\ Goto(t, memory, [s EXCEPT !.pc = "default"])
        /\ UNCHANGED lock

\* A new default chunk.  It is in the list of the process before the mmap takes place in
\* it; the lock of the manager is kept until then.
mmap_chunk_default(t) ==
    LET s == th[t]
        p == ProcessOf[t]
        f == Found(free, DefaultSize, 1, s.opt.addr)
        r == VMRange(f.start, f.start + DefaultSize)
        id == FreshId(memory)
        w1 == [memory EXCEPT !.free = free_list_update_range(@, f.index, r),
                             !.heap[id] = [new_default_chunk(r) EXCEPT !.procs = {p}]]
    IN  /\ s.pc = "default" /\ Unlocked
        /\ IF f.index = 0
           THEN Goto(t, memory, [s EXCEPT !.pc = "slow"]) /\ UNCHANGED lock
           ELSE /\ Goto(t, add_mem_chunk(InsertChunk(w1, id), p, id), [s EXCEPT !.pc = "inchunk", !.chunk = id])
                /\ lock' = t

MmapInNewChunk(t) ==
    /\ th[t].pc = "inchunk"
    /\ MmapReturns(t, MmapIn(memory, ProcessOf[t], th[t].chunk, th[t].opt))
    /\ lock' = NoThread

\* Slow path: the first default chunk of any process that has room.
MmapSlow(t) ==
    LET s == th[t]
        p == ProcessOf[t]
        try(id) == MmapIn(memory, p, id, s.opt)
        join(r, id) == [r EXCEPT !.w = add_mem_chunk([@ EXCEPT !.heap[id].procs = @ \cup {p}], p, id)]
    IN  /\ s.pc = "slow" /\ Unlocked
        /\ \E fits \in {{id \in Multi(memory, chunks) : try(id).ok}} :
              \/ fits = {} /\ Goto(t, memory, [s EXCEPT !.pc = "global"])
              \/ \E id \in fits : /\ \A c \in fits : heap[id].range.start <= heap[c].range.start
                                  /\ MmapReturns(t, join(try(id), id))
        /\ UNCHANGED lock

MmapGlobal(t) ==
    /\ th[t].pc = "global" /\ Unlocked
    /\ MmapReturns(t, mmap_chunk(memory, ProcessOf[t], ProcessOf[t], th[t].opt))
    /\ UNCHANGED lock

munmap(t) ==
    LET s == th[t]
        found == Intersecting(memory, ProcessOf[t], s.range)
    IN  /\ s.pc = "munmap"
        /\ \/ found = {} /\ MunmapReturns(t, memory)
           \/ \E id \in found :
                 Goto(t, memory, IF ~SupersetOf(heap[id].range, s.range) THEN [s EXCEPT !.pc = "munmap_across"]
                                 ELSE IF heap[id].kind = "single" THEN [s EXCEPT !.pc = "munmap_single"]
                                 ELSE [s EXCEPT !.pc = "munmap_multi", !.chunk = id])
        /\ UNCHANGED lock

MunmapHeld(t) ==
    /\ th[t].pc = "munmap_multi"
    /\ MunmapReturns(t, munmap_range(memory, ProcessOf[t], th[t].chunk, th[t].range))
    /\ UNCHANGED lock

MunmapLocked(t) ==
    /\ th[t].pc = "munmap_across" /\ Unlocked
    /\ MunmapReturns(t, MunmapAcross(memory, ProcessOf[t], th[t].range))
    /\ UNCHANGED lock

\* The chunk is looked up again, and may be another one now.
MunmapSingle(t) ==
    /\ th[t].pc = "munmap_single" /\ Unlocked
    /\ \E id \in OneOf(Intersecting(memory, ProcessOf[t], th[t].range)) :
          MunmapReturns(t, IF id = 0 THEN memory ELSE munmap_chunk(memory, ProcessOf[t], id, th[t].range))
    /\ UNCHANGED lock

mprotect(t) ==
    LET s == th[t]
        found == Intersecting(memory, ProcessOf[t], s.range)
    IN  /\ s.pc = "mprotect"
        /\ \/ found = {} /\ Goto(t, memory, Idle)
           \/ \E id \in found :
                 Goto(t, memory, IF ~SupersetOf(heap[id].range, s.range) THEN Idle
                                 ELSE IF heap[id].kind = "single" THEN [s EXCEPT !.pc = "mprotect_single"]
                                 ELSE [s EXCEPT !.pc = "mprotect_multi", !.chunk = id])
        /\ UNCHANGED lock

MprotectHeld(t) ==
    /\ th[t].pc = "mprotect_multi"
    /\ Goto(t, MprotectIn(memory, ProcessOf[t], th[t].chunk, th[t].range, th[t].perms), Idle)
    /\ UNCHANGED lock

Containing(p, r) == {id \in mem[p] : SupersetOf(heap[id].range, r)}

MprotectSingle(t) ==
    LET s == th[t]
        p == ProcessOf[t]
    IN  /\ s.pc = "mprotect_single" /\ Unlocked
        /\ \E id \in OneOf(Containing(p, s.range)) :
              IF id # 0 /\ heap[id].kind = "multi"
              THEN ~panicked /\ panicked' = TRUE /\ UNCHANGED <<heap, chunks, free, mem, dirty, status, todo, th, reply>>
              ELSE Goto(t, IF id = 0 THEN memory ELSE mprotect_single_vma_chunk(memory, p, id, s.range, s.perms), Idle)
        /\ UNCHANGED lock

MremapMerge(t) ==
    /\ th[t].pc = "mremap" /\ Unlocked
    /\ Goto(t, merge_all_single_vma_chunks(memory, ProcessOf[t]), [th[t] EXCEPT !.pc = "find"])
    /\ UNCHANGED lock

MremapFind(t) ==
    LET s == th[t] IN
    /\ s.pc = "find"
    /\ \E id \in OneOf(Containing(ProcessOf[t], s.remap.range)) :
          Goto(t, memory, IF id = 0 THEN Idle ELSE [s EXCEPT !.pc = "parse", !.chunk = id])
    /\ UNCHANGED lock

\* The area whose permissions the new one gets.  When no area of the process contains the
\* range, the search stops at the next area after it, at the latest at the end sentry.
ContainingVma(vmas, chunk, p, r) ==
    LET own == {v \in vmas : v.pid = p /\ SupersetOf(v.range, r)}
        sentry == VMArea(VMRange(chunk.end, chunk.end), "none", Parent)
        after == {v \in vmas \cup {sentry} : v.range.start > r.end}
    IN  IF own # {} THEN own ELSE {v \in after : \A u \in after : v.range.start <= u.range.start}

WithPlan(s, plan) ==
    IF ~plan.ok THEN Idle
    ELSE IF plan.opt.size # 0 THEN [Idle EXCEPT !.pc = Begins(plan.opt), !.opt = plan.opt, !.plan = plan]
    ELSE AfterMmap([s EXCEPT !.plan = plan], TRUE)

MremapParseMulti(t) ==
    LET s == th[t]
        w == merge_all_vmas(memory, s.chunk)
        c == w.heap[s.chunk]
        vma == ContainingVma(c.vmas, c.range, ProcessOf[t], s.remap.range)
    IN  /\ s.pc = "parse" /\ c.kind = "multi"
        /\ \/ vma = {} /\ Goto(t, w, Idle)
           \/ \E v \in vma : Goto(t, w, WithPlan(s, parse(c.list, s.remap, v.perms)))
        /\ UNCHANGED lock

MremapParseSingle(t) ==
    LET s == th[t] IN
    /\ s.pc = "parse" /\ heap[s.chunk].kind = "single" /\ Unlocked
    /\ Goto(t, memory, WithPlan(s, parse(free, s.remap, Vma(memory, s.chunk).perms)))
    /\ UNCHANGED lock

-----------------------------------------------------------------------------
(* The life of a process *)

FreeAll(w, p) ==
    [FoldSet(LAMBDA id, x : munmap_chunk(x, p, id, x.heap[id].range), w, w.mem[p]) EXCEPT !.mem[p] = {}]

\* ProcessVMBuilder::build: one alloc after the other, and the image is loaded.
build(p) ==
    LET n == Cardinality(mem[p])
        size == StartSizes[p][n + 1]
        load(w, at) == [w EXCEPT !.dirty = @ \cup PagesOf(VMRange(at, at + size))]
    IN  /\ status[p] = "new" /\ Unlocked
        /\ \E r \in {mmap_chunk(memory, p, Parent, Options(AnyAddr, size, "rw", NoRange))} :
              /\ Become(IF r.ok THEN load(r.w, r.at) ELSE r.w, th, {})
              /\ status' = [status EXCEPT ![p] = IF ~r.ok THEN "failed"
                                                 ELSE IF n + 1 = Len(StartSizes[p]) THEN "live" ELSE "new"]
        /\ UNCHANGED <<todo, lock, panicked>>

\* An alloc has failed: the others are undone one by one.
handle_error_when_init(p) ==
    /\ status[p] = "failed" /\ Unlocked
    /\ \/ \E id \in mem[p] : Become(munmap_chunk(memory, p, id, heap[id].range), th, {}) /\ UNCHANGED status
       \/ mem[p] = {} /\ status' = [status EXCEPT ![p] = "dead"]
          /\ UNCHANGED <<heap, chunks, free, mem, dirty, th, reply>>
    /\ UNCHANGED <<todo, lock, panicked>>

free_chunks_when_exit(p) ==
    /\ p \in CanExit /\ status[p] = "live" /\ Unlocked
    /\ \A t \in Threads : ProcessOf[t] = p => th[t].pc = "user"
    /\ Become(FreeAll(memory, p), th, {})
    /\ status' = [status EXCEPT ![p] = "dead"]
    /\ UNCHANGED <<todo, lock, panicked>>

Next ==
    \/ \E t \in Threads :
          \/ Enter(t) \/ MmapAddr(t) \/ MmapFast(t) \/ mmap_chunk_default(t) \/ MmapInNewChunk(t)
          \/ MmapSlow(t) \/ MmapGlobal(t)
          \/ munmap(t) \/ MunmapHeld(t) \/ MunmapLocked(t) \/ MunmapSingle(t)
          \/ mprotect(t) \/ MprotectHeld(t) \/ MprotectSingle(t)
          \/ MremapMerge(t) \/ MremapFind(t) \/ MremapParseMulti(t) \/ MremapParseSingle(t)
    \/ \E p \in Processes : build(p) \/ handle_error_when_init(p) \/ free_chunks_when_exit(p)

Spec == Init /\ [][Next]_vars

-----------------------------------------------------------------------------
(* Properties *)


Ranges == {r \in [start : 0 .. NumPages, end : 0 .. NumPages] : r.start < r.end}
Mapped(p) == PagesWith(memory, p, {"rw", "r", "none"})
Unmapped == Pages \ UNION {Mapped(p) : p \in Processes}
Listed(list) == UNION {PagesOf(list[i]) : i \in 1 .. Len(list)}
Ordered(list) == \A i \in 1 .. Len(list) - 1 : list[i].end < list[i + 1].start
Disjoint(ranges) == \A r, s \in ranges : r # s => ~OverlapWith(r, s)
AreaRanges(id) == {v.range : v \in heap[id].vmas}

\* The state of the manager, its chunks and the processes.
TypeOK ==
    /\ chunks \subseteq ChunkIds /\ mem \in [Processes -> SUBSET ChunkIds]
    /\ \A id \in chunks \cup UNION {mem[p] : p \in Processes} :
          /\ heap[id].kind \in {"single", "multi"} /\ heap[id].range \in Ranges
          /\ heap[id].vmas \subseteq [range : Ranges, perms : Perms \cup {"none"}, pid : Processes \cup {Parent}]
          /\ heap[id].kind = "single" => AreaRanges(id) = {heap[id].range}
          /\ heap[id].kind = "multi" => heap[id].list \in Seq(Ranges) /\ heap[id].procs \subseteq Processes
    /\ free \in Seq(Ranges) /\ dirty \subseteq Pages
    /\ status \in [Processes -> {"new", "failed", "live", "dead"}]
    /\ lock \in Threads \cup {NoThread} /\ panicked \in BOOLEAN

\* The chunks of the manager and its free list divide the address space: no page is in two
\* chunks, none is both free and in a chunk, none is lost.
ManagerDivided ==
    /\ Disjoint({heap[id].range : id \in chunks})
    /\ Ordered(free)
    /\ Listed(free) = Pages \ UNION {PagesOf(heap[id].range) : id \in chunks}

\* So do the areas and the free list of a default chunk, and its free_size is exact, in the
\* chunk list of any process and at any time (the assertions of ChunkManager's drop).
ChunksDivided ==
    \A id \in Multi(memory, chunks) :
        LET c == heap[id] IN
        /\ \A v \in c.vmas : SupersetOf(c.range, v.range)
        /\ Disjoint(AreaRanges(id)) /\ Ordered(c.list)
        /\ Listed(c.list) = PagesOf(c.range) \ UNION {PagesOf(r) : r \in AreaRanges(id)}
        /\ c.size = Cardinality(Listed(c.list))

\* The lists of the processes and the set of the manager agree: a process lists chunks the
\* manager knows, a single-VMA chunk has one owner, and whoever has an area in a default
\* chunk lists it and is counted.  When all have exited nothing is left
\* (verified_clean_when_exit).
Registered ==
    /\ \A p \in Processes : mem[p] \subseteq chunks
    /\ \A id \in chunks :
          IF heap[id].kind = "single" THEN \E p \in Processes : {q \in Processes : id \in mem[q]} = {p}
          ELSE \A v \in heap[id].vmas : id \in mem[v.pid] /\ v.pid \in heap[id].procs
    /\ (\A p \in Processes : status[p] = "dead") => chunks = {} /\ free = <<VMRange(0, NumPages)>>

\* Whatever the threads do at once, the books of the manager, of the chunks and of the
\* processes divide the address space and agree.
SpaceDivided == TypeOK /\ ManagerDivided /\ ChunksDivided /\ Registered

\* An mmap does not clear what it maps, so whatever was unmapped, by munmap, by a fixed
\* mmap, by mremap or by an exit, has been cleared.
FreePagesClean == dirty \cap Unmapped = {}

\* What a call answers is so: after mmap the range is mapped with the permissions asked for,
\* and after munmap no page of it is mapped.  After a fixed mmap nothing is left of what
\* was mapped in the range before.
RangesAsAnswered ==
    \A a \in reply :
        LET pages == PagesOf(a.range) \cap (IF a.fixed THEN Mapped(a.process) ELSE Pages)
        IN  IF a.perms = "unmapped" THEN pages \cap Mapped(a.process) = {}
            ELSE pages \subseteq PagesWith(memory, a.process, {a.perms})

\* What the calls answer is so, and memory they give is clear.
AnswersTrue == RangesAsAnswered /\ FreePagesClean

\* After a fixed mmap that succeeds every page of the range is mapped: the pieces into which
\* force_mmap_across_multiple_chunks splits the range make up the range.
FixedMapped == \A a \in reply : a.fixed => PagesOf(a.range) \subseteq Mapped(a.process)

\* The chunk mprotect finds under the lock of the manager, when the one it found without the
\* lock had a single area, has a single area too: the unreachable! of
\* mprotect_single_vma_chunk is not reached.
NoPanic == ~panicked

Replaced(p) ==
    UNION {PagesOf(Target(th[t].opt)) :
             t \in {t \in Threads : /\ ProcessOf[t] = p /\ th[t].pc = "addr"
                                    /\ th[t].opt.addr.kind = "force" /\ th'[t] # th[t]}}

\* A page that stays mapped keeps its contents, through splits and merges of areas and
\* whatever other processes do in the same chunk, except where a fixed mmap replaces it.
ContentsKept ==
    [][\A p \in Processes : (Mapped(p) \cap Mapped(p)' \cap dirty) \ Replaced(p) \subseteq dirty']_vars

-----------------------------------------------------------------------------
Perm(p) == [page \in Pages |->
    IF page \notin Mapped(p) THEN "unmapped" ELSE CHOOSE m \in Perms \cup {"none"} : page \in PagesWith(memory, p, {m})]

Promise == INSTANCE AddressSpaces WITH space <- [p \in Processes |-> Perm(p)]

\* The manager implements separate address spaces: a step changes the space of one process,
\* for one range of pages, and maps only pages no other process has.
ImplementsAddressSpaces == Promise!Spec
=============================================================================
