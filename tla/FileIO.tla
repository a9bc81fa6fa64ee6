------------------------------- MODULE FileIO -------------------------------
(***************************************************************************)
(* tests/fileio/sb_fileio.c: the fileio test.  Threads ask for requests    *)
(* and execute them on shared files: sequential requests are made under    *)
(* exec_mutex in one step; random ones are made without any lock, so every *)
(* load and store of a shared variable is a step of its own (a compiler    *)
(* keeps what it loads in a register).  The disk and the asynchronous I/O  *)
(* queue are external.  Sizes and offsets count small units, not bytes.    *)
(***************************************************************************)
EXTENDS Integers, Sequences, FiniteSets, FiniteSetsExt

CONSTANTS
  Threads,      \* thread ids; a run uses the first cfg.threads of them
  Configs,      \* the option values to try
  CounterMod,   \* 2^32: req_performed is an unsigned int
  MaxFaults     \* bound: I/O calls that fail

Modes == {"seqwr", "seqrewr", "seqrd", "rndrd", "rndwr", "rndrw"}

ASSUME FileIOAssumption ==
  /\ CounterMod \in Nat \ {0} /\ MaxFaults \in Nat
  /\ \A c \in Configs :
       /\ c.mode \in Modes /\ c.io \in {"sync", "mmap", "async"}
       /\ {c.files, c.total, c.block, c.merged, c.freq} \subseteq Int
       /\ {c.all, c.end, c.validate} \subseteq BOOLEAN
       /\ c.backlog \in Nat \ {0}     \* what parse_arguments() asks for
       /\ c.threads \in Nat /\ 0 .. c.threads - 1 \subseteq Threads

VARIABLES
  cfg,          \* the options; fixed when the behaviour begins
  phase,        \* what the user does: "start", "prepared", "run", "finished", ...
  disk,         \* per file: for each unit, the block it was last written as
  unsynced,     \* files with data written since their last fsync
  position, current_file, fsynced_file, is_dirty, req_performed, prev_req,
  claimed,      \* per_thread[].buffer_file_id and buffer_pos
  buffer,       \* per_thread[].buffer: the block it holds
  pc, req, reg, \* per thread: where it is, its request, a register
  flying,       \* asynchronous operations the kernel has not done yet
  landed,       \* ... that are done and not collected (whether they worked)
  counts,       \* per thread: read, write and fsync counters
  executed,     \* per thread: reads and writes executed so far
  events,       \* events begun, of all threads
  error,        \* sb_globals.error
  warned,       \* check_seq_req() has printed a warning
  rejected,     \* file_validate_buffer() has refused a block
  since,        \* write requests made since the last full series of fsyncs
  faults

genVars == <<position, current_file, fsynced_file, is_dirty, req_performed, prev_req, since>>
ioVars == <<disk, unsynced, buffer, flying, landed, counts, executed, rejected, faults>>
endVars == <<cfg, phase, error>>
vars == <<genVars, ioVars, endVars, claimed, pc, req, reg, events, warned>>

----------------------------------------------------------------------------
(* parse_arguments(): what is refused, and the values derived.  The test   *)
(* mode is read for the run command only.                                  *)
Valid == cfg.files > 0 /\ cfg.total > 0 /\ cfg.block > 0 /\ cfg.merged >= 0 /\ cfg.freq >= 0

file_size == cfg.total \div cfg.files
file_request_size == IF cfg.merged > 0 THEN cfg.block * cfg.merged ELSE cfg.block
file_fsync_freq == IF cfg.all THEN 0 ELSE cfg.freq
file_fsync_end == cfg.end /\ ~cfg.all

Files == 0 .. cfg.files - 1
Active == 0 .. cfg.threads - 1         \* sb_globals.threads
Sequential == cfg.mode \in {"seqwr", "seqrewr", "seqrd"}
Async == cfg.io = "async"

NoReq == [op |-> "null", file |-> 0, pos |-> 0, size |-> 0]
Block(pos, size) == <<pos, size>>      \* what file_fill_buffer() leaves in a buffer
Plain == <<0, 0>>                      \* anything else
Hole == <<-1, 0>>

Init ==
  /\ cfg \in Configs /\ phase = "start"
  /\ disk = [f \in Files |-> <<>>] /\ unsynced = {}
  /\ position = 0 /\ current_file = 0 /\ fsynced_file = 0 /\ is_dirty = 0
  /\ req_performed = 0 /\ prev_req = NoReq
  /\ claimed \in {[t \in Threads |-> c] : c \in {<<0, 0>>, <<-1, 0>>}}   \* malloc()ed, never set
  /\ buffer = [t \in Threads |-> Plain]
  /\ pc = [t \in Threads |-> "idle"] /\ req = [t \in Threads |-> NoReq]
  /\ reg = [t \in Threads |-> 0]
  /\ flying = [t \in Threads |-> <<>>] /\ landed = [t \in Threads |-> <<>>]
  /\ counts = [t \in Threads |-> [read |-> 0, write |-> 0, fsync |-> 0]]
  /\ executed = [t \in Threads |-> 0]
  /\ events = 0 /\ error = FALSE /\ warned = FALSE /\ rejected = FALSE
  /\ since = 0 /\ faults = 0

(* A file after a write of a block, which may leave a hole before it.      *)
Written(file, pos, size, block) ==
  [i \in 1 .. Max({Len(file), pos + size}) |->
     IF i > pos /\ i <= pos + size THEN block
     ELSE IF i <= Len(file) THEN file[i] ELSE Hole]

(* create_files() extends a file by whole blocks, the last one also past   *)
(* file_size.                                                              *)
Extended(file) ==
  LET n == (file_size - Len(file) + cfg.block - 1) \div cfg.block
  IN IF Len(file) >= file_size THEN file
     ELSE [i \in 1 .. Len(file) + n * cfg.block |->
             IF i <= Len(file) THEN file[i]
             ELSE IF ~cfg.validate THEN Plain
             ELSE Block(i - 1 - ((i - 1 - Len(file)) % cfg.block), cfg.block)]

----------------------------------------------------------------------------
(* The commands.  create_files() writes and syncs whole files; when a      *)
(* write fails the files before it are whole and those behind it as they   *)
(* were, and the command may be repeated.                                  *)
file_cmd_prepare ==
  /\ phase = "start"
  /\ \/ /\ Valid /\ phase' = "prepared"
        /\ disk' = [f \in Files |-> Extended(disk[f])] /\ UNCHANGED faults
     \/ /\ Valid /\ faults < MaxFaults /\ faults' = faults + 1 /\ UNCHANGED phase
        /\ \E bad \in Files, n \in {k \in 0 .. file_size - 1 : k % cfg.block = 0} :
             disk' = [f \in Files |-> CASE f < bad -> Extended(disk[f])
                                       [] f = bad /\ Len(disk[f]) < n -> SubSeq(Extended(disk[f]), 1, n)
                                       [] OTHER -> disk[f]]
     \/ ~Valid /\ phase' = "failed" /\ UNCHANGED <<disk, faults>>
  /\ UNCHANGED <<cfg, error, genVars, unsynced, buffer, flying, landed, counts, executed,
                 rejected, claimed, pc, req, reg, events, warned>>

remove_files == [f \in Files |-> <<>>]

(* A run of seqwr starts with empty files (ftruncate()d to size when they  *)
(* are mapped); any other needs files that are large enough.               *)
file_prepare ==
  /\ phase \in {"start", "prepared"} /\ Valid
  /\ IF cfg.mode = "seqwr" \/ \A f \in Files : Len(disk[f]) > 0 /\ Len(disk[f]) >= file_size
     THEN phase' = "run" /\ pc' = [t \in Threads |-> IF t \in Active THEN "more" ELSE "over"]
     ELSE phase' = "failed" /\ UNCHANGED pc
  /\ disk' = IF cfg.mode # "seqwr" THEN disk
             ELSE IF cfg.io = "mmap" THEN [f \in Files |-> [i \in 1 .. file_size |-> Hole]]
             ELSE remove_files
  /\ UNCHANGED <<cfg, error, genVars, unsynced, buffer, flying, landed, counts, executed,
                 rejected, faults, claimed, req, reg, events, warned>>

(* All threads joined, then file_done(): closing a queue waits for it.     *)
file_done ==
  /\ phase = "run" /\ \A t \in Threads : pc[t] = "over" /\ flying[t] = <<>>
  /\ phase' = "finished"
  /\ UNCHANGED <<cfg, error, genVars, ioVars, claimed, pc, req, reg, events, warned>>

file_cmd_cleanup ==
  /\ phase \in {"prepared", "finished"}
  /\ phase' = "clean" /\ disk' = remove_files /\ unsynced' = {}
  /\ UNCHANGED <<cfg, error, genVars, buffer, flying, landed, counts, executed, rejected,
                 faults, claimed, pc, req, reg, events, warned>>

----------------------------------------------------------------------------
Goto(t, l) == pc' = [pc EXCEPT ![t] = l]
Ask(t, r) == req' = [req EXCEPT ![t] = r]
Reg(t, v) == reg' = [reg EXCEPT ![t] = v]
At(t, l) == phase = "run" /\ pc[t] = l

(* thread_run() of sysbench.c: sb_more_events() with an event limit and a  *)
(* time limit, then next_event().                                          *)
NextEvent(t) ==
  /\ At(t, "more")
  /\ \/ /\ ~error /\ events < cfg.events
        /\ events' = events + 1
        /\ Goto(t, IF Sequential THEN "seq" ELSE "rnd") /\ UNCHANGED reg
     \/ Goto(t, "ending") /\ Reg(t, 0) /\ UNCHANGED events
  /\ UNCHANGED <<genVars, ioVars, endVars, claimed, req, warned>>

(* check_seq_req(): would a warning be printed?  file_id is unsigned.      *)
check_seq_req(p, r) ==
  /\ p.op # "null"
  /\ \/ /\ r.file - p.file \notin {0, 1}
        /\ ~(r.file = 0 /\ p.file = cfg.files - 1)
     \/ r.file = p.file /\ r.pos - p.pos # p.size
     \/ r.file # p.file /\ (p.pos + p.size # file_size \/ r.pos # 0)

(* Mutant of SeqSize: the last request of a file is not cut short.         *)
SeqSize_Uncut(pos) == file_request_size
SeqSize(pos) == Min({file_request_size, file_size - pos})

(* Mutant of SeriesOver: one fsync is taken for a series.                  *)
SeriesOver_First(f) == f + 1 >= 1
SeriesOver(f) == f + 1 = cfg.files

FsyncReq(f) == [op |-> "fsync", file |-> f, pos |-> 0, size |-> 0]

(* file_get_seq_request(), all of it under exec_mutex.                     *)
SeqFsync(t) ==
  /\ At(t, "seq") /\ file_fsync_freq # 0 /\ cfg.mode # "seqrd"
  /\ is_dirty = 1 /\ req_performed % file_fsync_freq = 0
  /\ Ask(t, FsyncReq(fsynced_file)) /\ Goto(t, "exec")
  /\ IF SeriesOver(fsynced_file)
     THEN fsynced_file' = 0 /\ is_dirty' = 0
     ELSE fsynced_file' = fsynced_file + 1 /\ UNCHANGED is_dirty
  /\ since' = IF fsynced_file = cfg.files - 1 THEN 0 ELSE since
  /\ UNCHANGED <<ioVars, endVars, position, current_file, req_performed, prev_req, claimed,
                 reg, events, warned>>

SeqBlock(t) ==
  /\ At(t, "seq")
  /\ ~(file_fsync_freq # 0 /\ cfg.mode # "seqrd" /\ is_dirty = 1
       /\ req_performed % file_fsync_freq = 0)
  /\ LET rewind == current_file = cfg.files
         file == IF rewind THEN 0 ELSE current_file
         pos == IF rewind THEN 0 ELSE position
         size == SeqSize(pos)
         r == [op |-> IF cfg.mode = "seqrd" THEN "read" ELSE "write",
               file |-> file, pos |-> pos, size |-> size]
     IN /\ Ask(t, r) /\ Goto(t, "exec")
        /\ IF pos + size = file_size THEN current_file' = file + 1 /\ position' = 0
                                     ELSE current_file' = file /\ position' = pos + size
        /\ IF cfg.validate THEN /\ warned' = (warned \/ check_seq_req(prev_req, r))
                                /\ prev_req' = r
                           ELSE UNCHANGED <<warned, prev_req>>
        /\ IF r.op = "write" THEN is_dirty' = 1 /\ since' = since + 1
                              ELSE UNCHANGED <<is_dirty, since>>
  /\ req_performed' = (req_performed + 1) % CounterMod
  /\ UNCHANGED <<ioVars, endVars, fsynced_file, claimed, reg, events>>

(* file_get_rnd_request(): no lock is taken, each step is one access.      *)
RndStart(t) ==
  /\ At(t, "rnd")
  /\ LET reads == (counts[t].read + 1) * cfg.ratio[2] < cfg.ratio[1] * (counts[t].write + 1)
         op == IF cfg.mode = "rndrd" \/ (cfg.mode = "rndrw" /\ reads) THEN "read" ELSE "write"
     IN Ask(t, [NoReq EXCEPT !.op = op])
  /\ Goto(t, IF file_fsync_freq # 0 /\ is_dirty = 1 THEN "due" ELSE "pick")
  /\ UNCHANGED <<genVars, ioVars, endVars, claimed, reg, events, warned>>

RndDue(t) ==
  /\ At(t, "due")
  /\ Goto(t, IF req_performed % file_fsync_freq = 0 THEN "sync" ELSE "pick")
  /\ UNCHANGED <<genVars, ioVars, endVars, claimed, req, reg, events, warned>>

RndSync(t) ==
  /\ At(t, "sync")
  /\ Ask(t, FsyncReq(fsynced_file)) /\ Reg(t, fsynced_file + 1) /\ Goto(t, "bump")
  /\ UNCHANGED <<genVars, ioVars, endVars, claimed, events, warned>>

RndBump(t) ==
  /\ At(t, "bump")
  /\ fsynced_file' = reg[t] /\ Goto(t, IF reg[t] = cfg.files THEN "wrap" ELSE "exec")
  /\ UNCHANGED <<ioVars, endVars, position, current_file, is_dirty, req_performed, prev_req,
                 since, claimed, req, reg, events, warned>>

RndWrap(t) ==
  /\ At(t, "wrap")
  /\ fsynced_file' = 0 /\ Goto(t, "clean")
  /\ UNCHANGED <<ioVars, endVars, position, current_file, is_dirty, req_performed, prev_req,
                 since, claimed, req, reg, events, warned>>

RndClean(t) ==
  /\ At(t, "clean")
  /\ is_dirty' = 0 /\ since' = 0 /\ Goto(t, "exec")
  /\ UNCHANGED <<ioVars, endVars, position, current_file, fsynced_file, req_performed,
                 prev_req, claimed, req, reg, events, warned>>

(* Mutant of Unclaimed: a thread's own last block counts as well.          *)
Unclaimed_Own(t, file, pos) == \A u \in Active : claimed[u] # <<file, pos>>
Unclaimed(t, file, pos) == \A u \in Active \ {t} : claimed[u] # <<file, pos>>

(* The retry loop ends when no other thread has claimed the block.         *)
RndPick(t) ==
  /\ At(t, "pick")
  /\ \E p \in {k \in 0 .. cfg.total - 1 : k % cfg.block = 0} :
       LET file == p \div file_size
           pos == p % file_size
       IN /\ cfg.validate => Unclaimed(t, file, pos)
          /\ Ask(t, [op |-> req[t].op, file |-> file, pos |-> pos,
                     size |-> Min({cfg.block, file_size - pos})])
  /\ Goto(t, "claim")
  /\ UNCHANGED <<genVars, ioVars, endVars, claimed, reg, events, warned>>

RndClaim(t) ==
  /\ At(t, "claim")
  /\ claimed' = [claimed EXCEPT ![t][1] = req[t].file] /\ Goto(t, "claim_pos")
  /\ UNCHANGED <<genVars, ioVars, endVars, req, reg, events, warned>>

RndClaimPos(t) ==
  /\ At(t, "claim_pos")
  /\ claimed' = [claimed EXCEPT ![t][2] = req[t].pos]
  /\ Reg(t, req_performed) /\ Goto(t, "count")
  /\ UNCHANGED <<genVars, ioVars, endVars, req, events, warned>>

RndCount(t) ==
  /\ At(t, "count")
  /\ req_performed' = (reg[t] + 1) % CounterMod
  /\ Goto(t, IF req[t].op = "write" THEN "mark" ELSE "exec")
  /\ UNCHANGED <<ioVars, endVars, position, current_file, fsynced_file, is_dirty, prev_req,
                 since, claimed, req, reg, events, warned>>

RndMark(t) ==
  /\ At(t, "mark")
  /\ is_dirty' = 1 /\ since' = since + 1 /\ Goto(t, "exec")
  /\ UNCHANGED <<ioVars, endVars, position, current_file, fsynced_file, req_performed,
                 prev_req, claimed, req, reg, events, warned>>

----------------------------------------------------------------------------
(* file_execute_event().  A request that fails its checks, or whose I/O    *)
(* fails, ends the thread and sets the error flag.                         *)
Count(t, r, w, f) ==
  counts' = [counts EXCEPT ![t] = [read |-> @.read + r, write |-> @.write + w,
                                   fsync |-> @.fsync + f]]
nrequests(t) == Len(flying[t]) + Len(landed[t])

Content(f, pos, size) ==
  IF \A i \in pos + 1 .. pos + size : disk[f][i] = Block(pos, size) THEN Block(pos, size)
                                                                   ELSE Plain
(* Mutant of Fill: the offset is stored relative to the request.           *)
Fill_NoOffset(t, r) == buffer' = [buffer EXCEPT ![t] = IF cfg.validate THEN Block(0, r.size) ELSE Plain]
Fill(t, r) == buffer' = [buffer EXCEPT ![t] = IF cfg.validate THEN Block(r.pos, r.size) ELSE Plain]
file_validate_buffer(b, r) == b = Block(r.pos, r.size)

Fails(t) == Goto(t, "over") /\ error' = TRUE
Untouched == UNCHANGED <<genVars, cfg, phase, claimed, req, events, warned>>

(* The checks let file_id = num_files through: files[] is read one past    *)
(* its end, and what happens depends on the descriptor found there.        *)
RequestRefused(t) ==
  /\ At(t, "exec") /\ (req[t].file > cfg.files \/ req[t].pos + req[t].size > file_size)
  /\ Fails(t) /\ UNCHANGED <<ioVars, reg>> /\ Untouched

Passes(t) == At(t, "exec") /\ req[t].file <= cfg.files /\ req[t].pos + req[t].size <= file_size

RequestAstray(t) ==
  /\ Passes(t) /\ req[t].file = cfg.files
  /\ Fails(t) \/ (Goto(t, "more") /\ UNCHANGED error)
  /\ UNCHANGED <<ioVars, reg>> /\ Untouched

(* pread(), pwrite(), fsync() or io_submit() fails; a copy from or to a    *)
(* mapped file does not.  Operations in flight see what was filled in.     *)
IoFault(t) ==
  /\ Passes(t) /\ req[t].file < cfg.files
  /\ faults < MaxFaults /\ (cfg.io = "mmap" => req[t].op = "fsync")
  /\ faults' = faults + 1 /\ Fails(t)
  /\ IF req[t].op = "write" THEN Fill(t, req[t]) ELSE UNCHANGED buffer
  /\ UNCHANGED <<disk, unsynced, flying, landed, counts, executed, rejected, reg>>
  /\ Untouched

file_pread(t) ==
  /\ Passes(t) /\ req[t].file < cfg.files /\ req[t].op = "read" /\ ~Async
  /\ LET b == Content(req[t].file, req[t].pos, req[t].size)
     IN /\ buffer' = [buffer EXCEPT ![t] = b]
        /\ IF cfg.validate /\ ~file_validate_buffer(b, req[t])
           THEN rejected' = TRUE /\ Fails(t) /\ UNCHANGED <<counts, executed>>
           ELSE /\ Count(t, 1, 0, 0) /\ executed' = [executed EXCEPT ![t] = @ + 1]
                /\ Goto(t, "more") /\ UNCHANGED <<rejected, error>>
  /\ UNCHANGED <<disk, unsynced, flying, landed, faults, reg>> /\ Untouched

file_pwrite(t) ==
  /\ Passes(t) /\ req[t].file < cfg.files /\ req[t].op = "write" /\ ~Async
  /\ Fill(t, req[t])
  /\ disk' = [disk EXCEPT ![req[t].file] = Written(@, req[t].pos, req[t].size, buffer'[t])]
  /\ unsynced' = unsynced \cup {req[t].file}
  /\ executed' = [executed EXCEPT ![t] = @ + 1]
  /\ IF cfg.all THEN Goto(t, "fsync_all") /\ UNCHANGED counts
                ELSE Goto(t, "more") /\ Count(t, 0, 1, 0)
  /\ UNCHANGED <<flying, landed, rejected, faults, reg, error>> /\ Untouched

(* --file-fsync-all: the write is followed by an fsync of its file, and    *)
(* counted after it.                                                       *)
FsyncAll(t) ==
  /\ At(t, "fsync_all")
  /\ \/ /\ unsynced' = unsynced \ {req[t].file}
        /\ Count(t, 0, IF Async THEN 0 ELSE 1, 1)
        /\ Goto(t, "more") /\ UNCHANGED <<faults, error>>
     \/ /\ faults < MaxFaults /\ faults' = faults + 1 /\ Fails(t)
        /\ UNCHANGED <<unsynced, counts>>
  /\ UNCHANGED <<disk, buffer, flying, landed, executed, rejected, reg>> /\ Untouched

file_fsync(t) ==
  /\ Passes(t) /\ req[t].file < cfg.files /\ req[t].op = "fsync"
  /\ unsynced' = unsynced \ {req[t].file} /\ Count(t, 0, 0, 1) /\ Goto(t, "more")
  /\ UNCHANGED <<disk, buffer, flying, landed, executed, rejected, faults, reg, error>>
  /\ Untouched

----------------------------------------------------------------------------
(* Asynchronous I/O.  An operation reads or fills the thread's one buffer  *)
(* when the kernel gets to it; the thread goes on, and waits only when its *)
(* queue is full.                                                          *)
file_submit_or_wait(t) ==
  /\ Passes(t) /\ req[t].file < cfg.files /\ req[t].op # "fsync" /\ Async
  /\ IF req[t].op = "write" THEN Fill(t, req[t]) ELSE UNCHANGED buffer
  /\ flying' = [flying EXCEPT ![t] = Append(@, req[t])]
  /\ executed' = [executed EXCEPT ![t] = @ + 1]
  /\ Goto(t, IF nrequests(t) + 1 < cfg.backlog THEN "submitted" ELSE "wait")
  /\ UNCHANGED <<disk, unsynced, landed, counts, rejected, faults, reg, error>> /\ Untouched

Submitted(t) ==
  /\ At(t, "submitted")
  /\ IF req[t].op = "read" /\ cfg.validate /\ ~file_validate_buffer(buffer[t], req[t])
     THEN rejected' = TRUE /\ Fails(t)
     ELSE /\ Goto(t, IF req[t].op = "write" /\ cfg.all THEN "fsync_all" ELSE "more")
          /\ UNCHANGED <<rejected, error>>
  /\ UNCHANGED <<disk, unsynced, buffer, flying, landed, counts, executed, faults, reg>>
  /\ Untouched

Without(s, i) == SubSeq(s, 1, i - 1) \o SubSeq(s, i + 1, Len(s))

(* The kernel carries out any of the operations in flight.                 *)
Land(t) ==
  /\ \E i \in 1 .. Len(flying[t]) :
       LET r == flying[t][i]
       IN /\ flying' = [flying EXCEPT ![t] = Without(@, i)]
          /\ \/ /\ landed' = [landed EXCEPT ![t] = Append(@, [op |-> r.op, ok |-> TRUE])]
                /\ IF r.op = "write"
                   THEN /\ disk' = [disk EXCEPT ![r.file] = Written(@, r.pos, r.size, buffer[t])]
                        /\ unsynced' = unsynced \cup {r.file} /\ UNCHANGED buffer
                   ELSE /\ buffer' = [buffer EXCEPT ![t] = Content(r.file, r.pos, r.size)]
                        /\ UNCHANGED <<disk, unsynced>>
                /\ UNCHANGED faults
             \/ /\ faults < MaxFaults /\ faults' = faults + 1
                /\ landed' = [landed EXCEPT ![t] = Append(@, [op |-> r.op, ok |-> FALSE])]
                /\ UNCHANGED <<disk, unsynced, buffer>>
  /\ UNCHANGED <<counts, executed, rejected, pc, reg, error>> /\ Untouched

(* Mutant of Tally: one per call of file_wait(), not one per event.        *)
Tally_PerCall(got, op) == IF \E i \in 1 .. Len(got) : got[i].op = op THEN 1 ELSE 0
Tally(got, op) == Cardinality({i \in 1 .. Len(got) : got[i].op = op})

(* file_wait(): collects what has landed, up to the first failure.         *)
Collected(t) ==
  LET bad == {i \in 1 .. Len(landed[t]) : ~landed[t][i].ok}
  IN IF bad = {} THEN landed[t] ELSE SubSeq(landed[t], 1, Min(bad) - 1)

file_wait(t, next) ==
  LET got == Collected(t)
  IN /\ landed' = [landed EXCEPT ![t] = SubSeq(@, Len(got) + 1, Len(@))]
     /\ Count(t, Tally(got, "read"), Tally(got, "write"), 0)
     /\ IF got = landed[t] THEN Goto(t, next) /\ UNCHANGED error
        ELSE IF pc[t] = "wait" THEN Fails(t) ELSE Goto(t, "over") /\ UNCHANGED error
     /\ UNCHANGED <<disk, unsynced, buffer, flying, executed, rejected, faults, reg>>
     /\ Untouched

(* io_getevents() fails and nothing is collected.                          *)
WaitFails(t) ==
  /\ At(t, "wait") \/ At(t, "drain")
  /\ faults < MaxFaults /\ faults' = faults + 1
  /\ IF pc[t] = "wait" THEN Fails(t) ELSE Goto(t, "over") /\ UNCHANGED error
  /\ UNCHANGED <<disk, unsynced, buffer, flying, landed, counts, executed, rejected, reg>>
  /\ Untouched

WaitForOne(t) == At(t, "wait") /\ landed[t] # <<>> /\ file_wait(t, "submitted")
WaitForAll(t) == At(t, "drain") /\ flying[t] = <<>> /\ file_wait(t, "over")

(* file_thread_done(); worker_thread() does not look at what it returns.   *)
SyncsAtEnd == file_fsync_end /\ cfg.mode \notin {"seqrd", "rndrd"}

(* Mutant of LastSynced: the loop ends one file too early.                 *)
LastSynced_OneLess(t) == reg[t] >= cfg.files - 1
LastSynced(t) == reg[t] >= cfg.files

ThreadFsync(t) ==
  /\ At(t, "ending") /\ SyncsAtEnd /\ ~LastSynced(t)
  /\ Reg(t, reg[t] + 1)
  /\ \/ /\ unsynced' = unsynced \ {reg[t]}
        /\ Count(t, 0, 0, 1) /\ UNCHANGED <<faults, pc>>
     \/ /\ faults < MaxFaults /\ faults' = faults + 1 /\ Goto(t, "over")
        /\ UNCHANGED <<unsynced, counts>>
  /\ UNCHANGED <<disk, buffer, flying, landed, executed, rejected, error>> /\ Untouched

ThreadDone(t) ==
  /\ At(t, "ending") /\ (SyncsAtEnd => LastSynced(t))
  /\ Goto(t, IF Async /\ nrequests(t) > 0 THEN "drain" ELSE "over")
  /\ UNCHANGED <<ioVars, reg, error>> /\ Untouched

SeqRequest(t) == SeqFsync(t) \/ SeqBlock(t)
RndRequest(t) == \/ RndStart(t) \/ RndDue(t) \/ RndSync(t) \/ RndBump(t) \/ RndWrap(t)
                 \/ RndClean(t) \/ RndPick(t) \/ RndClaim(t) \/ RndClaimPos(t)
                 \/ RndCount(t) \/ RndMark(t)
Execute(t) == \/ RequestRefused(t) \/ RequestAstray(t) \/ IoFault(t) \/ file_pread(t)
              \/ file_pwrite(t) \/ FsyncAll(t) \/ file_fsync(t) \/ file_submit_or_wait(t)
              \/ Submitted(t) \/ WaitForOne(t) \/ WaitFails(t)
Step(t) == \/ NextEvent(t) \/ SeqRequest(t) \/ RndRequest(t) \/ Execute(t)
           \/ ThreadFsync(t) \/ ThreadDone(t) \/ WaitForAll(t)
Main == file_cmd_prepare \/ file_prepare \/ file_done \/ file_cmd_cleanup

Next == Main \/ \E t \in Threads : Step(t) \/ Land(t)

Spec == Init /\ [][Next]_vars

----------------------------------------------------------------------------
(* The I/O that is possible is done; threads run on; main() joins them.    *)
Fairness == WF_vars(file_done) /\ WF_vars(\E t \in Threads : Step(t) \/ Land(t))

FairSpec == Spec /\ Fairness

(* After a run without a failure whose options ask for an fsync() at the   *)
(* end or after each write, no file has data that was written and not      *)
(* synced: each thread syncs every file after its own last write, whatever *)
(* the others still write.  Asynchronous operations are excepted:          *)
(* file_thread_done() syncs first and waits for them afterwards.           *)
EndSynced ==
  phase = "finished" /\ ~error /\ faults = 0 /\ ~Async /\ (SyncsAtEnd \/ cfg.all) =>
    unsynced = {}

(* Reads and writes are counted once each: what a thread has executed is   *)
(* what it has counted and what its queue still owes; a queue never holds  *)
(* more than --file-async-backlog operations, and a run that ends without  *)
(* a failure has counted them all.                                         *)
CountedOnce ==
  \A t \in Threads :
    /\ pc[t] \notin {"fsync_all", "over"} =>
         executed[t] = counts[t].read + counts[t].write + nrequests(t)
    /\ nrequests(t) <= cfg.backlog
    /\ phase = "finished" /\ ~error /\ faults = 0 =>
         executed[t] = counts[t].read + counts[t].write

(* Sequential requests never put more than --file-fsync-freq writes        *)
(* between two full series of fsyncs, also when req_performed wraps.       *)
FsyncOften == Valid /\ Sequential /\ file_fsync_freq # 0 => since <= file_fsync_freq

(* With --validate no block is refused when blocks divide the files,       *)
(* requests are not merged and I/O goes through pread() and pwrite(), taken*)
(* as atomic: what prepare and the threads wrote is read back, in any      *)
(* interleaving.                                                           *)
ValidationSound ==
  rejected => file_size % cfg.block # 0 \/ cfg.merged > 1 \/ cfg.io # "sync"

(* A run comes to its end when there are at least as many blocks as        *)
(* threads; with fewer, the retry loop of file_get_rnd_request() waits for *)
(* a block that a thread which has ended never gives up.                   *)
RunFinishes ==
  (phase = "run" /\ cfg.total \div cfg.block >= cfg.threads) ~> phase # "run"

(* A request names a file of the test and lies inside it, as the checks in *)
(* file_execute_event() ask, whenever requests are made under the lock or  *)
(* by a single thread and the files have equal shares of the total size;   *)
(* and with more than one file the sequential requests, with fsyncs in     *)
(* between, pass the generator's own check_seq_req().                      *)
RequestsInRange ==
  /\ (Sequential \/ cfg.threads = 1) /\ cfg.total % cfg.files = 0 =>
       \A t \in Threads : pc[t] = "exec" =>
         req[t].file \in Files /\ req[t].pos + req[t].size <= file_size
  /\ cfg.files > 1 => ~warned

(* The comment in file_get_rnd_request(): "For the multi-threaded          *)
(* validation test we have to make sure the block is not being used by     *)
(* another thread."                                                        *)
BlockNotShared ==
  cfg.validate /\ ~Sequential =>
    \A t, u \in Threads :
      t # u /\ pc[t] = "exec" /\ pc[u] = "exec" /\ req[t].op # "fsync" /\ req[u].op # "fsync" =>
        <<req[t].file, req[t].pos>> # <<req[u].file, req[u].pos>>
============================================================================
