------------------------------ MODULE MCFileIO ------------------------------
(* Small instances of the fileio test: every mode, each kind of I/O.       *)
EXTENDS FileIO

Base == [mode |-> "rndwr", io |-> "sync", threads |-> 2, files |-> 2, total |-> 4, block |-> 2,
         merged |-> 0, freq |-> 0, all |-> FALSE, end |-> TRUE, validate |-> FALSE,
         ratio |-> <<3, 2>>, backlog |-> 2, events |-> 3]

MCConfigs ==
  { [Base EXCEPT !.mode = "seqwr", !.freq = 3, !.events = 8],
    [Base EXCEPT !.mode = "seqwr", !.freq = 2, !.total = 6, !.block = 1, !.merged = 2,
                 !.io = "mmap", !.validate = TRUE, !.events = 6],
    [Base EXCEPT !.mode = "seqrewr", !.all = TRUE, !.freq = 1, !.events = 4],
    [Base EXCEPT !.mode = "seqrd", !.validate = TRUE, !.events = 5],
    [Base EXCEPT !.mode = "seqrd", !.validate = TRUE, !.total = 6, !.events = 4],
    [Base EXCEPT !.mode = "rndrd", !.total = 5, !.block = 1, !.events = 2],
    [Base EXCEPT !.mode = "rndwr", !.freq = 1, !.events = 5],
    [Base EXCEPT !.mode = "rndrw", !.freq = 2, !.threads = 1, !.events = 7],
    [Base EXCEPT !.mode = "rndrw", !.validate = TRUE, !.total = 8, !.events = 4, !.freq = 2],
    [Base EXCEPT !.mode = "rndrd", !.validate = TRUE, !.events = 4],
    [Base EXCEPT !.mode = "rndrw", !.io = "async", !.freq = 1, !.events = 3],
    [Base EXCEPT !.mode = "rndwr", !.io = "async", !.all = TRUE, !.events = 3, !.backlog = 1],
    [Base EXCEPT !.mode = "seqrd", !.io = "async", !.validate = TRUE, !.events = 3],
    [Base EXCEPT !.merged = -1] }

(* Two threads that validate what they read at random.                     *)
SharedConfigs == {[Base EXCEPT !.mode = "rndrw", !.validate = TRUE, !.total = 8]}
============================================================================
