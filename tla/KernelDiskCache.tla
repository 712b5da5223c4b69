--------------------------- MODULE KernelDiskCache ---------------------------
(***************************************************************************)
(* The on-disk cache of compiled kernels (numba_cuda/core/caching.py) and  *)
(* the way a dispatcher uses it (_compile_impl): for one kernel, an index  *)
(* file that names a data file for each signature and target, read and     *)
(* written by several processes that may fail or die at any point, while   *)
(* the source file of the kernel is edited.                                *)
(*                                                                         *)
(* A file is replaced at once (os.replace), but index and data file one    *)
(* after the other, and nothing is locked between processes.  Within a     *)
(* process the global compiler lock leaves one operation at a time.        *)
(***************************************************************************)
EXTENDS Naturals, FiniteSets

CONSTANTS
    Processes,      \* processes that use the kernel
    Keys,           \* index keys: signature, target and hash of the bytecode
    Cooperative,    \* whether the kernel synchronises a grid group
    None,           \* Python's None, a file that does not exist
    MaxEdits,       \* bound: edits of the source file
    MaxDeaths,      \* bound: processes killed, and writes that fail
    MaxRecompiles   \* bound: calls to recompile()

ASSUME DiskCacheAssumption ==
    /\ IsFiniteSet(Keys)
    /\ Cooperative \in BOOLEAN
    /\ MaxEdits \in Nat /\ MaxDeaths \in Nat /\ MaxRecompiles \in Nat

VARIABLES
    source,     \* version of the source file
    index,      \* contents of the index file
    files,      \* contents of the data files
    code,       \* version each process has imported, None: not running
    stamp,      \* _source_stamp of its cache, None before it has one
    overloads,  \* overloads of its dispatcher
    pc,         \* where it is in _compile_impl
    op,         \* the locals of load() and save()
    flushing,   \* whether recompile() has yet to flush the index
    recompiles, \* how often recompile() was called
    deaths,     \* how many times a process was killed or failed to write
    saved,      \* keys saved since the index file was last reset (history)
    disturbed   \* whether the files were used in a way that can mix them up (history)

processVars == << code, stamp, overloads, pc, op, flushing >>
vars == << source, index, files, processVars, recompiles, deaths, saved, disturbed >>

-----------------------------------------------------------------------------

(* Numbers of data files.                                                  *)
Names == 1..Cardinality(Keys)

NoNames == [k \in Keys |-> None]

(* What a compilation produces: the key stands for the signature and the   *)
(* target it is compiled for; an edit the bytecode hash does not see, such *)
(* as another constant, keeps the key and changes the code.                *)
Kernels == [key : Keys, code : Nat, cooperative : BOOLEAN]

DataContents == [key : Keys, code : Nat]

(* reduce() writes less than that to a data file, and rebuild() makes a    *)
(* result without use_cooperative of it, which reads as False.             *)
Reduced(kernel) == [key |-> kernel.key, code |-> kernel.code]
Rebuilt(data)   == [key |-> data.key, code |-> data.code, cooperative |-> FALSE]

IndexContents == [stamp : Nat, names : [Keys -> Names \cup {None}]]

(* None is not one of the values it stands beside.                         *)
ASSUME NoneAssumption ==
    None \notin Nat \cup Keys \cup Kernels \cup DataContents \cup IndexContents

NoOp == [key |-> None, names |-> NoNames, name |-> None]

Init ==
    /\ source = 0
    /\ index = None
    /\ files = [n \in Names |-> None]
    /\ code = [p \in Processes |-> None]
    /\ stamp = [p \in Processes |-> None]
    /\ overloads = [p \in Processes |-> [k \in Keys |-> None]]
    /\ pc = [p \in Processes |-> "idle"]
    /\ op = [p \in Processes |-> NoOp]
    /\ flushing = [p \in Processes |-> FALSE]
    /\ recompiles = 0
    /\ deaths = 0
    /\ saved = {}
    /\ disturbed = FALSE

Goto(p, label) == pc' = [pc EXCEPT ![p] = label]

(* Mutated form: the index of another version of the source will do.       *)
MutantLoadIndex(p) == IF index = None THEN NoNames ELSE index.names

(* There is no index file, or one for another source stamp.                *)
Obsolete(p) == index = None \/ (index # None /\ index.stamp # stamp[p])

(* _load_index: an index for another source stamp counts as empty.         *)
LoadIndex(p) ==
    IF Obsolete(p) THEN NoNames ELSE index.names

(* Mutated form: the number of entries instead of the first free number.   *)
MutantFreeName(names) ==
    LET used == {names[k] : k \in Keys} \ {None}
    IN  IF used = {} THEN 1 ELSE Cardinality(used)

(* The first number that no entry of the index uses.                       *)
FreeName(names) ==
    CHOOSE n \in Names : /\ \A k \in Keys : names[k] # n
                         /\ \A m \in 1..(n - 1) : \E k \in Keys : names[k] = m

(* Mutated form: the index is written without its stamp.                   *)
MutantIndexFor(p, names) == [names |-> names]

(* _save_index                                                             *)
IndexFor(p, names) == [stamp |-> stamp[p], names |-> names]

(* The result of compiling what the process asked for.                     *)
Compiled(p) == [key |-> op[p].key, code |-> code[p], cooperative |-> Cooperative]

Loading == {"load"}
Saving  == {"index", "data"}

(* Another process is between two steps of one of these operations.        *)
OthersIn(p, labels) == \E q \in Processes \ {p} : pc[q] \in labels

-----------------------------------------------------------------------------
(* Processes                                                               *)

(* The module that defines the kernel is imported ...                      *)
Import(p) ==
    /\ code[p] = None
    /\ code' = [code EXCEPT ![p] = source]
    /\ UNCHANGED << source, flushing, recompiles, index, files, stamp, overloads, pc, op, deaths, saved, disturbed >>

(* ... and enable_caching() stamps the cache from the source file.         *)
EnableCaching(p) ==
    /\ code[p] # None /\ stamp[p] = None
    /\ stamp' = [stamp EXCEPT ![p] = source]
    /\ UNCHANGED << source, flushing, recompiles, index, files, code, overloads, pc, op, deaths, saved, disturbed >>

EndOf(p) ==
    /\ code' = [code EXCEPT ![p] = None]
    /\ stamp' = [stamp EXCEPT ![p] = None]
    /\ overloads' = [overloads EXCEPT ![p] = [k \in Keys |-> None]]
    /\ op' = [op EXCEPT ![p] = NoOp]
    /\ flushing' = [flushing EXCEPT ![p] = FALSE]
    /\ Goto(p, "idle")

Exit(p) ==
    /\ code[p] # None /\ pc[p] = "idle" /\ ~ flushing[p]
    /\ EndOf(p)
    /\ UNCHANGED << source, index, files, recompiles, deaths, saved, disturbed >>

(* Between the two writes of a save a death leaves an entry without data.  *)
Killed(p) ==
    /\ pc[p] # "idle" \/ flushing[p]
    /\ deaths < MaxDeaths
    /\ deaths' = deaths + 1
    /\ EndOf(p)
    /\ disturbed' = (disturbed \/ pc[p] = "data")
    /\ UNCHANGED << source, index, files, recompiles, saved >>

(* The disk is full: _open_for_write removes its temporary file and the    *)
(* error leaves _compile_impl, which has stored the overload already.      *)
WriteFails(p) ==
    /\ pc[p] \in Saving
    /\ deaths < MaxDeaths
    /\ deaths' = deaths + 1
    /\ op' = [op EXCEPT ![p] = NoOp]
    /\ Goto(p, "idle")
    /\ disturbed' = (disturbed \/ pc[p] = "data")
    /\ UNCHANGED << source, flushing, recompiles, index, files, code, stamp, overloads, saved >>

(* Somebody edits the source file.                                         *)
Edit ==
    /\ source < MaxEdits
    /\ source' = source + 1
    /\ disturbed' = (disturbed \/ \E p \in Processes : code[p] # None /\ stamp[p] = None)
    /\ UNCHANGED << index, files, processVars, recompiles, deaths, saved >>

-----------------------------------------------------------------------------
(* _compile_impl with an on-disk cache                                     *)

(* load(): the index tells the data file ...                               *)
Lookup(p) ==
    /\ pc[p] = "idle" /\ stamp[p] # None
    /\ \E k \in {key \in Keys : overloads[p][key] = None} :
         LET name == LoadIndex(p)[k] IN
         /\ op' = [op EXCEPT ![p] = [NoOp EXCEPT !.key = k, !.name = name]]
         /\ Goto(p, IF name = None THEN "miss" ELSE "load")
    /\ disturbed' = (disturbed \/ OthersIn(p, Saving))
    /\ UNCHANGED << source, flushing, recompiles, index, files, code, stamp, overloads, deaths, saved >>

(* ... whose contents become the overload for the requested types; a file  *)
(* that is not there counts as a miss.                                     *)
LoadData(p) ==
    LET data == files[op[p].name] IN
    /\ pc[p] = "load"
    /\ IF data = None
       THEN Goto(p, "miss") /\ UNCHANGED << overloads, op >>
       ELSE /\ overloads' = [overloads EXCEPT ![p][op[p].key] = Rebuilt(data)]
            /\ op' = [op EXCEPT ![p] = NoOp]
            /\ Goto(p, "idle")
    /\ UNCHANGED << source, flushing, recompiles, index, files, code, stamp, deaths, saved, disturbed >>

Compile(p) ==
    /\ pc[p] = "miss"
    /\ overloads' = [overloads EXCEPT ![p][op[p].key] = Compiled(p)]
    /\ Goto(p, "save")
    /\ UNCHANGED << source, flushing, recompiles, index, files, code, stamp, op, deaths, saved, disturbed >>

(* save(): an entry that is there keeps its data file.                     *)
StartSave(p) ==
    LET names == LoadIndex(p)
        name  == names[op[p].key]
    IN
    /\ pc[p] = "save"
    /\ op' = [op EXCEPT ![p].names = names,
                        ![p].name = IF name = None THEN FreeName(names) ELSE name]
    /\ Goto(p, IF name = None THEN "index" ELSE "data")
    /\ disturbed' = (disturbed \/ OthersIn(p, Loading \cup Saving))
    /\ UNCHANGED << source, flushing, recompiles, index, files, code, stamp, overloads, deaths, saved >>

(* Mutated form: only the new entry is written.                            *)
MutantSaveIndex(p) ==
    /\ pc[p] = "index"
    /\ index' = IndexFor(p, [NoNames EXCEPT ![op[p].key] = op[p].name])
    /\ saved' = IF Obsolete(p) THEN {} ELSE saved
    /\ Goto(p, "data")
    /\ UNCHANGED << source, flushing, recompiles, files, code, stamp, overloads, op, deaths, disturbed >>

(* A new one is written to the index before its data file is.              *)
SaveIndex(p) ==
    /\ pc[p] = "index"
    /\ index' = IndexFor(p, [op[p].names EXCEPT ![op[p].key] = op[p].name])
    /\ saved' = IF Obsolete(p) THEN {} ELSE saved
    /\ Goto(p, "data")
    /\ UNCHANGED << source, flushing, recompiles, files, code, stamp, overloads, op, deaths, disturbed >>

SaveData(p) ==
    /\ pc[p] = "data"
    /\ files' = [files EXCEPT ![op[p].name] = Reduced(Compiled(p))]
    /\ saved' = IF index.stamp = stamp[p] THEN saved \cup {op[p].key} ELSE saved
    /\ op' = [op EXCEPT ![p] = NoOp]
    /\ Goto(p, "idle")
    /\ UNCHANGED << source, flushing, recompiles, index, code, stamp, overloads, deaths, disturbed >>

(* recompile(), by any thread of the process, drops the overloads ...      *)
Recompile(p) ==
    /\ stamp[p] # None /\ ~ flushing[p]
    /\ recompiles < MaxRecompiles
    /\ recompiles' = recompiles + 1
    /\ overloads' = [overloads EXCEPT ![p] = [k \in Keys |-> None]]
    /\ flushing' = [flushing EXCEPT ![p] = TRUE]
    /\ UNCHANGED << source, index, files, code, stamp, pc, op, deaths, saved, disturbed >>

(* ... and then flushes the index file.                                    *)
Flush(p) ==
    /\ flushing[p]
    /\ flushing' = [flushing EXCEPT ![p] = FALSE]
    /\ index' = IndexFor(p, NoNames)
    /\ saved' = {}
    /\ disturbed' = (disturbed \/ \E q \in Processes : pc[q] \in Saving)
    /\ UNCHANGED << source, files, code, stamp, overloads, pc, op, recompiles, deaths >>

(* Or fails to: the error leaves recompile() before it resets the native   *)
(* dispatchers.                                                            *)
FlushFails(p) ==
    /\ flushing[p]
    /\ deaths < MaxDeaths
    /\ deaths' = deaths + 1
    /\ flushing' = [flushing EXCEPT ![p] = FALSE]
    /\ UNCHANGED << source, index, files, code, stamp, overloads, pc, op, recompiles,
                    saved, disturbed >>

Next ==
    \/ Edit
    \/ \E p \in Processes :
         \/ Import(p) \/ EnableCaching(p) \/ Exit(p) \/ Killed(p) \/ WriteFails(p)
         \/ Lookup(p) \/ LoadData(p) \/ Compile(p)
         \/ StartSave(p) \/ SaveIndex(p) \/ SaveData(p)
         \/ Recompile(p) \/ Flush(p) \/ FlushFails(p)

Spec == Init /\ [][Next]_vars

-----------------------------------------------------------------------------

(* TypeOK: both kinds of files hold what the code writes to them, and the  *)
(* locals of load() and save() what it reads.                              *)
TypeOK ==
    /\ source \in 0..MaxEdits
    /\ index \in IndexContents \cup {None}
    /\ files \in [Names -> DataContents \cup {None}]
    /\ code \in [Processes -> Nat \cup {None}]
    /\ stamp \in [Processes -> Nat \cup {None}]
    /\ overloads \in [Processes -> [Keys -> Kernels \cup {None}]]
    /\ pc \in [Processes -> {"idle", "load", "miss", "save", "index", "data"}]
    /\ op \in [Processes -> [key : Keys \cup {None}, names : [Keys -> Names \cup {None}],
                             name : Names \cup {None}]]
    /\ flushing \in [Processes -> BOOLEAN]
    /\ recompiles \in 0..MaxRecompiles
    /\ deaths \in 0..MaxDeaths
    /\ saved \in SUBSET Keys
    /\ disturbed \in BOOLEAN

(* NamesDistinct: whatever processes do to the files, no two entries of an *)
(* index ever name the same data file.                                     *)
NamesDistinct ==
    index # None =>
        \A j, k \in Keys :
            index.names[j] # None /\ index.names[j] = index.names[k] => j = k

(* RightKernel: what a dispatcher holds for a signature was compiled for   *)
(* that signature, from the source it has imported ("There is one data     *)
(* file per function, function signature, target architecture and Python   *)
(* version", caching.py).                                                  *)
RightKernel ==
    \A p \in Processes, k \in Keys :
        overloads[p][k] # None => Reduced(overloads[p][k]) = [key |-> k, code |-> code[p]]

(* CooperativeKept: every overload knows whether it needs a cooperative    *)
(* launch, compiled or loaded ("automatically determines whether a         *)
(* cooperative launch is required", cooperative_groups.rst).               *)
CooperativeKept ==
    \A p \in Processes, k \in Keys :
        overloads[p][k] # None => overloads[p][k].cooperative = Cooperative

(* UndisturbedIsRight: as long as no save has overlapped another operation *)
(* or was cut short between its two writes, and the source has not been    *)
(* edited between its import and its stamp, a dispatcher never holds a     *)
(* kernel for other types or from another source, through any number of    *)
(* restarts, edits and flushes and although data files are never deleted.  *)
UndisturbedIsRight == ~ disturbed => RightKernel

(* SavedIsFound: under the same condition, what a process has saved is in  *)
(* the files for every process with the same source, until the index is    *)
(* flushed or taken over by another version of the source.                 *)
SavedIsFound ==
    ~ disturbed =>
        \A k \in saved :
            /\ index.names[k] # None
            /\ files[index.names[k]] = [key |-> k, code |-> index.stamp]
=============================================================================
