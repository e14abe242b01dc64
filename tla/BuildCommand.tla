---------------------------- MODULE BuildCommand ----------------------------
(***************************************************************************)
(* The command-line shell of sekic (src/src/alpha/sekic.c): main, check,   *)
(* build and inspect, run by any number of processes over one file system. *)
(*                                                                         *)
(* The shell's promise is about files.  A build names up to three outputs, *)
(* must not touch a file that is already there, must leave nothing behind  *)
(* when it fails, and must leave all of its outputs when it exits 0.  The  *)
(* code keeps that promise with a sequence of separate system calls        *)
(* (fopen "rb", fopen "wb", fwrite/fclose, remove), each of which is one   *)
(* action here, so that other processes, faults and a kill fall between    *)
(* them.  The compiler proper is the verdict on the content of the input.  *)
(***************************************************************************)
EXTENDS Naturals, Sequences, FiniteSets

CONSTANTS
  Procs,        \* sekic processes
  Names,        \* path strings, as they are spelled on the command line
  Files,        \* directory entries
  FileOf,       \* which entry a path string names: two spellings may alias
  NoName,       \* "no --header": the NULL header_path of build_command
  Absent,       \* an entry without a file
  Unreadable,   \* entries whose initial file this user may write but not read
  Invocations,  \* the command lines the processes may be started with
  Initially     \* what each entry holds before the first process starts

Kinds == <<"core", "c", "header">>

KindSet == {"core", "c", "header"}

(***************************************************************************)
(* What compile_source and the backend say about a source file.  good: all *)
(* passes succeed; refused: the parser, checker or emitter rejects it;     *)
(* nobackend: it checks, but the backend does not project it; projection:  *)
(* its text overflows the output buffer (A0-BACKEND-0002); oversize:       *)
(* read_bounded rejects it.                                                *)
(***************************************************************************)
Verdicts == {"good", "refused", "nobackend", "projection", "oversize"}

(***************************************************************************)
(* The bytes of a file: what the user put there, or what a process wrote.  *)
(***************************************************************************)
Foreign == [by : {"user"}, kind : Verdicts, whole : {TRUE}]

Written == [by : Procs, kind : KindSet, whole : BOOLEAN]

\* What process p puts into its output k, in part or in full.
Content(p, k, whole) == [by |-> p, kind |-> Kinds[k], whole |-> whole]

(***************************************************************************)
(* An inode is named by who created it: an initial entry, or the process   *)
(* and the output for which fopen "wb" made it.                            *)
(***************************************************************************)
Inodes == Files \cup (Procs \X (1..3))

ASSUME FileOfAssumption == FileOf \in [Names -> Files]

ASSUME NamesAssumption == NoName \notin Names

ASSUME ProcsAssumption == "user" \notin Procs

ASSUME InodeAssumption == /\ Files \cap (Procs \X (1..3)) = {}
                          /\ Absent \notin Inodes
                          /\ Absent \notin Foreign \cup Written

ASSUME InitiallyAssumption == Initially \in [Files -> Foreign \cup {Absent}]

ASSUME UnreadableAssumption ==
  Unreadable \subseteq {f \in Files : Initially[f] # Absent}

Commands == {"version", "usage", "check", "build", "inspect"}

ASSUME InvocationsAssumption ==
  Invocations \subseteq
    [cmd : Commands, input : Names, core : Names, c : Names,
     header : Names \cup {NoName}]

VARIABLES
  args,     \* the command line of each process
  pc,       \* where each process is
  stage,    \* which output write_new_file is working on: 1 core, 2 C, 3 header
  handle,   \* the inode the process has open for writing
  undo,     \* outputs still to be removed by the failure path
  status,   \* exit status, "running" before exit
  dir,      \* the inode of each directory entry, or Absent
  data,     \* the content of each inode, or Absent
  stuck     \* a call of remove() has failed in this process

vars == <<args, pc, stage, handle, undo, status, dir, data, stuck>>

Places == {"main", "exists_header", "exists_core", "exists_c", "compile",
           "probe", "open", "fill", "unlink", "undo", "inspect", "exit",
           "killed"}

Statuses == {"running", "EXIT_OK", "EXIT_USAGE", "EXIT_DATA",
             "EXIT_INTERNAL", "EXIT_IO"}

TypeOK ==
  /\ args \in [Procs -> Invocations]
  /\ pc \in [Procs -> Places]
  /\ stage \in [Procs -> 1..3]
  /\ handle \in [Procs -> Inodes \cup {Absent}]
  /\ undo \in [Procs -> SUBSET {1, 2}]
  /\ status \in [Procs -> Statuses]
  /\ dir \in [Files -> Inodes \cup {Absent}]
  /\ data \in [Inodes -> Foreign \cup Written \cup {Absent}]
  /\ stuck \in [Procs -> BOOLEAN]

(***************************************************************************)
(* Names, entries and contents.                                            *)
(***************************************************************************)
HasHeader(p) == args[p].header # NoName

\* The path string of output k of process p.
Path(p, k) == CASE k = 1 -> args[p].core
                [] k = 2 -> args[p].c
                [] k = 3 -> args[p].header

\* The outputs process p was asked for.
Outputs(p) == IF HasHeader(p) THEN {1, 2, 3} ELSE {1, 2}

Entry(name) == FileOf[name]

\* fopen "rb" succeeds: the entry has a file, and it may be read.
Opens(name) == /\ dir[Entry(name)] # Absent
               /\ dir[Entry(name)] \notin Unreadable

\* Mutant of path_exists: the test of the file pointer is turned round.
PathExistsInverted(name) == ~Opens(name)

\* path_exists: a file that cannot be read looks absent.
path_exists(name) == Opens(name)

\* read_bounded: a file that is missing or cannot be opened is not read.
ContentAt(name) == data[dir[Entry(name)]]

\* compile_source on what is at the path.  A compiler output is not a Seki
\* source: the parser refuses it.
SourceVerdict(name) == CASE ~Opens(name) -> "oversize"
                         [] ContentAt(name).by # "user" -> "refused"
                         [] OTHER -> ContentAt(name).kind

Init ==
  /\ args \in [Procs -> Invocations]
  /\ pc = [p \in Procs |-> "main"]
  /\ stage = [p \in Procs |-> 1]
  /\ handle = [p \in Procs |-> Absent]
  /\ undo = [p \in Procs |-> {}]
  /\ status = [p \in Procs |-> "running"]
  /\ dir = [f \in Files |-> IF Initially[f] = Absent THEN Absent ELSE f]
  /\ data = [i \in Inodes |-> IF i \in Files THEN Initially[i] ELSE Absent]
  /\ stuck = [p \in Procs |-> FALSE]

(***************************************************************************)
(* Control flow.                                                           *)
(***************************************************************************)
Goto(p, place) == /\ pc' = [pc EXCEPT ![p] = place]
                  /\ status' = status

Exit(p, code) == /\ pc' = [pc EXCEPT ![p] = "exit"]
                 /\ status' = [status EXCEPT ![p] = code]

\* main: dispatch on argc and argv.
Main(p) ==
  /\ pc[p] = "main"
  /\ \/ args[p].cmd = "version" /\ Exit(p, "EXIT_OK")
     \/ args[p].cmd = "usage" /\ Exit(p, "EXIT_USAGE")
     \/ args[p].cmd = "check" /\ Goto(p, "compile")
     \/ args[p].cmd = "inspect" /\ Goto(p, "inspect")
     \/ args[p].cmd = "build" /\ HasHeader(p) /\ Goto(p, "exists_header")
     \/ args[p].cmd = "build" /\ ~HasHeader(p) /\ Goto(p, "exists_core")
  /\ UNCHANGED <<args, stage, handle, undo, dir, data, stuck>>

(***************************************************************************)
(* build_command, first part: the two distinctness and existence tests,    *)
(* one path_exists per step.                                               *)
(***************************************************************************)
TestHeader(p) ==
  /\ pc[p] = "exists_header"
  /\ IF \/ args[p].header \in {args[p].core, args[p].c}
        \/ path_exists(args[p].header)
       THEN Exit(p, "EXIT_IO")
       ELSE Goto(p, "exists_core")
  /\ UNCHANGED <<args, stage, handle, undo, dir, data, stuck>>

TestCore(p) ==
  /\ pc[p] = "exists_core"
  /\ IF args[p].core = args[p].c \/ path_exists(args[p].core)
       THEN Exit(p, "EXIT_IO")
       ELSE Goto(p, "exists_c")
  /\ UNCHANGED <<args, stage, handle, undo, dir, data, stuck>>

TestC(p) ==
  /\ pc[p] = "exists_c"
  /\ IF path_exists(args[p].c)
       THEN Exit(p, "EXIT_IO")
       ELSE Goto(p, "compile")
  /\ UNCHANGED <<args, stage, handle, undo, dir, data, stuck>>

\* Mutant of Compile: the result of the C projection is not looked at.
CompileUnprojected(p) ==
  /\ pc[p] = "compile"
  /\ IF SourceVerdict(args[p].input) \notin {"refused", "oversize"}
       THEN IF args[p].cmd = "check" THEN Exit(p, "EXIT_OK")
                                     ELSE Goto(p, "probe")
       ELSE Exit(p, "EXIT_DATA")
  /\ UNCHANGED <<args, stage, handle, undo, dir, data, stuck>>

(***************************************************************************)
(* compile_source, and for a build the header and the C projection.  The   *)
(* only effect outside the process is the exit status: nothing is written  *)
(* before every pass has succeeded.  A header pass that runs out of room   *)
(* is EXIT_DATA; only the C pass turns A0-BACKEND-0002 into EXIT_INTERNAL. *)
(***************************************************************************)
Compile(p) ==
  /\ pc[p] = "compile"
  /\ LET verdict == SourceVerdict(args[p].input)
     IN \/ verdict = "oversize" /\ Exit(p, "EXIT_IO")
        \/ verdict = "refused" /\ Exit(p, "EXIT_DATA")
        \/ /\ verdict \in {"good", "nobackend", "projection"}
           /\ args[p].cmd = "check"
           /\ Exit(p, "EXIT_OK")
        \/ /\ args[p].cmd = "build"
           /\ \/ verdict = "nobackend" /\ Exit(p, "EXIT_DATA")
              \/ verdict = "projection" /\ HasHeader(p) /\ Exit(p, "EXIT_DATA")
              \/ verdict = "projection" /\ Exit(p, "EXIT_INTERNAL")
              \/ verdict = "good" /\ Goto(p, "probe")
  /\ UNCHANGED <<args, stage, handle, undo, dir, data, stuck>>

(***************************************************************************)
(* write_new_file for output stage[p], and what build_command does next.   *)
(***************************************************************************)
\* Mutants of Earlier: the branch forgets the C file; it counts the header as an earlier output.
EarlierCoreOnly(k) == IF k > 1 THEN {1} ELSE {}

EarlierAll(k) == 1..k

\* The earlier outputs that the failure branch of this stage removes.
Earlier(k) == {j \in {1, 2} : j < k}

\* write_new_file returned 0: A0-IO-0003, 0004 or 0005.
WriteFailed(p) == /\ Goto(p, "undo")
                  /\ undo' = [undo EXCEPT ![p] = Earlier(stage[p])]

\* Mutant of Probe: build_command has tested the paths already, so
\* write_new_file does not.
ProbeSkipped(p) ==
  /\ pc[p] = "probe"
  /\ Goto(p, "open")
  /\ UNCHANGED <<args, stage, handle, undo, dir, data, stuck>>

\* path_exists inside write_new_file.
Probe(p) ==
  /\ pc[p] = "probe"
  /\ IF path_exists(Path(p, stage[p]))
       THEN WriteFailed(p)
       ELSE Goto(p, "open") /\ UNCHANGED undo
  /\ UNCHANGED <<args, stage, handle, dir, data, stuck>>

\* fopen "wb" fails: permissions, a missing directory, no descriptors.
OpenFails(p) ==
  /\ pc[p] = "open"
  /\ WriteFailed(p)
  /\ UNCHANGED <<args, stage, handle, dir, data, stuck>>

\* fopen "wb": create the entry, or truncate the file that has appeared.
Open(p) ==
  /\ pc[p] = "open"
  /\ LET f     == Entry(Path(p, stage[p]))
         inode == IF dir[f] = Absent THEN <<p, stage[p]>> ELSE dir[f]
     IN /\ dir' = [dir EXCEPT ![f] = inode]
        /\ data' = [data EXCEPT ![inode] = Content(p, stage[p], FALSE)]
        /\ handle' = [handle EXCEPT ![p] = inode]
  /\ Goto(p, "fill")
  /\ UNCHANGED <<args, stage, undo, stuck>>

\* fwrite and fclose succeed, and build_command goes on to the next output.
Fill(p) ==
  /\ pc[p] = "fill"
  /\ data' = [data EXCEPT ![handle[p]] = Content(p, stage[p], TRUE)]
  /\ handle' = [handle EXCEPT ![p] = Absent]
  /\ IF stage[p] + 1 \in Outputs(p)
       THEN /\ stage' = [stage EXCEPT ![p] = @ + 1]
            /\ Goto(p, "probe")
       ELSE /\ Exit(p, "EXIT_OK")
            /\ UNCHANGED stage
  /\ UNCHANGED <<args, undo, dir, stuck>>

\* A short fwrite or a failing fclose: part of the bytes are in the file, or
\* all of them when fclose alone reports an error.
FillFails(p) ==
  /\ pc[p] = "fill"
  /\ \E whole \in BOOLEAN :
       data' = [data EXCEPT ![handle[p]] = Content(p, stage[p], whole)]
  /\ handle' = [handle EXCEPT ![p] = Absent]
  /\ Goto(p, "unlink")
  /\ UNCHANGED <<args, stage, undo, dir, stuck>>

\* remove() of a path: it takes away the entry whatever inode it now has.
\* Its result is ignored by every caller.
Remove(p, k) ==
  \/ /\ dir' = [dir EXCEPT ![Entry(Path(p, k))] = Absent]
     /\ UNCHANGED stuck
  \/ /\ stuck' = [stuck EXCEPT ![p] = TRUE]
     /\ UNCHANGED dir

\* The remove() inside write_new_file.
Unlink(p) ==
  /\ pc[p] = "unlink"
  /\ Remove(p, stage[p])
  /\ WriteFailed(p)
  /\ UNCHANGED <<args, stage, handle, data>>

\* Mutant of Undo: a failing remove() is tried again.
UndoRetries(p) ==
  /\ pc[p] = "undo"
  /\ \E k \in undo[p] :
       /\ \A j \in undo[p] : k <= j
       /\ Remove(p, k)
       /\ undo' = [undo EXCEPT ![p] = IF stuck'[p] THEN @ ELSE @ \ {k}]
  /\ UNCHANGED <<args, pc, stage, handle, status, data>>

\* The remove() calls in build_command's failure branches, core before C.
Undo(p) ==
  /\ pc[p] = "undo"
  /\ \E k \in undo[p] :
       /\ \A j \in undo[p] : k <= j
       /\ Remove(p, k)
       /\ undo' = [undo EXCEPT ![p] = @ \ {k}]
  /\ UNCHANGED <<args, pc, stage, handle, status, data>>

UndoDone(p) ==
  /\ pc[p] = "undo"
  /\ undo[p] = {}
  /\ Exit(p, "EXIT_IO")
  /\ UNCHANGED <<args, stage, handle, undo, dir, data, stuck>>

(***************************************************************************)
(* inspect_command.  The envelope of a core carries its length, so only a  *)
(* core that has been written in full decodes.                             *)
(***************************************************************************)
Inspect(p) ==
  /\ pc[p] = "inspect"
  /\ IF Opens(args[p].input)
       THEN Exit(p, IF /\ ContentAt(args[p].input).kind = "core"
                       /\ ContentAt(args[p].input).whole
                      THEN "EXIT_OK" ELSE "EXIT_DATA")
       ELSE Exit(p, "EXIT_IO")
  /\ UNCHANGED <<args, stage, handle, undo, dir, data, stuck>>

\* The process is killed between two system calls; its files stay.
Kill(p) ==
  /\ pc[p] \notin {"exit", "killed"}
  /\ pc' = [pc EXCEPT ![p] = "killed"]
  /\ handle' = [handle EXCEPT ![p] = Absent]
  /\ UNCHANGED <<args, stage, undo, status, dir, data, stuck>>

\* The same, when all the bytes are in the file and fclose has not returned.
KillWritten(p) ==
  /\ pc[p] = "fill"
  /\ data' = [data EXCEPT ![handle[p]] = Content(p, stage[p], TRUE)]
  /\ pc' = [pc EXCEPT ![p] = "killed"]
  /\ handle' = [handle EXCEPT ![p] = Absent]
  /\ UNCHANGED <<args, stage, undo, status, dir, stuck>>

Step(p) ==
  \/ Main(p) \/ TestHeader(p) \/ TestCore(p) \/ TestC(p) \/ Compile(p)
  \/ Probe(p) \/ OpenFails(p) \/ Open(p) \/ Fill(p) \/ FillFails(p)
  \/ Unlink(p) \/ Undo(p) \/ UndoDone(p) \/ Inspect(p)

Next == \E p \in Procs : Step(p) \/ Kill(p) \/ KillWritten(p)

Spec == Init /\ [][Next]_vars

(***************************************************************************)
(* A process that is not killed keeps running: the scheduler is fair to it *)
(* and every system call returns.                                          *)
(***************************************************************************)
FairSpec == Spec /\ \A p \in Procs : WF_vars(Step(p))

-----------------------------------------------------------------------------
(***************************************************************************)
(* Properties.                                                             *)
(***************************************************************************)
\* Output k of process p is at its path, complete.
Delivered(p, k) ==
  LET inode == dir[Entry(Path(p, k))]
  IN /\ inode # Absent
     /\ data[inode] = Content(p, k, TRUE)

\* The entries a build may write.
Targets(p) == {Entry(Path(p, k)) : k \in Outputs(p)}

\* No other build was given an output of p, and no output of p is a file
\* that is there but cannot be read.
Private(p) ==
  /\ Targets(p) \cap Unreadable = {}
  /\ \A q \in Procs \ {p} :
       args[q].cmd = "build" => Targets(p) \cap Targets(q) = {}

\* An entry holds something that process p wrote.
WroteEntry(p, f) == dir[f] # Absent /\ data[dir[f]].by = p

(***************************************************************************)
(* build_command returns EXIT_OK only if every file it was asked for is    *)
(* there and complete, and stays there, whatever the other processes do    *)
(* with their own outputs, however paths are spelled, and wherever they    *)
(* fail or are killed.                                                     *)
(***************************************************************************)
SuccessComplete ==
  \A p \in Procs :
    (status[p] = "EXIT_OK" /\ args[p].cmd = "build" /\ Private(p))
      => \A k \in Outputs(p) : Delivered(p, k)

(***************************************************************************)
(* A build that exits nonzero leaves nothing it wrote, even when it raced  *)
(* other builds for the same paths, unless remove() itself failed.         *)
(***************************************************************************)
FailureLeavesNothing ==
  \A p \in Procs :
    (pc[p] = "exit" /\ status[p] # "EXIT_OK" /\ ~stuck[p])
      => \A f \in Files : ~WroteEntry(p, f)

(***************************************************************************)
(* A readable file that was there before is never truncated, replaced or   *)
(* removed: not by fopen "wb", and not by the remove() calls of a failure  *)
(* path that names it.                                                     *)
(***************************************************************************)
UserFilesKept ==
  \A f \in Files \ Unreadable :
    Initially[f] # Absent => dir[f] = f /\ data[f] = Initially[f]

(***************************************************************************)
(* At no moment, not only at exit, does a check, an inspect, or a build of *)
(* a source that some pass refuses own a file: every pass runs before the  *)
(* first write.                                                            *)
(***************************************************************************)
OnlyGoodSourcesWrite ==
  \A p \in Procs, f \in Files :
    WroteEntry(p, f) =>
      LET source == Entry(args[p].input)
      IN /\ args[p].cmd = "build"
         /\ source \notin Unreadable
         /\ Initially[source] # Absent
         /\ Initially[source].kind = "good"

(***************************************************************************)
(* The header is the last file to appear and the first to go: whoever      *)
(* finds a complete header finds the complete core and the complete C too, *)
(* also when the build was killed or is rolling back, unless a remove() of *)
(* the rollback failed (a header whose fclose failed is removed first).    *)
(***************************************************************************)
HeaderLast ==
  \A p \in Procs :
    (/\ Private(p) /\ HasHeader(p) /\ args[p].cmd = "build"
     /\ Delivered(p, 3) /\ ~stuck[p])
      => Delivered(p, 1) /\ Delivered(p, 2)

(***************************************************************************)
(* Every process that is not killed exits: the failure branches of         *)
(* build_command come to an end.                                           *)
(***************************************************************************)
EveryProcessEnds ==
  \A p \in Procs : <>(pc[p] \in {"exit", "killed"})

=============================================================================
