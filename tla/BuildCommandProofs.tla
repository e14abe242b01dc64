------------------------- MODULE BuildCommandProofs -------------------------
(***************************************************************************)
(* Proofs about BuildCommand, for any number of processes, any directory,  *)
(* any spelling of the paths and any set of command lines.                 *)
(***************************************************************************)
EXTENDS BuildCommand, TLAPS

\* The header stage is reached only by a build with --header, so that the
\* path of the current output is always a path; writing starts with the core;
\* a status is set only by exiting; only an inspect command inspects.
StageOK == \A p \in Procs :
  /\ stage[p] \in Outputs(p)
  /\ pc[p] \in {"main", "exists_header", "exists_core", "exists_c", "compile"}
       => stage[p] = 1
  /\ status[p] # "running" => pc[p] = "exit"
  /\ pc[p] = "inspect" => args[p].cmd = "inspect"

TypeInv == TypeOK /\ StageOK

LEMMA PathType ==
  ASSUME TypeOK, NEW p \in Procs, NEW k \in Outputs(p)
  PROVE  /\ k \in 1..3
         /\ Path(p, k) \in Names
         /\ Entry(Path(p, k)) \in Files
  BY InvocationsAssumption, FileOfAssumption
     DEF TypeOK, Outputs, HasHeader, Path, Entry

LEMMA ContentType ==
  ASSUME NEW p \in Procs, NEW k \in 1..3, NEW w \in BOOLEAN
  PROVE  /\ Content(p, k, w) \in Written
         /\ Content(p, k, w) # Absent
         /\ Content(p, k, w).by = p
         /\ Content(p, k, w).whole = w
         /\ Content(p, k, w).kind = Kinds[k]
<1>1. Kinds[k] \in KindSet
  BY DEF Kinds, KindSet
<1>2. Content(p, k, w) \in Written
  BY <1>1 DEF Content, Written
<1> QED BY <1>2, InodeAssumption DEF Content

LEMMA TypeInvStep == TypeInv /\ [Next]_vars => TypeInv'
<1> SUFFICES ASSUME TypeInv, [Next]_vars
             PROVE  TypeInv'
  OBVIOUS
<1> USE DEF TypeInv, TypeOK, Places, Statuses, StageOK
<1>1. CASE UNCHANGED vars
  BY <1>1 DEF vars, Outputs, HasHeader
<1>2. CASE \E p \in Procs : Step(p) \/ Kill(p) \/ KillWritten(p)
  <2> PICK p \in Procs : Step(p) \/ Kill(p) \/ KillWritten(p)
    BY <1>2
  <2> USE DEF Goto, Exit
  <2>1. CASE Main(p) BY <2>1 DEF Main, Outputs, HasHeader
  <2>2. CASE TestHeader(p) BY <2>2 DEF TestHeader, Outputs, HasHeader
  <2>3. CASE TestCore(p) BY <2>3 DEF TestCore, Outputs, HasHeader
  <2>4. CASE TestC(p) BY <2>4 DEF TestC, Outputs, HasHeader
  <2>5. CASE Compile(p) BY <2>5 DEF Compile, Outputs, HasHeader
  <2>6. CASE Probe(p) BY <2>6 DEF Probe, WriteFailed, Earlier, Outputs, HasHeader
  <2>7. CASE OpenFails(p) BY <2>7 DEF OpenFails, WriteFailed, Earlier, Outputs, HasHeader
  <2>8. CASE Open(p)
    <3>1. stage[p] \in 1..3 /\ Entry(Path(p, stage[p])) \in Files
      BY PathType
    <3>2. Content(p, stage[p], FALSE) \in Written
      BY <3>1, ContentType
    <3> QED BY <2>8, <3>1, <3>2, InodeAssumption DEF Open, Inodes, Outputs, HasHeader
  <2>9. CASE Fill(p)
    <3>1. stage[p] \in 1..3
      OBVIOUS
    <3>2. Content(p, stage[p], TRUE) \in Written
      BY <3>1, ContentType
    <3>3. data' \in [Inodes -> Foreign \cup Written \cup {Absent}]
      BY <2>9, <3>2 DEF Fill
    <3>4. /\ stage' \in [Procs -> 1..3]
          /\ \A q \in Procs : stage'[q] \in Outputs(q)
      BY <2>9 DEF Fill, Outputs
    <3>5. \A q \in Procs : stage'[q] \in Outputs(q)'
      BY <2>9, <3>4 DEF Fill, Outputs, HasHeader
    <3>6. /\ args' \in [Procs -> Invocations]
          /\ pc' \in [Procs -> Places]
          /\ handle' \in [Procs -> Inodes \cup {Absent}]
          /\ status' \in [Procs -> Statuses]
          /\ UNCHANGED <<undo, dir, stuck>>
      BY <2>9 DEF Fill
    <3>7. /\ pc[p] = "fill" /\ status[p] = "running"
          /\ \/ pc'[p] = "probe" /\ status'[p] = status[p]
             \/ pc'[p] = "exit"
      BY <2>9 DEF Fill
    <3>8. \A q \in Procs \ {p} : /\ pc'[q] = pc[q]
                                /\ stage'[q] = stage[q]
                                /\ status'[q] = status[q]
      BY <2>9 DEF Fill
    <3>9. \A q \in Procs :
            /\ pc'[q] \in {"main", "exists_header", "exists_core", "exists_c",
                           "compile"} => stage'[q] = 1
            /\ status'[q] # "running" => pc'[q] = "exit"
            /\ pc'[q] = "inspect" => args'[q].cmd = "inspect"
      BY <2>9, <3>7, <3>8 DEF Fill
    <3> QED BY <3>3, <3>4, <3>5, <3>6, <3>9
  <2>10. CASE FillFails(p)
    <3>1. stage[p] \in 1..3
      OBVIOUS
    <3>2. PICK whole \in BOOLEAN :
            data' = [data EXCEPT ![handle[p]] = Content(p, stage[p], whole)]
      BY <2>10 DEF FillFails
    <3>3. Content(p, stage[p], whole) \in Written
      BY <3>1, ContentType
    <3>4. data' \in [Inodes -> Foreign \cup Written \cup {Absent}]
      BY <3>2, <3>3
    <3> QED BY <2>10, <3>1, <3>4 DEF FillFails, Outputs, HasHeader
  <2>11. CASE Unlink(p) BY <2>11 DEF Unlink, Remove, WriteFailed, Earlier, Outputs, HasHeader
  <2>12. CASE Undo(p)
    <3> PICK k \in undo[p] : /\ Remove(p, k)
                             /\ undo' = [undo EXCEPT ![p] = @ \ {k}]
      BY <2>12 DEF Undo
    <3>1. undo' \in [Procs -> SUBSET {1, 2}]
      OBVIOUS
    <3>2. /\ dir' \in [Files -> Inodes \cup {Absent}]
          /\ stuck' \in [Procs -> BOOLEAN]
      BY DEF Remove
    <3>3. UNCHANGED <<args, pc, stage, handle, status, data>>
      BY <2>12 DEF Undo
    <3> QED BY <3>1, <3>2, <3>3 DEF Outputs, HasHeader
  <2>13. CASE UndoDone(p) BY <2>13 DEF UndoDone, Outputs, HasHeader
  <2>14. CASE Inspect(p) BY <2>14 DEF Inspect, Outputs, HasHeader
  <2>15. CASE Kill(p) BY <2>15 DEF Kill, Outputs, HasHeader
  <2>16. CASE KillWritten(p)
    <3>1. stage[p] \in 1..3
      OBVIOUS
    <3>2. Content(p, stage[p], TRUE) \in Written
      BY <3>1, ContentType
    <3> QED BY <2>16, <3>1, <3>2 DEF KillWritten, Outputs, HasHeader
  <2> QED BY <2>1, <2>2, <2>3, <2>4, <2>5, <2>6, <2>7, <2>8, <2>9, <2>10,
             <2>11, <2>12, <2>13, <2>14, <2>15, <2>16 DEF Step
<1> QED BY <1>1, <1>2 DEF Next

LEMMA TypeInvInit == Init => TypeInv
  BY InitiallyAssumption, InodeAssumption
     DEF Init, TypeInv, TypeOK, StageOK, Places, Statuses, Inodes, Outputs

\* Type correctness of the command-line shell.
THEOREM TypeCorrect == Spec => []TypeOK
<1>1. Spec => []TypeInv
  BY TypeInvInit, TypeInvStep, PTL DEF Spec
<1> QED BY <1>1, PTL DEF TypeInv

-----------------------------------------------------------------------------
(***************************************************************************)
(* Where files live.  An inode has one home entry for good: that of its    *)
(* initial file, or the output path for which fopen "wb" created it.  It   *)
(* is linked nowhere else, and the inode a process has open is at home at  *)
(* the path that process is writing.  This is what keeps one process out   *)
(* of another's files.                                                     *)
(***************************************************************************)
Target(p, k) == Entry(Path(p, k))

Home(i) == IF i \in Files THEN i ELSE Target(i[1], i[2])

HomeInv ==
  /\ \A f \in Files : dir[f] # Absent => /\ Home(dir[f]) = f
                                         /\ data[dir[f]] # Absent
  /\ \A p \in Procs : pc[p] = "fill" => /\ handle[p] \in Inodes
                                        /\ Home(handle[p]) = Target(p, stage[p])

\* A process changes no path: the command line is fixed.
LEMMA PathsFixed ==
  ASSUME [Next]_vars
  PROVE  /\ args' = args
         /\ \A p, k : Path(p, k)' = Path(p, k)
         /\ \A p, k : Target(p, k)' = Target(p, k)
         /\ \A i : Home(i)' = Home(i)
<1>1. args' = args
  BY DEF Next, Step, Main, TestHeader, TestCore, TestC, Compile, Probe,
         OpenFails, Open, Fill, FillFails, KillWritten, Unlink, Undo, UndoDone, Inspect,
         Kill, vars
<1> QED BY <1>1 DEF Path, Target, Entry, Home

\* The actions that leave the file system alone.
Quiet(p) == \/ Main(p) \/ TestHeader(p) \/ TestCore(p) \/ TestC(p)
            \/ Compile(p) \/ Probe(p) \/ OpenFails(p) \/ UndoDone(p)
            \/ Inspect(p) \/ Kill(p)

\* What a quiet action does: it moves its own process, and not to "fill".
LEMMA QuietStep ==
  ASSUME TypeInv, NEW p \in Procs, Quiet(p)
  PROVE  /\ UNCHANGED <<args, stage, dir, data, stuck>>
         /\ pc'[p] # "fill"
         /\ \A q \in Procs \ {p} : /\ pc'[q] = pc[q]
                                   /\ handle'[q] = handle[q]
                                   /\ undo'[q] = undo[q]
                                   /\ status'[q] = status[q]
  BY DEF Quiet, Main, TestHeader, TestCore, TestC, Compile, Probe, OpenFails,
         UndoDone, Inspect, Kill, WriteFailed, Goto, Exit, TypeInv, TypeOK

\* The case distinction every preservation proof makes.
LEMMA NextCases ==
  ASSUME [Next]_vars
  PROVE  \/ UNCHANGED vars
         \/ \E p \in Procs : \/ Quiet(p) \/ Open(p) \/ Fill(p)
                             \/ FillFails(p) \/ KillWritten(p)
                             \/ Unlink(p) \/ Undo(p)
  BY DEF Next, Step, Quiet

LEMMA HomeInit == Init => HomeInv
  BY InitiallyAssumption, InodeAssumption DEF Init, HomeInv, Home, Inodes

\* fopen "wb" as seen from the file system.
OpenInode(p) == IF dir[Target(p, stage[p])] = Absent
                  THEN <<p, stage[p]>>
                  ELSE dir[Target(p, stage[p])]

LEMMA OpenEffect ==
  ASSUME TypeInv, HomeInv, NEW p \in Procs, Open(p)
  PROVE  /\ Target(p, stage[p]) \in Files
         /\ OpenInode(p) \in Inodes
         /\ Home(OpenInode(p)) = Target(p, stage[p])
         /\ dir' = [dir EXCEPT ![Target(p, stage[p])] = OpenInode(p)]
         /\ data' = [data EXCEPT ![OpenInode(p)] = Content(p, stage[p], FALSE)]
         /\ handle' = [handle EXCEPT ![p] = OpenInode(p)]
         /\ pc' = [pc EXCEPT ![p] = "fill"]
         /\ UNCHANGED <<stage, undo, status, stuck>>
<1>1. Target(p, stage[p]) \in Files
  BY PathType DEF TypeInv, StageOK, Target
<1>2. OpenInode(p) \in Inodes /\ Home(OpenInode(p)) = Target(p, stage[p])
  BY <1>1, InodeAssumption
     DEF OpenInode, TypeInv, TypeOK, Inodes, HomeInv, Home
<1>3. /\ dir' = [dir EXCEPT ![Target(p, stage[p])] = OpenInode(p)]
      /\ data' = [data EXCEPT ![OpenInode(p)] = Content(p, stage[p], FALSE)]
      /\ handle' = [handle EXCEPT ![p] = OpenInode(p)]
  BY DEF Open, Target, OpenInode
<1> QED BY <1>1, <1>2, <1>3 DEF Open, Goto

\* A step of one process leaves the control state of the others alone.
LEMMA OthersStay ==
  ASSUME TypeInv, NEW q \in Procs, Step(q) \/ Kill(q) \/ KillWritten(q), NEW p \in Procs \ {q}
  PROVE  /\ pc'[p] = pc[p] /\ stage'[p] = stage[p]
         /\ undo'[p] = undo[p] /\ status'[p] = status[p]
         /\ handle'[p] = handle[p]
<1>1. CASE Quiet(q)
  BY <1>1, QuietStep
<1>2. CASE Open(q) \/ Fill(q) \/ FillFails(q) \/ KillWritten(q)
  BY <1>2 DEF Open, Fill, FillFails, KillWritten, Goto, Exit, TypeInv, TypeOK
<1>3. CASE Unlink(q) \/ Undo(q)
  BY <1>3 DEF Unlink, Undo, WriteFailed, Goto, TypeInv, TypeOK
<1> QED BY <1>1, <1>2, <1>3 DEF Step, Quiet

LEMMA HomeStep ==
  ASSUME TypeInv, HomeInv, [Next]_vars
  PROVE  HomeInv'
<1>1. TypeInv' BY TypeInvStep
<1>2. \A i : Home(i)' = Home(i) BY PathsFixed
<1>3. \A p, k : Target(p, k)' = Target(p, k) BY PathsFixed
<1>4. CASE UNCHANGED vars
  BY <1>2, <1>3, <1>4 DEF HomeInv, vars
<1>5. ASSUME NEW p \in Procs, Quiet(p) PROVE HomeInv'
  <2>1. /\ UNCHANGED <<stage, dir, data>>
        /\ pc'[p] # "fill"
        /\ \A q \in Procs \ {p} : pc'[q] = pc[q] /\ handle'[q] = handle[q]
    BY <1>5, QuietStep
  <2> QED BY <2>1, <1>2, <1>3 DEF HomeInv
<1>6. ASSUME NEW p \in Procs, Open(p) PROVE HomeInv'
  <2> DEFINE f == Target(p, stage[p])
             i == OpenInode(p)
  <2>1. /\ f \in Files /\ i \in Inodes /\ Home(i) = f
        /\ dir' = [dir EXCEPT ![f] = i]
        /\ data' = [data EXCEPT ![i] = Content(p, stage[p], FALSE)]
        /\ handle' = [handle EXCEPT ![p] = i]
        /\ pc' = [pc EXCEPT ![p] = "fill"]
        /\ stage' = stage
    BY <1>6, OpenEffect
  <2>2. Content(p, stage[p], FALSE) # Absent
    BY ContentType DEF TypeInv, TypeOK
  <2> HIDE DEF f, i
  <2>3. \A g \in Files : dir'[g] # Absent => Home(dir'[g]) = g /\ data'[dir'[g]] # Absent
    BY <2>1, <2>2 DEF HomeInv, TypeInv, TypeOK
  <2>4. \A q \in Procs : pc'[q] = "fill" =>
          handle'[q] \in Inodes /\ Home(handle'[q]) = Target(q, stage[q])
    BY <2>1 DEF HomeInv, TypeInv, TypeOK, f
  <2> QED BY <2>1, <2>3, <2>4, <1>2, <1>3 DEF HomeInv
<1>7. ASSUME NEW p \in Procs, Fill(p) \/ FillFails(p) \/ KillWritten(p) PROVE HomeInv'
  <2>1. PICK w \in BOOLEAN :
          data' = [data EXCEPT ![handle[p]] = Content(p, stage[p], w)]
    BY <1>7 DEF Fill, FillFails, KillWritten
  <2>2. Content(p, stage[p], w) # Absent
    BY ContentType DEF TypeInv, TypeOK
  <2>3. /\ dir' = dir
        /\ pc'[p] # "fill"
        /\ \A q \in Procs \ {p} : /\ pc'[q] = pc[q] /\ handle'[q] = handle[q]
                                   /\ stage'[q] = stage[q]
    <3>1. CASE Fill(p)
      BY <3>1 DEF Fill, Goto, Exit, TypeInv, TypeOK
    <3>2. CASE FillFails(p) \/ KillWritten(p)
      BY <3>2 DEF FillFails, KillWritten, Goto, TypeInv, TypeOK
    <3> QED BY <1>7, <3>1, <3>2
  <2>4. \A g \in Files : dir[g] # Absent => data'[dir[g]] # Absent
    BY <2>1, <2>2 DEF HomeInv, TypeInv, TypeOK
  <2> QED BY <2>3, <2>4, <1>2, <1>3 DEF HomeInv
<1>8. ASSUME NEW p \in Procs, Unlink(p) \/ Undo(p) PROVE HomeInv'
  <2>1. /\ data' = data /\ handle' = handle /\ stage' = stage
        /\ \A q \in Procs : pc'[q] = "fill" => pc[q] = "fill"
    BY <1>8 DEF Unlink, Undo, WriteFailed, Goto, TypeInv, TypeOK
  <2>2. \A g \in Files : dir'[g] # Absent => dir'[g] = dir[g]
    BY <1>8 DEF Unlink, Undo, Remove, TypeInv, TypeOK
  <2> QED BY <2>1, <2>2, <1>2, <1>3 DEF HomeInv
<1> QED BY <1>4, <1>5, <1>6, <1>7, <1>8, NextCases

-----------------------------------------------------------------------------
(***************************************************************************)
(* Only a build of a good source reaches write_new_file, and what is not   *)
(* a process's content is still what the user put there.                   *)
(***************************************************************************)
Writing == {"probe", "open", "fill", "unlink", "undo"}

GoodBuild(p) == LET source == Entry(args[p].input)
                IN /\ args[p].cmd = "build"
                   /\ source \notin Unreadable
                   /\ Initially[source] # Absent
                   /\ Initially[source].kind = "good"

SourceInv ==
  /\ \A p \in Procs : pc[p] \in Writing => GoodBuild(p)
  /\ \A i \in Inodes : data[i] # Absent =>
       \/ i \in Files /\ data[i] = Initially[i]
       \/ data[i].by \in Procs /\ GoodBuild(data[i].by)

LEMMA SourceInit == Init => SourceInv
  BY DEF Init, SourceInv, Writing, Inodes

LEMMA SourceStep ==
  ASSUME TypeInv, HomeInv, SourceInv, [Next]_vars
  PROVE  SourceInv'
<1>1. \A p : GoodBuild(p)' = GoodBuild(p)
  BY PathsFixed DEF GoodBuild, Entry
<1>2. CASE UNCHANGED vars
  BY <1>1, <1>2 DEF SourceInv, vars
<1>3. ASSUME NEW p \in Procs, Quiet(p) PROVE SourceInv'
  <2>1. /\ data' = data
        /\ \A q \in Procs \ {p} : pc'[q] = pc[q]
    BY <1>3, QuietStep
  <2>2. ASSUME pc'[p] \in Writing PROVE GoodBuild(p)
    <3>1. CASE Compile(p)
      <4> DEFINE name == args[p].input
                 e == Entry(name)
      <4>1. /\ Opens(name)
            /\ ContentAt(name).by = "user"
            /\ ContentAt(name).kind = "good"
            /\ args[p].cmd = "build"
        BY <3>1, <2>2 DEF Compile, SourceVerdict, Goto, Exit, Writing,
                          TypeInv, TypeOK
      <4>2. e \in Files
        BY InvocationsAssumption, FileOfAssumption DEF TypeInv, TypeOK, Entry
      <4>3. /\ dir[e] \in Inodes /\ dir[e] \notin Unreadable
            /\ Home(dir[e]) = e /\ data[dir[e]] # Absent
        BY <4>1, <4>2 DEF Opens, HomeInv, TypeInv, TypeOK
      <4>4. dir[e] \in Files /\ data[dir[e]] = Initially[dir[e]]
        BY <4>1, <4>3, ProcsAssumption DEF SourceInv, ContentAt
      <4>5. dir[e] = e
        BY <4>3, <4>4 DEF Home
      <4> QED BY <4>1, <4>3, <4>4, <4>5 DEF GoodBuild, ContentAt
    <3>2. CASE pc[p] \in Writing
      BY <3>2 DEF SourceInv
    <3>3. pc[p] \in Writing \/ Compile(p)
      BY <1>3, <2>2 DEF Quiet, Main, TestHeader, TestCore, TestC, Probe,
           OpenFails, UndoDone, Inspect, Kill, Goto, Exit, Writing, TypeInv,
           TypeOK
    <3> QED BY <3>1, <3>2, <3>3
  <2> QED BY <2>1, <2>2, <1>1 DEF SourceInv
<1>4. ASSUME NEW p \in Procs, Open(p) \/ Fill(p) \/ FillFails(p) \/ KillWritten(p)
      PROVE  SourceInv'
  <2>1. \E i, w : data' = [data EXCEPT ![i] = Content(p, stage[p], w)]
    BY <1>4 DEF Open, Fill, FillFails, KillWritten
  <2>2. pc[p] \in Writing
    BY <1>4 DEF Open, Fill, FillFails, KillWritten, Writing
  <2>3. \A q \in Procs \ {p} : pc'[q] = pc[q]
    BY <1>4 DEF Open, Fill, FillFails, KillWritten, Goto, Exit, TypeInv, TypeOK
  <2>4. \A w : Content(p, stage[p], w).by = p
    BY DEF Content
  <2>5. GoodBuild(p)
    BY <2>2 DEF SourceInv
  <2>6. \A i \in Inodes : data'[i] # Absent =>
          \/ i \in Files /\ data'[i] = Initially[i]
          \/ data'[i].by \in Procs /\ GoodBuild(data'[i].by)
    BY <2>1, <2>4, <2>5 DEF SourceInv, TypeInv, TypeOK
  <2> QED BY <2>3, <2>5, <2>6, <1>1 DEF SourceInv
<1>5. ASSUME NEW p \in Procs, Unlink(p) \/ Undo(p) PROVE SourceInv'
  <2>1. /\ data' = data
        /\ \A q \in Procs : pc'[q] \in Writing => pc[q] \in Writing
    BY <1>5 DEF Unlink, Undo, WriteFailed, Goto, Writing, TypeInv, TypeOK
  <2> QED BY <2>1, <1>1 DEF SourceInv
<1> QED BY <1>2, <1>3, <1>4, <1>5, NextCases

-----------------------------------------------------------------------------
(***************************************************************************)
(* A path that write_new_file goes on to open, and every path a failure    *)
(* branch will remove, names no readable file of the user.                 *)
(***************************************************************************)
Protected == {f \in Files \ Unreadable : Initially[f] # Absent}

Claimed(p) ==
  CASE pc[p] = "probe" -> {j \in 1..3 : j < stage[p]}
    [] pc[p] \in {"open", "fill", "unlink"} -> {j \in 1..3 : j <= stage[p]}
    [] pc[p] = "undo" -> undo[p]
    [] OTHER -> {}

KeepInv ==
  /\ UserFilesKept
  /\ \A p \in Procs : \A k \in Claimed(p) : Target(p, k) \notin Protected

LEMMA KeepInit == Init => KeepInv
  BY DEF Init, KeepInv, UserFilesKept, Claimed, Inodes

LEMMA KeepStep ==
  ASSUME TypeInv, HomeInv, KeepInv, [Next]_vars
  PROVE  KeepInv'
<1>1. \A p, k : Target(p, k)' = Target(p, k) BY PathsFixed
<1>2. CASE UNCHANGED vars
  <2>1. \A p \in Procs : Claimed(p)' = Claimed(p)
    BY <1>2 DEF vars, Claimed
  <2> QED BY <1>1, <1>2, <2>1 DEF KeepInv, UserFilesKept, vars
<1>3. ASSUME NEW p \in Procs, Quiet(p) PROVE KeepInv'
  <2>1. /\ UNCHANGED <<dir, data, stage>>
        /\ \A q \in Procs \ {p} : pc'[q] = pc[q] /\ undo'[q] = undo[q]
    BY <1>3, QuietStep
  <2>2. \A q \in Procs \ {p} : Claimed(q)' = Claimed(q)
    BY <2>1 DEF Claimed
  <2>3. \A k \in Claimed(p)' : Target(p, k) \notin Protected
    <3>1. CASE Probe(p)
      <4>1. CASE path_exists(Path(p, stage[p]))
        BY <3>1, <4>1 DEF Probe, WriteFailed, Goto, Earlier, Claimed, KeepInv,
                          TypeInv, TypeOK
      <4>2. CASE ~path_exists(Path(p, stage[p]))
        <5>1. Target(p, stage[p]) \notin Protected
          BY <4>2, InodeAssumption
             DEF path_exists, Opens, KeepInv, UserFilesKept, Protected, Target, Inodes
        <5>2. Claimed(p)' = {j \in 1..3 : j <= stage[p]}
          BY <3>1, <4>2, <2>1 DEF Probe, Goto, Claimed, TypeInv, TypeOK
        <5>3. Claimed(p) = {j \in 1..3 : j < stage[p]}
          BY <3>1 DEF Probe, Claimed
        <5> QED BY <5>1, <5>2, <5>3 DEF KeepInv, TypeInv, TypeOK
      <4> QED BY <4>1, <4>2
    <3>2. CASE OpenFails(p)
      BY <3>2 DEF OpenFails, WriteFailed, Goto, Earlier, Claimed, KeepInv,
                  TypeInv, TypeOK
    <3>3. CASE Compile(p)
      <4>1. stage[p] = 1 /\ pc'[p] \in {"probe", "exit"} /\ stage' = stage
        BY <3>3 DEF Compile, Goto, Exit, TypeInv, TypeOK, StageOK
      <4>2. Claimed(p)' = {}
        BY <4>1 DEF Claimed
      <4> QED BY <4>2
    <3>4. CASE ~Probe(p) /\ ~OpenFails(p) /\ ~Compile(p)
      <4>1. Claimed(p)' = {}
        BY <1>3, <3>4 DEF Quiet, Main, TestHeader, TestCore, TestC, UndoDone,
             Inspect, Kill, Goto, Exit, Claimed, TypeInv, TypeOK
      <4> QED BY <4>1
    <3> QED BY <3>1, <3>2, <3>3, <3>4
  <2> QED BY <2>1, <2>2, <2>3, <1>1 DEF KeepInv, UserFilesKept
<1>4. ASSUME NEW p \in Procs, Open(p) PROVE KeepInv'
  <2> DEFINE f == Target(p, stage[p])
             i == IF dir[f] = Absent THEN <<p, stage[p]>> ELSE dir[f]
  <2>1. f \in Files /\ f \notin Protected
    BY <1>4, PathType DEF TypeInv, TypeOK, StageOK, Target, KeepInv, Claimed, Open
  <2>2. i \notin Files \/ i = f
    BY <2>1, InodeAssumption DEF TypeInv, TypeOK, HomeInv, Home, Inodes
  <2>3. /\ dir' = [dir EXCEPT ![f] = i]
        /\ data' = [data EXCEPT ![i] = Content(p, stage[p], FALSE)]
    BY <1>4 DEF Open, Target
  <2>4. \A g \in Protected : dir'[g] = dir[g] /\ data'[g] = data[g]
    BY <2>1, <2>2, <2>3 DEF Protected, TypeInv, TypeOK, Inodes
  <2>5. \A q \in Procs : Claimed(q)' = Claimed(q)
    BY <1>4 DEF Open, Goto, Claimed, TypeInv, TypeOK
  <2> QED BY <2>4, <2>5, <1>1 DEF KeepInv, UserFilesKept, Protected
<1>5. ASSUME NEW p \in Procs, Fill(p) \/ FillFails(p) \/ KillWritten(p) PROVE KeepInv'
  <2>1. /\ dir' = dir
        /\ \E w : data' = [data EXCEPT ![handle[p]] = Content(p, stage[p], w)]
    BY <1>5 DEF Fill, FillFails, KillWritten
  <2>2. handle[p] \notin Protected
    <3>1. stage[p] \in Claimed(p) /\ Home(handle[p]) = Target(p, stage[p])
      <4>1. pc[p] = "fill"
        BY <1>5 DEF Fill, FillFails, KillWritten
      <4>2. Claimed(p) = {j \in 1..3 : j <= stage[p]}
        BY <4>1 DEF Claimed
      <4> QED BY <4>1, <4>2 DEF HomeInv, TypeInv, TypeOK
    <3> QED BY <3>1 DEF KeepInv, Home, Protected
  <2>3. \A g \in Protected : data'[g] = data[g]
    BY <2>1, <2>2 DEF Protected, TypeInv, TypeOK, Inodes
  <2>4. \A q \in Procs : Claimed(q)' \subseteq Claimed(q)
    <3>1. CASE FillFails(p) \/ KillWritten(p)
      BY <3>1 DEF FillFails, KillWritten, Goto, Claimed, TypeInv, TypeOK
    <3>2. CASE Fill(p)
      <4>1. \A q \in Procs \ {p} : Claimed(q)' = Claimed(q)
        BY <3>2 DEF Fill, Goto, Exit, Claimed, TypeInv, TypeOK
      <4>2. Claimed(p) = {j \in 1..3 : j <= stage[p]}
        BY <3>2 DEF Fill, Claimed
      <4>3. CASE stage[p] + 1 \in Outputs(p)
        <5>1. pc'[p] = "probe" /\ stage'[p] = stage[p] + 1
          BY <3>2, <4>3 DEF Fill, Goto, TypeInv, TypeOK
        <5>2. Claimed(p)' = {j \in 1..3 : j < stage[p] + 1}
          BY <5>1 DEF Claimed
        <5> QED BY <4>1, <4>2, <5>2 DEF TypeInv, TypeOK
      <4>4. CASE stage[p] + 1 \notin Outputs(p)
        <5>1. pc'[p] = "exit"
          BY <3>2, <4>4 DEF Fill, Exit, TypeInv, TypeOK
        <5>2. Claimed(p)' = {}
          BY <5>1 DEF Claimed
        <5> QED BY <4>1, <5>2
      <4> QED BY <4>3, <4>4
    <3> QED BY <1>5, <3>1, <3>2
  <2> QED BY <2>1, <2>3, <2>4, <1>1 DEF KeepInv, UserFilesKept, Protected
<1>6. ASSUME NEW p \in Procs, Unlink(p) \/ Undo(p) PROVE KeepInv'
  <2>1. PICK k \in Claimed(p) : Remove(p, k)
    BY <1>6 DEF Unlink, Undo, Claimed, TypeInv, TypeOK
  <2>2. data' = data /\ \A g \in Protected : dir'[g] = dir[g]
    <3>1. data' = data
      BY <1>6 DEF Unlink, Undo
    <3> QED BY <2>1, <3>1 DEF Remove, KeepInv, Target, TypeInv, TypeOK, Protected
  <2>3. \A q \in Procs : Claimed(q)' \subseteq Claimed(q)
    <3>1. CASE Unlink(p)
      BY <3>1 DEF Unlink, WriteFailed, Goto, Earlier, Claimed, TypeInv, TypeOK
    <3>2. CASE Undo(p)
      BY <3>2 DEF Undo, Claimed, TypeInv, TypeOK
    <3> QED BY <1>6, <3>1, <3>2
  <2> QED BY <2>2, <2>3, <1>1 DEF KeepInv, UserFilesKept, Protected
<1> QED BY <1>2, <1>3, <1>4, <1>5, <1>6, NextCases

-----------------------------------------------------------------------------
(***************************************************************************)
(* What a process has written lies at the outputs it still answers for:    *)
(* the ones it has finished, the one it is writing, or the ones its        *)
(* failure branch has yet to remove.                                       *)
(***************************************************************************)
Pending(p) ==
  CASE pc[p] \in {"probe", "open"} -> {j \in 1..3 : j < stage[p]}
    [] pc[p] \in {"fill", "unlink"} -> {j \in 1..3 : j <= stage[p]}
    [] pc[p] = "undo" -> undo[p]
    [] \/ pc[p] = "killed"
       \/ pc[p] = "exit" /\ status[p] = "EXIT_OK" -> 1..3
    [] OTHER -> {}

CleanInv ==
  \A p \in Procs, f \in Files :
    (~stuck[p] /\ WroteEntry(p, f)) => \E k \in Pending(p) : f = Target(p, k)

LEMMA CleanInit == Init => CleanInv
<1> SUFFICES ASSUME Init, NEW p \in Procs, NEW f \in Files, WroteEntry(p, f)
             PROVE  FALSE
  BY DEF CleanInv
<1>1. Initially[f] \in Foreign /\ data[dir[f]] = Initially[f]
  BY InitiallyAssumption DEF Init, WroteEntry, Inodes
<1> QED BY <1>1, ProcsAssumption DEF WroteEntry, Foreign

\* Another process's step adds nothing to what p has written.
LEMMA OthersWriteTheirOwn ==
  ASSUME TypeInv, NEW q \in Procs, Step(q) \/ Kill(q) \/ KillWritten(q),
         NEW p \in Procs \ {q}, NEW f \in Files, WroteEntry(p, f)'
  PROVE  WroteEntry(p, f)
<1>1. \/ dir' = dir /\ data' = data
      \/ Open(q) \/ Fill(q) \/ FillFails(q) \/ KillWritten(q) \/ Unlink(q) \/ Undo(q)
  BY QuietStep DEF Step, Quiet
<1>2. CASE Open(q) \/ Fill(q) \/ FillFails(q) \/ KillWritten(q)
  <2>1. PICK i, w : data' = [data EXCEPT ![i] = Content(q, stage[q], w)]
    BY <1>2 DEF Open, Fill, FillFails, KillWritten
  <2>2. Content(q, stage[q], w).by = q
    BY DEF Content
  <2>3. CASE dir'[f] = dir[f]
    BY <2>1, <2>2, <2>3 DEF WroteEntry, TypeInv, TypeOK
  <2>4. CASE dir'[f] # dir[f]
    <3>1. Open(q)
      BY <1>2, <2>4 DEF Fill, FillFails, KillWritten
    <3>2. /\ dir'[f] = <<q, stage[q]>>
          /\ data' = [data EXCEPT ![<<q, stage[q]>>] = Content(q, stage[q], FALSE)]
      BY <3>1, <2>4 DEF Open, TypeInv, TypeOK
    <3>3. <<q, stage[q]>> \in Inodes
      BY DEF Inodes, TypeInv, TypeOK
    <3>4. data'[dir'[f]].by = q
      BY <3>2, <3>3 DEF TypeInv, TypeOK, Content
    <3> QED BY <3>4 DEF WroteEntry
  <2> QED BY <2>3, <2>4
<1>3. CASE Unlink(q) \/ Undo(q)
  <2>1. data' = data /\ (dir'[f] = dir[f] \/ dir'[f] = Absent)
    BY <1>3 DEF Unlink, Undo, Remove, TypeInv, TypeOK
  <2> QED BY <2>1 DEF WroteEntry
<1> QED BY <1>1, <1>2, <1>3 DEF WroteEntry

LEMMA CleanStep ==
  ASSUME TypeInv, HomeInv, CleanInv, [Next]_vars
  PROVE  CleanInv'
<1>1. \A p, k : Target(p, k)' = Target(p, k) BY PathsFixed
<1>2. TypeInv' /\ HomeInv' BY TypeInvStep, HomeStep
<1>3. CASE UNCHANGED vars
  <2>1. \A p \in Procs : Pending(p)' = Pending(p)
    BY <1>3 DEF Pending, vars
  <2> QED BY <1>1, <1>3, <2>1 DEF CleanInv, WroteEntry, vars
<1>4. ASSUME NEW q \in Procs, Step(q) \/ Kill(q) \/ KillWritten(q),
             NEW p \in Procs, NEW f \in Files, ~stuck'[p], WroteEntry(p, f)'
      PROVE  \E k \in Pending(p)' : f = Target(p, k)
  <2>1. ~stuck[p]
    BY <1>4 DEF Step, Main, TestHeader, TestCore, TestC, Compile, Probe,
         OpenFails, Open, Fill, FillFails, KillWritten, Unlink, Undo, UndoDone, Inspect,
         Kill, Remove, TypeInv, TypeOK
  <2>2. CASE p # q
    <3>1. WroteEntry(p, f)
      BY <1>4, <2>2, OthersWriteTheirOwn
    <3>2. /\ pc'[p] = pc[p] /\ stage'[p] = stage[p]
          /\ undo'[p] = undo[p] /\ status'[p] = status[p]
      BY <1>4, <2>2, OthersStay
    <3>3. Pending(p)' = Pending(p)
      BY <3>2 DEF Pending
    <3> QED BY <2>1, <3>1, <3>3 DEF CleanInv
  <2>3. CASE p = q /\ Quiet(p)
    <3>1. WroteEntry(p, f)
      BY <1>4, <2>3, QuietStep DEF WroteEntry
    <3>2. PICK k \in Pending(p) : f = Target(p, k)
      BY <2>1, <3>1 DEF CleanInv
    <3>3. k \in 1..3
      BY <3>2 DEF Pending, TypeInv, TypeOK
    <3>4. Pending(p) # {} BY <3>2
    <3>5. CASE Kill(p)
      <4>1. pc'[p] = "killed" BY <3>5 DEF Kill, TypeInv, TypeOK
      <4>2. Pending(p)' = 1..3 BY <4>1 DEF Pending
      <4> QED BY <3>2, <3>3, <4>2
    <3>6. CASE Probe(p) \/ OpenFails(p)
      <4>1. Pending(p) = {j \in 1..3 : j < stage[p]}
        BY <3>6 DEF Probe, OpenFails, Pending
      <4>2. stage' = stage BY <3>6 DEF Probe, OpenFails
      <4>3. \/ pc'[p] = "open"
            \/ pc'[p] = "undo" /\ undo'[p] = Earlier(stage[p])
        BY <3>6 DEF Probe, OpenFails, WriteFailed, Goto, TypeInv, TypeOK
      <4>4. CASE pc'[p] = "open"
        BY <3>2, <4>1, <4>2, <4>4 DEF Pending
      <4>5. CASE pc'[p] = "undo" /\ undo'[p] = Earlier(stage[p])
        <5>1. k \in Earlier(stage[p])
          BY <3>2, <3>3, <4>1 DEF Earlier, TypeInv, TypeOK
        <5> QED BY <3>2, <5>1, <4>5 DEF Pending
      <4> QED BY <4>3, <4>4, <4>5
    <3>7. CASE ~Kill(p) /\ ~Probe(p) /\ ~OpenFails(p)
      <4>1. Pending(p) = {}
        <5>1. \/ pc[p] \in {"main", "exists_header", "exists_core",
                            "exists_c", "compile", "inspect"}
              \/ pc[p] = "undo" /\ undo[p] = {}
          BY <2>3, <3>7 DEF Quiet, Main, TestHeader, TestCore, TestC, Compile,
               UndoDone, Inspect
        <5>2. pc[p] # "exit" => status[p] = "running"
          BY DEF TypeInv, StageOK
        <5> QED BY <5>1, <5>2 DEF Pending
      <4> QED BY <3>4, <4>1
    <3> QED BY <3>5, <3>6, <3>7
  <2>4. CASE p = q /\ (Open(p) \/ Fill(p) \/ FillFails(p) \/ KillWritten(p))
    <3>1. PICK i, w : /\ data' = [data EXCEPT ![i] = Content(p, stage[p], w)]
                      /\ i \in Inodes /\ Home(i) = Target(p, stage[p])
                      /\ dir'[f] # i => dir'[f] = dir[f]
      <4>1. CASE Open(p)
        <5>1. /\ Target(p, stage[p]) \in Files
              /\ dir' = [dir EXCEPT ![Target(p, stage[p])] = OpenInode(p)]
          BY <4>1, OpenEffect
        <5>2. dir'[f] # OpenInode(p) => dir'[f] = dir[f]
          BY <5>1 DEF TypeInv, TypeOK
        <5> QED BY <4>1, <5>2, OpenEffect
      <4>2. CASE Fill(p) \/ FillFails(p) \/ KillWritten(p)
        BY <4>2 DEF HomeInv, Fill, FillFails, KillWritten
      <4> QED BY <2>4, <4>1, <4>2
    <3>2. stage[p] \in Pending(p)' /\ Pending(p) \subseteq Pending(p)'
      <4>1. stage[p] \in 1..3 BY DEF TypeInv, TypeOK
      <4>2. Pending(p) \subseteq {j \in 1..3 : j <= stage[p]}
        <5>1. pc[p] \in {"open", "fill"}
          BY <2>4 DEF Open, Fill, FillFails, KillWritten
        <5>2. pc[p] = "open" => Pending(p) = {j \in 1..3 : j < stage[p]}
          BY DEF Pending
        <5>3. pc[p] = "fill" => Pending(p) = {j \in 1..3 : j <= stage[p]}
          BY DEF Pending
        <5> QED BY <4>1, <5>1, <5>2, <5>3
      <4>3. \/ pc'[p] \in {"fill", "unlink"} /\ stage'[p] = stage[p]
            \/ pc'[p] = "probe" /\ stage'[p] = stage[p] + 1
            \/ pc'[p] = "exit" /\ status'[p] = "EXIT_OK"
            \/ pc'[p] = "killed"
        <5>1. CASE Open(p)
          <6>1. pc' = [pc EXCEPT ![p] = "fill"] /\ stage' = stage
            BY <5>1, OpenEffect
          <6> QED BY <6>1 DEF TypeInv, TypeOK
        <5>2. CASE FillFails(p) \/ KillWritten(p)
          BY <5>2 DEF FillFails, KillWritten, Goto, TypeInv, TypeOK
        <5>3. CASE Fill(p)
          <6>1. CASE stage[p] + 1 \in Outputs(p)
            BY <5>3, <6>1 DEF Fill, Goto, TypeInv, TypeOK
          <6>2. CASE stage[p] + 1 \notin Outputs(p)
            BY <5>3, <6>2 DEF Fill, Exit, TypeInv, TypeOK
          <6> QED BY <6>1, <6>2
        <5> QED BY <2>4, <5>1, <5>2, <5>3
      <4>4. {j \in 1..3 : j <= stage[p]} \subseteq Pending(p)'
        BY <4>1, <4>3 DEF Pending
      <4> QED BY <4>1, <4>2, <4>4
    <3>3. CASE dir'[f] = i
      <4>1. Home(i) = f
        BY <1>2, <3>1, <3>3, PathsFixed, InodeAssumption DEF HomeInv
      <4> QED BY <4>1, <3>1, <3>2
    <3>4. CASE dir'[f] # i
      <4>1. dir'[f] = dir[f] BY <3>1, <3>4
      <4>2. WroteEntry(p, f)
        BY <1>4, <4>1, <3>4, <3>1 DEF WroteEntry, TypeInv, TypeOK
      <4> QED BY <4>2, <2>1, <3>2 DEF CleanInv
    <3> QED BY <3>3, <3>4
  <2>5. CASE p = q /\ (Unlink(p) \/ Undo(p))
    <3>1. PICK k0 \in 1..3 :
            /\ Remove(p, k0) /\ data' = data
            /\ \A j \in Pending(p) : j # k0 => j \in Pending(p)'
      <4>1. CASE Unlink(p)
        <5>1. /\ pc[p] = "unlink" /\ pc'[p] = "undo"
              /\ undo'[p] = Earlier(stage[p]) /\ data' = data
              /\ Remove(p, stage[p])
          BY <4>1 DEF Unlink, WriteFailed, Goto, TypeInv, TypeOK
        <5>2. \A j \in {j \in 1..3 : j <= stage[p]} :
                 j # stage[p] => j \in Earlier(stage[p])
          BY DEF Earlier, TypeInv, TypeOK
        <5>3. Pending(p) = {j \in 1..3 : j <= stage[p]}
              /\ Pending(p)' = Earlier(stage[p])
          BY <5>1 DEF Pending
        <5> QED BY <5>1, <5>2, <5>3 DEF TypeInv, TypeOK
      <4>2. CASE Undo(p)
        <5>1. PICK k \in undo[p] : /\ Remove(p, k)
                                   /\ undo'[p] = undo[p] \ {k}
          BY <4>2 DEF Undo, TypeInv, TypeOK
        <5>2. pc[p] = "undo" /\ pc'[p] = "undo" /\ data' = data /\ k \in 1..3
          BY <4>2 DEF Undo, TypeInv, TypeOK
        <5>3. Pending(p) = undo[p] /\ Pending(p)' = undo[p] \ {k}
          BY <5>1, <5>2 DEF Pending
        <5> QED BY <5>1, <5>2, <5>3
      <4> QED BY <2>5, <4>1, <4>2
    <3>2. dir' = [dir EXCEPT ![Target(p, k0)] = Absent]
      BY <3>1, <1>4 DEF Remove, Target, TypeInv, TypeOK
    <3>3. f # Target(p, k0) /\ dir'[f] = dir[f]
      BY <1>4, <3>2 DEF WroteEntry, TypeInv, TypeOK
    <3>4. WroteEntry(p, f)
      BY <1>4, <3>1, <3>3 DEF WroteEntry
    <3>5. PICK k \in Pending(p) : f = Target(p, k)
      BY <2>1, <3>4 DEF CleanInv
    <3> QED BY <3>1, <3>3, <3>5
  <2> QED BY <1>4, <2>2, <2>3, <2>4, <2>5 DEF Step, Quiet
<1> QED BY <1>1, <1>3, <1>4 DEF Next, CleanInv

-----------------------------------------------------------------------------
(***************************************************************************)
(* A build that shares no output with another one: everything it has       *)
(* finished stays delivered, the path it is about to open is free, and the *)
(* inode it has open is the one at its path.                               *)
(***************************************************************************)
Building(p) == args[p].cmd = "build" /\ Private(p)

DeliverInv ==
  \A p \in Procs : Building(p) =>
    /\ pc[p] \in {"probe", "open", "fill"} =>
         \A j \in 1..3 : j < stage[p] => Delivered(p, j)
    /\ pc[p] = "open" => dir[Target(p, stage[p])] = Absent
    /\ pc[p] = "fill" => /\ dir[Target(p, stage[p])] = handle[p]
                         /\ data[handle[p]] = Content(p, stage[p], FALSE)
    /\ status[p] = "EXIT_OK" => \A k \in Outputs(p) : Delivered(p, k)

LEMMA DeliverInit == Init => DeliverInv
  BY DEF Init, DeliverInv

\* No step of another process reaches an output of a private build.
LEMMA PrivateUntouched ==
  ASSUME TypeInv, HomeInv, SourceInv, NEW q \in Procs, Step(q) \/ Kill(q) \/ KillWritten(q),
         NEW p \in Procs \ {q}, Private(p), NEW k \in Outputs(p)
  PROVE  /\ dir'[Target(p, k)] = dir[Target(p, k)]
         /\ dir[Target(p, k)] # Absent =>
              data'[dir[Target(p, k)]] = data[dir[Target(p, k)]]
<1>1. Target(p, k) \in Files
  BY PathType DEF TypeInv, Target
<1>2. ASSUME pc[q] \in Writing, NEW j \in Outputs(q)
      PROVE  Target(p, k) # Target(q, j)
  <2>1. args[q].cmd = "build"
    BY <1>2 DEF SourceInv, GoodBuild
  <2>2. Targets(p) \cap Targets(q) = {}
    BY <2>1 DEF Private
  <2> QED BY <2>2 DEF Targets, Target
<1>3. stage[q] \in Outputs(q) BY DEF TypeInv, StageOK
<1>4. CASE Quiet(q)
  BY <1>4, QuietStep
<1>5. CASE Open(q)
  <2>1. /\ Target(q, stage[q]) \in Files
        /\ Home(OpenInode(q)) = Target(q, stage[q])
        /\ dir' = [dir EXCEPT ![Target(q, stage[q])] = OpenInode(q)]
        /\ data' = [data EXCEPT ![OpenInode(q)] = Content(q, stage[q], FALSE)]
    BY <1>5, OpenEffect
  <2>2. Target(p, k) # Target(q, stage[q])
    BY <1>2, <1>3, <1>5 DEF Open, Writing
  <2>3. dir[Target(p, k)] # Absent => dir[Target(p, k)] # OpenInode(q)
    BY <1>1, <2>1, <2>2 DEF HomeInv
  <2> QED BY <1>1, <2>1, <2>2, <2>3 DEF TypeInv, TypeOK
<1>6. CASE Fill(q) \/ FillFails(q) \/ KillWritten(q)
  <2>1. /\ dir' = dir
        /\ \E w : data' = [data EXCEPT ![handle[q]] = Content(q, stage[q], w)]
        /\ Home(handle[q]) = Target(q, stage[q])
    BY <1>6 DEF Fill, FillFails, KillWritten, HomeInv
  <2>2. Target(p, k) # Target(q, stage[q])
    BY <1>2, <1>3, <1>6 DEF Fill, FillFails, KillWritten, Writing
  <2>3. dir[Target(p, k)] # Absent => dir[Target(p, k)] # handle[q]
    BY <1>1, <2>1, <2>2 DEF HomeInv
  <2> QED BY <1>1, <2>1, <2>3 DEF TypeInv, TypeOK
<1>7. CASE Unlink(q) \/ Undo(q)
  <2>1. PICK j \in Outputs(q) : Remove(q, j)
    BY <1>7, <1>3 DEF Unlink, Undo, Outputs, TypeInv, TypeOK
  <2>2. Target(p, k) # Target(q, j)
    BY <1>2, <1>7 DEF Unlink, Undo, Writing
  <2>3. data' = data
    BY <1>7 DEF Unlink, Undo
  <2> QED BY <1>1, <2>1, <2>2, <2>3 DEF Remove, Target, TypeInv, TypeOK
<1> QED BY <1>4, <1>5, <1>6, <1>7 DEF Step, Quiet

\* While a private build writes an output, the earlier ones stay delivered.
LEMMA EarlierStay ==
  ASSUME TypeInv, HomeInv, DeliverInv, NEW p \in Procs, Building(p),
         Fill(p) \/ FillFails(p) \/ KillWritten(p), NEW j \in 1..3, j < stage[p]
  PROVE  Delivered(p, j)'
<1>1. /\ dir' = dir /\ args' = args /\ pc[p] = "fill"
      /\ \E w : data' = [data EXCEPT ![handle[p]] = Content(p, stage[p], w)]
  BY DEF Fill, FillFails, KillWritten
<1>2. /\ data[handle[p]] = Content(p, stage[p], FALSE)
      /\ Delivered(p, j)
  BY <1>1 DEF DeliverInv
<1>3. j \in Outputs(p)
  BY DEF TypeInv, TypeOK, StageOK, Outputs
<1>4. /\ dir[Target(p, j)] \in Inodes
      /\ data[dir[Target(p, j)]] = Content(p, j, TRUE)
  BY <1>2, <1>3, PathType DEF Delivered, Target, TypeInv, TypeOK
<1>5. dir[Target(p, j)] # handle[p]
  BY <1>2, <1>4 DEF Content
<1>6. data'[dir[Target(p, j)]] = data[dir[Target(p, j)]]
  BY <1>1, <1>4, <1>5 DEF TypeInv, TypeOK
<1>7. Target(p, j)' = Target(p, j)
  BY <1>1 DEF Target, Entry, Path
<1>8. dir[Target(p, j)] # Absent
  BY <1>2 DEF Delivered, Target
<1> QED BY <1>1, <1>4, <1>6, <1>7, <1>8 DEF Delivered, Target, Content

LEMMA DeliverStep ==
  ASSUME TypeInv, HomeInv, SourceInv, DeliverInv, [Next]_vars
  PROVE  DeliverInv'
<1>1. /\ args' = args
      /\ \A p, k : Target(p, k)' = Target(p, k)
  BY PathsFixed
<1>2. \A p : Outputs(p)' = Outputs(p) /\ (Building(p)' <=> Building(p))
  BY <1>1 DEF Outputs, HasHeader, Building, Private, Targets, Entry, Path
<1>3. CASE UNCHANGED vars
  <2>1. \A p, k : Delivered(p, k)' <=> Delivered(p, k)
    BY <1>1, <1>3 DEF Delivered, Target, vars
  <2>2. \A p \in Procs : Target(p, stage[p])' = Target(p, stage[p])
    BY <1>1, <1>3 DEF Target, Entry, Path, vars
  <2> QED BY <1>2, <1>3, <2>1, <2>2 DEF DeliverInv, Content, vars
<1>4. ASSUME NEW q \in Procs, Step(q) \/ Kill(q) \/ KillWritten(q),
             NEW p \in Procs, Building(p)
      PROVE  /\ pc'[p] \in {"probe", "open", "fill"} =>
                  \A j \in 1..3 : j < stage'[p] => Delivered(p, j)'
             /\ pc'[p] = "open" => dir'[Target(p, stage'[p])] = Absent
             /\ pc'[p] = "fill" =>
                  /\ dir'[Target(p, stage'[p])] = handle'[p]
                  /\ data'[handle'[p]] = Content(p, stage'[p], FALSE)
             /\ status'[p] = "EXIT_OK" =>
                  \A k \in Outputs(p) : Delivered(p, k)'
  <2>1. /\ stage[p] \in Outputs(p) /\ stage[p] \in 1..3
        /\ \A j \in 1..3 : j < stage[p] => j \in Outputs(p)
    BY DEF TypeInv, TypeOK, StageOK, Outputs
  <2>2. CASE p # q
    <3>1. \A k \in Outputs(p) :
            /\ dir'[Target(p, k)] = dir[Target(p, k)]
            /\ dir[Target(p, k)] # Absent =>
                 data'[dir[Target(p, k)]] = data[dir[Target(p, k)]]
      BY <1>4, <2>2, PrivateUntouched DEF Building
    <3>2. \A k \in Outputs(p) : Delivered(p, k) => Delivered(p, k)'
      BY <3>1, <1>1 DEF Delivered, Target
    <3>3. /\ pc'[p] = pc[p] /\ stage'[p] = stage[p]
          /\ status'[p] = status[p] /\ handle'[p] = handle[p]
      BY <1>4, <2>2, OthersStay
    <3>4. pc[p] = "fill" => handle[p] # Absent
      BY InodeAssumption DEF HomeInv
    <3>5. pc[p] = "fill" => /\ dir'[Target(p, stage[p])] = handle[p]
                           /\ data'[handle[p]] = Content(p, stage[p], FALSE)
      BY <1>4, <2>1, <3>1, <3>4 DEF DeliverInv
    <3>6. pc[p] = "open" => dir'[Target(p, stage[p])] = Absent
      BY <1>4, <2>1, <3>1 DEF DeliverInv
    <3>7. pc[p] \in {"probe", "open", "fill"} =>
            \A j \in 1..3 : j < stage[p] => Delivered(p, j)'
      BY <1>4, <2>1, <3>2 DEF DeliverInv
    <3>8. status[p] = "EXIT_OK" => \A k \in Outputs(p) : Delivered(p, k)'
      BY <1>4, <3>2 DEF DeliverInv
    <3> QED BY <3>3, <3>5, <3>6, <3>7, <3>8
  <2>3. CASE p = q /\ Quiet(p)
    <3>1. UNCHANGED <<stage, dir, data>> /\ pc'[p] # "fill"
      BY <2>3, QuietStep
    <3>2. \A k : Delivered(p, k)' <=> Delivered(p, k)
      BY <3>1, <1>1 DEF Delivered, Target
    <3>3. \/ pc'[p] \notin {"probe", "open"}
          \/ pc'[p] = "probe" /\ stage[p] = 1
          \/ Probe(p) /\ pc'[p] = "open" /\ ~path_exists(Path(p, stage[p]))
      BY <2>3 DEF Quiet, Main, TestHeader, TestCore, TestC, Compile, Probe,
           OpenFails, UndoDone, Inspect, Kill, WriteFailed, Goto, Exit,
           TypeInv, TypeOK, StageOK
    <3>4. ASSUME Probe(p), pc'[p] = "open", ~path_exists(Path(p, stage[p]))
          PROVE  /\ dir[Target(p, stage[p])] = Absent
                 /\ \A j \in 1..3 : j < stage[p] => Delivered(p, j)
      <4>1. Target(p, stage[p]) \in Files /\ Target(p, stage[p]) \notin Unreadable
        BY <2>1, <1>4, PathType
           DEF Building, Private, Targets, Target, TypeInv
      <4>2. dir[Target(p, stage[p])] \notin Unreadable
        BY <4>1, UnreadableAssumption, InodeAssumption
           DEF HomeInv, Home, Inodes
      <4> QED BY <1>4, <3>4, <4>2 DEF Probe, path_exists, Opens, Target, DeliverInv
    <3>5. status'[p] # "EXIT_OK"
      <4>1. status[p] # "EXIT_OK"
        BY <2>3 DEF Quiet, Main, TestHeader, TestCore, TestC, Compile, Probe,
             OpenFails, UndoDone, Inspect, Kill, TypeInv, StageOK
      <4> QED BY <2>3, <4>1, <1>4 DEF StageOK, Quiet, Main, TestHeader, TestCore, TestC,
            Compile, Probe, OpenFails, UndoDone, Inspect, Kill, WriteFailed,
            Goto, Exit, TypeInv, TypeOK, Building
    <3>6. /\ pc'[p] = "open" => dir'[Target(p, stage'[p])] = Absent
          /\ pc'[p] \in {"probe", "open"} =>
               \A j \in 1..3 : j < stage'[p] => Delivered(p, j)'
      BY <2>1, <3>1, <3>2, <3>3, <3>4
    <3> QED BY <3>1, <3>5, <3>6
  <2>4. CASE p = q /\ Open(p)
    <3> DEFINE f == Target(p, stage[p])
    <3>1. /\ f \in Files /\ OpenInode(p) \in Inodes
          /\ Home(OpenInode(p)) = f
          /\ dir' = [dir EXCEPT ![f] = OpenInode(p)]
          /\ data' = [data EXCEPT ![OpenInode(p)] = Content(p, stage[p], FALSE)]
          /\ handle' = [handle EXCEPT ![p] = OpenInode(p)]
          /\ pc' = [pc EXCEPT ![p] = "fill"]
          /\ UNCHANGED <<stage, status>>
      BY <2>4, OpenEffect
    <3>2. /\ dir[f] = Absent
          /\ \A j \in 1..3 : j < stage[p] => Delivered(p, j)
      BY <1>4, <2>4 DEF DeliverInv, Open
    <3>3. ASSUME NEW j \in 1..3, j < stage[p] PROVE Delivered(p, j)'
      <4>1. Delivered(p, j) /\ Target(p, j) \in Files
        BY <2>1, <3>2, <3>3, PathType DEF TypeInv, Target
      <4>2. dir[Target(p, j)] # Absent
        BY <4>1 DEF Delivered, Target
      <4>3. Target(p, j) # f /\ dir[Target(p, j)] # OpenInode(p)
        BY <3>1, <3>2, <4>1, <4>2 DEF HomeInv
      <4>4. /\ dir'[Target(p, j)] = dir[Target(p, j)]
            /\ data'[dir[Target(p, j)]] = data[dir[Target(p, j)]]
        BY <3>1, <4>1, <4>2, <4>3 DEF TypeInv, TypeOK
      <4> QED BY <1>1, <4>1, <4>4 DEF Delivered, Target
    <3>4. /\ pc'[p] = "fill" /\ stage'[p] = stage[p]
          /\ dir'[f] = OpenInode(p) /\ handle'[p] = OpenInode(p)
          /\ data'[OpenInode(p)] = Content(p, stage[p], FALSE)
          /\ status'[p] # "EXIT_OK"
      BY <2>4, <3>1 DEF TypeInv, TypeOK, StageOK, Open
    <3> QED BY <1>1, <3>3, <3>4
  <2>5. CASE p = q /\ Fill(p)
    <3>1. /\ dir' = dir /\ args' = args
          /\ data' = [data EXCEPT ![handle[p]] = Content(p, stage[p], TRUE)]
          /\ pc[p] = "fill" /\ handle[p] \in Inodes
      BY <2>5 DEF Fill, HomeInv
    <3>2. /\ dir[Target(p, stage[p])] = handle[p]
          /\ data[handle[p]] = Content(p, stage[p], FALSE)
      BY <1>4, <3>1 DEF DeliverInv
    <3>3. ASSUME NEW j \in 1..3, j <= stage[p] PROVE Delivered(p, j)'
      <4>1. CASE j = stage[p]
        <5>1. data'[handle[p]] = Content(p, j, TRUE) /\ handle[p] # Absent
          BY <3>1, <4>1, InodeAssumption DEF TypeInv, TypeOK
        <5>2. dir'[Entry(Path(p, j))] = handle[p]
          BY <3>1, <3>2, <4>1 DEF Target
        <5>3. Entry(Path(p, j))' = Entry(Path(p, j))
          BY <3>1 DEF Entry, Path
        <5> QED BY <5>1, <5>2, <5>3 DEF Delivered, Content
      <4>2. CASE j < stage[p]
        BY <1>4, <2>5, <4>2, EarlierStay
      <4> QED BY <3>3, <4>1, <4>2, <2>1
    <3>4. CASE stage[p] + 1 \in Outputs(p)
      <4>1. /\ pc'[p] = "probe" /\ stage'[p] = stage[p] + 1
            /\ status'[p] = status[p] /\ status[p] # "EXIT_OK"
        BY <2>5, <3>4 DEF Fill, Goto, TypeInv, TypeOK, StageOK
      <4> QED BY <2>1, <3>3, <4>1
    <3>5. CASE stage[p] + 1 \notin Outputs(p)
      <4>1. pc'[p] = "exit"
        BY <2>5, <3>5 DEF Fill, Exit, TypeInv, TypeOK
      <4>2. \A k \in Outputs(p) : k \in 1..3 /\ k <= stage[p]
        BY <2>1, <3>5 DEF Outputs
      <4> QED BY <1>2, <3>3, <4>1, <4>2
    <3> QED BY <3>4, <3>5
  <2>6. CASE p = q /\ (FillFails(p) \/ KillWritten(p) \/ Unlink(p) \/ Undo(p))
    <3>1. pc'[p] \notin {"probe", "open", "fill"} /\ status'[p] # "EXIT_OK"
      BY <2>6 DEF FillFails, KillWritten, Unlink, Undo, WriteFailed, Goto, TypeInv,
                  TypeOK, StageOK
    <3> QED BY <3>1
  <2> QED BY <1>4, <2>2, <2>3, <2>4, <2>5, <2>6 DEF Step, Quiet
<1>5. \A p \in Procs : Target(p, stage[p])' = Target(p, stage'[p])
  BY <1>1 DEF Target, Entry, Path
<1> QED BY <1>2, <1>3, <1>4, <1>5 DEF Next, DeliverInv, Content

-----------------------------------------------------------------------------
(***************************************************************************)
(* Headers.  A process has written a complete header only while it works   *)
(* on its third output; and as long as no remove() of it has failed, it    *)
(* stands at its path only where the core and the C do: when fclose has    *)
(* reported an error and the header is about to go, or at the end.         *)
(***************************************************************************)
HeaderData ==
  \A p \in Procs, i \in Inodes : data[i] = Content(p, 3, TRUE) => stage[p] = 3

HeaderPath ==
  \A p \in Procs :
    (Building(p) /\ HasHeader(p) /\ Delivered(p, 3) /\ ~stuck[p])
      => /\ pc[p] \in {"unlink", "exit", "killed"}
         /\ Delivered(p, 1) /\ Delivered(p, 2)

LEMMA HeaderDataInit == Init => HeaderData
<1> SUFFICES ASSUME Init, NEW p \in Procs, NEW i \in Inodes,
                    data[i] = Content(p, 3, TRUE)
             PROVE  FALSE
  BY DEF HeaderData
<1>1. Content(p, 3, TRUE) # Absent /\ Content(p, 3, TRUE).by = p
  <2>1. 3 \in 1..3 /\ TRUE \in BOOLEAN
    OBVIOUS
  <2> QED BY <2>1, ContentType, Zenon
<1>2. data[i] \in Foreign
  BY <1>1, InitiallyAssumption DEF Init
<1> QED BY <1>1, <1>2, ProcsAssumption DEF Foreign

LEMMA HeaderPathInit == Init => HeaderPath
<1> SUFFICES ASSUME Init, NEW p \in Procs, HasHeader(p), Delivered(p, 3)
             PROVE  FALSE
  BY DEF HeaderPath
<1>1. TypeInv /\ HeaderData
  BY TypeInvInit, HeaderDataInit
<1>2. Target(p, 3) \in Files
  BY <1>1, PathType DEF TypeInv, Outputs, Target
<1>3. dir[Target(p, 3)] \in Inodes /\ data[dir[Target(p, 3)]] = Content(p, 3, TRUE)
  BY <1>1, <1>2 DEF Delivered, Target, TypeInv, TypeOK
<1>4. stage[p] = 3
  BY <1>1, <1>3 DEF HeaderData
<1> QED BY <1>4 DEF Init

LEMMA HeaderDataStep ==
  ASSUME TypeInv, HeaderData, [Next]_vars
  PROVE  HeaderData'
<1>1. CASE UNCHANGED vars
  BY <1>1 DEF HeaderData, Content, vars
<1>2. ASSUME NEW q \in Procs, Step(q) \/ Kill(q) \/ KillWritten(q), NEW p \in Procs,
             NEW i \in Inodes, data'[i] = Content(p, 3, TRUE)
      PROVE  stage'[p] = 3
  <2>1. stage[p] = 3 => stage'[p] = 3
    <3>1. CASE p # q BY <1>2, <3>1, OthersStay
    <3>2. CASE p = q /\ Fill(p)
      BY <3>2 DEF Fill, Outputs
    <3>3. CASE p = q /\ ~Fill(p)
      BY <1>2, <3>3 DEF Step, Main, TestHeader, TestCore, TestC, Compile,
           Probe, OpenFails, Open, FillFails, Unlink, Undo, UndoDone,
           Inspect, Kill, KillWritten
    <3> QED BY <3>1, <3>2, <3>3
  <2>2. CASE data'[i] = data[i]
    BY <1>2, <2>1, <2>2 DEF HeaderData
  <2>3. CASE data'[i] # data[i]
    <3>1. Open(q) \/ Fill(q) \/ FillFails(q) \/ KillWritten(q)
      BY <1>2, <2>3, QuietStep DEF Step, Quiet, Unlink, Undo
    <3>2. PICK j, w : data' = [data EXCEPT ![j] = Content(q, stage[q], w)]
      BY <3>1 DEF Open, Fill, FillFails, KillWritten
    <3>3. data'[i] = Content(q, stage[q], w)
      BY <2>3, <3>2 DEF TypeInv, TypeOK
    <3>4. q = p /\ Kinds[stage[p]] = Kinds[3]
      BY <1>2, <3>3 DEF Content
    <3> QED BY <2>1, <3>4 DEF Kinds, TypeInv, TypeOK
  <2> QED BY <2>2, <2>3
<1>3. ASSUME NEW q \in Procs, Step(q) \/ Kill(q) \/ KillWritten(q)
      PROVE  HeaderData'
  BY <1>2, <1>3 DEF HeaderData, Content
<1> QED BY <1>1, <1>3 DEF Next

LEMMA HeaderPathStep ==
  ASSUME TypeInv, HomeInv, SourceInv, DeliverInv, HeaderData, HeaderPath, [Next]_vars
  PROVE  HeaderPath'
<1>1. /\ args' = args
      /\ \A p, k : Target(p, k)' = Target(p, k)
  BY PathsFixed
<1>2. \A p : (Building(p)' <=> Building(p)) /\ (HasHeader(p)' <=> HasHeader(p))
  BY <1>1 DEF Outputs, HasHeader, Building, Private, Targets, Entry, Path
<1>3. CASE UNCHANGED vars
  <2>1. \A p, k : Delivered(p, k)' <=> Delivered(p, k)
    BY <1>1, <1>3 DEF Delivered, Target, vars
  <2> QED BY <1>2, <1>3, <2>1 DEF HeaderPath, vars
<1>4. ASSUME NEW q \in Procs, Step(q) \/ Kill(q) \/ KillWritten(q),
             NEW p \in Procs, Building(p), HasHeader(p), Delivered(p, 3)', ~stuck'[p]
      PROVE  /\ pc'[p] \in {"unlink", "exit", "killed"}
             /\ Delivered(p, 1)' /\ Delivered(p, 2)'
  <2>1. /\ ~stuck[p]
        /\ p # q => stuck'[p] = stuck[p]
    BY <1>4 DEF Step, Main, TestHeader, TestCore, TestC, Compile, Probe,
         OpenFails, Open, Fill, FillFails, Unlink, Undo, UndoDone, Inspect,
         Kill, KillWritten, Remove, TypeInv, TypeOK
  <2>2. /\ Outputs(p) = {1, 2, 3}
        /\ \A k \in {1, 2, 3} : Target(p, k) \in Files
    <3>1. Outputs(p) = {1, 2, 3}
      BY <1>4 DEF Outputs
    <3> QED BY <3>1, PathType DEF TypeInv, Target
  <2>3. /\ dir'[Target(p, 3)] # Absent
        /\ data'[dir'[Target(p, 3)]] = Content(p, 3, TRUE)
    BY <1>1, <1>4 DEF Delivered, Target, Content
  <2>4. ASSUME dir'[Target(p, 3)] = dir[Target(p, 3)],
               data'[dir[Target(p, 3)]] = data[dir[Target(p, 3)]]
        PROVE  /\ pc[p] \in {"unlink", "exit", "killed"}
               /\ Delivered(p, 1) /\ Delivered(p, 2)
    <3>1. Delivered(p, 3)
      BY <2>3, <2>4 DEF Delivered, Target
    <3> QED BY <1>4, <2>1, <3>1 DEF HeaderPath
  <2>5. CASE p # q
    <3>1. \A k \in {1, 2, 3} :
            /\ dir'[Target(p, k)] = dir[Target(p, k)]
            /\ dir[Target(p, k)] # Absent =>
                 data'[dir[Target(p, k)]] = data[dir[Target(p, k)]]
      BY <1>4, <2>2, <2>5, PrivateUntouched DEF Building
    <3>2. \A k \in {1, 2, 3} : Delivered(p, k) => Delivered(p, k)'
      BY <3>1, <1>1 DEF Delivered, Target
    <3>3. pc'[p] = pc[p]
      BY <1>4, <2>5, OthersStay
    <3>4. /\ dir'[Target(p, 3)] = dir[Target(p, 3)]
          /\ data'[dir[Target(p, 3)]] = data[dir[Target(p, 3)]]
      BY <2>3, <3>1
    <3> QED BY <2>4, <3>2, <3>3, <3>4
  <2>6. CASE p = q /\ Quiet(p)
    <3>1. dir' = dir /\ data' = data
      BY <2>6, QuietStep
    <3>2. \A k : Delivered(p, k)' <=> Delivered(p, k)
      BY <3>1, <1>1 DEF Delivered, Target
    <3>3. pc[p] \in {"unlink", "exit", "killed"}
      BY <2>4, <3>1
    <3>4. pc'[p] = "killed"
      BY <2>6, <3>3 DEF Quiet, Main, TestHeader, TestCore, TestC, Compile, Probe,
           OpenFails, UndoDone, Inspect, Kill, TypeInv, TypeOK
    <3> QED BY <2>4, <3>1, <3>2, <3>4
  <2>7. CASE p = q /\ Open(p)
    <3>1. /\ dir' = [dir EXCEPT ![Target(p, stage[p])] = OpenInode(p)]
          /\ data' = [data EXCEPT ![OpenInode(p)] = Content(p, stage[p], FALSE)]
          /\ OpenInode(p) \in Inodes
      BY <2>7, OpenEffect
    <3>2. data'[OpenInode(p)] # Content(p, 3, TRUE)
      BY <3>1 DEF TypeInv, TypeOK, Content
    <3>3. dir'[Target(p, 3)] # OpenInode(p)
      BY <2>3, <3>2
    <3>4. dir'[Target(p, 3)] = dir[Target(p, 3)]
      BY <2>2, <3>1, <3>3 DEF TypeInv, TypeOK
    <3>5. data'[dir[Target(p, 3)]] = data[dir[Target(p, 3)]]
      BY <2>2, <2>3, <3>1, <3>3, <3>4 DEF TypeInv, TypeOK
    <3>6. pc[p] = "open"
      BY <2>7 DEF Open
    <3> QED BY <2>4, <3>4, <3>5, <3>6
  <2>8. CASE p = q /\ (Fill(p) \/ FillFails(p) \/ KillWritten(p))
    <3>1. PICK w : data' = [data EXCEPT ![handle[p]] = Content(p, stage[p], w)]
      BY <2>8 DEF Fill, FillFails, KillWritten
    <3>2. dir' = dir /\ pc[p] = "fill"
      BY <2>8 DEF Fill, FillFails, KillWritten
    <3>3. dir[Target(p, 3)] = handle[p]
      <4>1. CASE dir[Target(p, 3)] # handle[p]
        <5>1. data'[dir[Target(p, 3)]] = data[dir[Target(p, 3)]]
          BY <2>2, <2>3, <3>1, <3>2, <4>1 DEF TypeInv, TypeOK
        <5> QED BY <2>4, <3>2, <5>1
      <4> QED BY <4>1
    <3>4. stage[p] = 3
      <4>1. Content(p, stage[p], w) = Content(p, 3, TRUE)
        BY <2>2, <2>3, <3>1, <3>2, <3>3 DEF TypeInv, TypeOK
      <4> QED BY <4>1 DEF Content, Kinds, TypeInv, TypeOK
    <3>5. Delivered(p, 1)' /\ Delivered(p, 2)'
      BY <1>4, <2>8, <3>4, EarlierStay
    <3>6. pc'[p] \in {"unlink", "exit", "killed"}
      <4>1. stage[p] + 1 \notin Outputs(p)
        BY <2>2, <3>4
      <4>2. CASE Fill(p)
        BY <4>1, <4>2 DEF Fill, Exit, TypeInv, TypeOK
      <4>3. CASE FillFails(p)
        <5>1. pc'[p] = "unlink"
          BY <4>3 DEF FillFails, Goto, TypeInv, TypeOK
        <5> QED BY <5>1
      <4>4. CASE KillWritten(p)
        <5>1. pc'[p] = "killed"
          BY <4>4 DEF KillWritten, TypeInv, TypeOK
        <5> QED BY <5>1
      <4> QED BY <2>8, <4>2, <4>3, <4>4
    <3> QED BY <3>5, <3>6
  <2>9. CASE p = q /\ Unlink(p)
    <3>1. /\ dir' = [dir EXCEPT ![Target(p, stage[p])] = Absent]
          /\ data' = data
      BY <1>4, <2>9 DEF Unlink, Remove, Target, TypeInv, TypeOK
    <3>2. dir'[Target(p, 3)] = dir[Target(p, 3)] /\ dir[Target(p, 3)] \in Inodes
      BY <2>2, <2>3, <3>1 DEF TypeInv, TypeOK
    <3>3. stage[p] = 3
      BY <2>3, <3>1, <3>2 DEF HeaderData
    <3>4. dir'[Target(p, 3)] = Absent
      BY <2>2, <3>1, <3>3 DEF TypeInv, TypeOK
    <3> QED BY <2>3, <3>4
  <2>10. CASE p = q /\ Undo(p)
    <3>1. PICK k \in undo[p] : Remove(p, k)
      BY <2>10 DEF Undo
    <3>2. data' = data /\ pc[p] = "undo"
      BY <2>10 DEF Undo
    <3>3. dir'[Target(p, 3)] = dir[Target(p, 3)]
      BY <2>2, <2>3, <3>1 DEF Remove, Target, TypeInv, TypeOK
    <3> QED BY <2>4, <3>2, <3>3
  <2> QED BY <1>4, <2>5, <2>6, <2>7, <2>8, <2>9, <2>10 DEF Step, Quiet
<1>5. ASSUME NEW q \in Procs, Step(q) \/ Kill(q) \/ KillWritten(q)
      PROVE  HeaderPath'
  BY <1>2, <1>4, <1>5 DEF HeaderPath
<1> QED BY <1>3, <1>5 DEF Next

-----------------------------------------------------------------------------
(***************************************************************************)
(* The inductive invariant and the theorems.                               *)
(***************************************************************************)
BuildInv == /\ TypeInv
            /\ HomeInv
            /\ SourceInv
            /\ KeepInv
            /\ CleanInv
            /\ DeliverInv
            /\ HeaderData
            /\ HeaderPath

LEMMA BuildInvariant == Spec => []BuildInv
<1>1. Init => BuildInv
  BY TypeInvInit, HomeInit, SourceInit, KeepInit, CleanInit, DeliverInit,
     HeaderDataInit, HeaderPathInit DEF BuildInv
<1>2. BuildInv /\ [Next]_vars => BuildInv'
  BY TypeInvStep, HomeStep, SourceStep, KeepStep, CleanStep, DeliverStep,
     HeaderDataStep, HeaderPathStep DEF BuildInv
<1> QED BY <1>1, <1>2, PTL DEF Spec

\* build_command's exit 0 means that the requested files are there, complete,
\* for every build whose outputs are its own.
THEOREM SuccessIsComplete == Spec => []SuccessComplete
<1>1. BuildInv => SuccessComplete
  BY DEF BuildInv, DeliverInv, SuccessComplete, Building
<1> QED BY <1>1, BuildInvariant, PTL

\* A failing build leaves nothing it wrote, also when it races other builds.
THEOREM FailureIsClean == Spec => []FailureLeavesNothing
<1>1. BuildInv => FailureLeavesNothing
  <2> SUFFICES ASSUME BuildInv, NEW p \in Procs, pc[p] = "exit",
                      status[p] # "EXIT_OK", ~stuck[p], NEW f \in Files
               PROVE  ~WroteEntry(p, f)
    BY DEF FailureLeavesNothing
  <2>1. Pending(p) = {} BY DEF Pending
  <2> QED BY <2>1 DEF BuildInv, CleanInv
<1> QED BY <1>1, BuildInvariant, PTL

\* No build truncates, replaces or removes a readable file of the user.
THEOREM UserFilesAreKept == Spec => []UserFilesKept
<1>1. BuildInv => UserFilesKept
  BY DEF BuildInv, KeepInv
<1> QED BY <1>1, BuildInvariant, PTL

\* Every file a process owns at any moment comes from a build of a source
\* that every pass accepts.
THEOREM OnlyGoodSourcesAreWritten == Spec => []OnlyGoodSourcesWrite
<1>1. BuildInv => OnlyGoodSourcesWrite
  <2> SUFFICES ASSUME BuildInv, NEW p \in Procs, NEW f \in Files,
                      WroteEntry(p, f)
               PROVE  GoodBuild(p)
    BY DEF OnlyGoodSourcesWrite, GoodBuild
  <2>1. dir[f] \in Inodes /\ data[dir[f]] # Absent /\ data[dir[f]].by = p
    BY DEF WroteEntry, BuildInv, HomeInv, TypeInv, TypeOK
  <2>2. ~(dir[f] \in Files /\ data[dir[f]] = Initially[dir[f]])
    BY <2>1, InitiallyAssumption, ProcsAssumption DEF Foreign
  <2> QED BY <2>1, <2>2 DEF BuildInv, SourceInv
<1> QED BY <1>1, BuildInvariant, PTL

\* A complete header of a private build stands beside its complete core and C
\* at every moment, also after a failing fclose and through the rollback,
\* unless a remove() of that process failed.
THEOREM HeaderIsLast == Spec => []HeaderLast
<1>1. BuildInv => HeaderLast
  BY DEF BuildInv, HeaderPath, HeaderLast, Building
<1> QED BY <1>1, BuildInvariant, PTL
-----------------------------------------------------------------------------
(***************************************************************************)
(* Termination: how many steps a process has still before it, at most, by  *)
(* where it is, the output it works on and those it has to remove.         *)
(***************************************************************************)
StepsAt(place, k, u) ==
  IF place \in {"exit", "killed"} THEN 0
  ELSE IF place = "undo" THEN 1 + (IF 1 \in u THEN 1 ELSE 0) + (IF 2 \in u THEN 1 ELSE 0)
  ELSE IF place = "unlink" THEN 4
  ELSE IF place = "fill"   THEN 4 * (3 - k) + 5
  ELSE IF place = "open"   THEN 4 * (3 - k) + 6
  ELSE IF place = "probe"  THEN 4 * (3 - k) + 7
  ELSE IF place = "inspect" THEN 1
  ELSE IF place = "compile" THEN 16
  ELSE IF place = "exists_c" THEN 17
  ELSE IF place = "exists_core" THEN 18
  ELSE IF place = "exists_header" THEN 19
  ELSE 20

StepsLeft(p) == StepsAt(pc[p], stage[p], undo[p])

LEMMA StepsType ==
  ASSUME NEW a, NEW k \in 1..3, NEW u
  PROVE  StepsAt(a, k, u) \in 0..20
  BY DEF StepsAt

\* Where a process that is not killed may go next.
Onward(a, k, u, b, l, v) ==
  \/ a # "undo" /\ b = "exit"
  \/ a = "main" /\ b \in {"compile", "inspect", "exists_header", "exists_core"}
  \/ a = "exists_header" /\ b = "exists_core"
  \/ a = "exists_core" /\ b = "exists_c"
  \/ a = "exists_c" /\ b = "compile"
  \/ a = "compile" /\ b = "probe"
  \/ a = "probe" /\ b = "open" /\ l = k
  \/ a = "open" /\ b = "fill" /\ l = k
  \/ a = "fill" /\ b = "probe" /\ l = k + 1
  \/ a = "fill" /\ b = "unlink"
  \/ a \in {"probe", "open", "unlink"} /\ b = "undo"
  \/ a = "undo" /\ b = "undo" /\ \E j \in u \cap {1, 2} : v = u \ {j}
  \/ a = "undo" /\ b = "exit"

LEMMA OnwardFewer ==
  ASSUME NEW a \in Places \ {"exit", "killed"}, NEW k \in 1..3, NEW u,
         NEW b, NEW l \in 1..3, NEW v, Onward(a, k, u, b, l, v)
  PROVE  StepsAt(b, l, v) < StepsAt(a, k, u)
<1>1. CASE b = "exit"
  BY <1>1 DEF StepsAt, Places
<1>2. CASE a = "main" /\ b \in {"compile", "inspect", "exists_header", "exists_core"}
  BY <1>2 DEF StepsAt
<1>3. CASE \/ a = "exists_header" /\ b = "exists_core"
           \/ a = "exists_core" /\ b = "exists_c"
           \/ a = "exists_c" /\ b = "compile"
  BY <1>3 DEF StepsAt
<1>4. CASE a = "compile" /\ b = "probe"
  BY <1>4 DEF StepsAt
<1>5. CASE \/ a = "probe" /\ b = "open" /\ l = k
           \/ a = "open" /\ b = "fill" /\ l = k
  BY <1>5 DEF StepsAt
<1>6. CASE a = "fill" /\ b = "probe" /\ l = k + 1
  BY <1>6 DEF StepsAt
<1>7. CASE a = "fill" /\ b = "unlink"
  BY <1>7 DEF StepsAt
<1>8. CASE a \in {"probe", "open", "unlink"} /\ b = "undo"
  <2>1. StepsAt(b, l, v) <= 3
    BY <1>8 DEF StepsAt
  <2>2. StepsAt(a, k, u) >= 4
    BY <1>8 DEF StepsAt
  <2>3. StepsAt(b, l, v) \in Nat /\ StepsAt(a, k, u) \in Nat
    BY StepsType
  <2>4. QED
    BY <2>1, <2>2, <2>3
<1>9. CASE a = "undo" /\ b = "undo" /\ \E j \in u \cap {1, 2} : v = u \ {j}
  BY <1>9 DEF StepsAt
<1>10. QED
  BY <1>1, <1>2, <1>3, <1>4, <1>5, <1>6, <1>7, <1>8, <1>9 DEF Onward

\* Every step of a process moves it on.
LEMMA StepOnward ==
  ASSUME TypeInv, NEW p \in Procs, Step(p)
  PROVE  /\ pc[p] \notin {"exit", "killed"}
         /\ Onward(pc[p], stage[p], undo[p], pc'[p], stage'[p], undo'[p])
<1>0. /\ pc \in [Procs -> Places] /\ stage \in [Procs -> 1..3]
      /\ undo \in [Procs -> SUBSET {1, 2}]
  BY DEF TypeInv, TypeOK
<1> USE DEF Goto, Exit
<1>1. CASE Main(p)
  BY <1>0, <1>1 DEF Main, Onward
<1>2. CASE TestHeader(p)
  BY <1>0, <1>2 DEF TestHeader, Onward
<1>3. CASE TestCore(p)
  BY <1>0, <1>3 DEF TestCore, Onward
<1>4. CASE TestC(p)
  BY <1>0, <1>4 DEF TestC, Onward
<1>5. CASE Compile(p)
  <2>1. pc[p] = "compile" /\ pc'[p] \in {"exit", "probe"}
    BY <1>0, <1>5 DEF Compile
  <2>2. QED
    BY <2>1 DEF Onward
<1>6. CASE Probe(p)
  BY <1>0, <1>6 DEF Probe, WriteFailed, Onward
<1>7. CASE OpenFails(p)
  BY <1>0, <1>7 DEF OpenFails, WriteFailed, Onward
<1>8. CASE Open(p)
  BY <1>0, <1>8 DEF Open, Onward
<1>9. CASE Fill(p)
  BY <1>0, <1>9 DEF Fill, Onward
<1>10. CASE FillFails(p)
  BY <1>0, <1>10 DEF FillFails, Onward
<1>11. CASE Unlink(p)
  BY <1>0, <1>11 DEF Unlink, WriteFailed, Onward
<1>12. CASE Undo(p)
  BY <1>0, <1>12 DEF Undo, Onward
<1>13. CASE UndoDone(p)
  BY <1>0, <1>13 DEF UndoDone, Onward
<1>14. CASE Inspect(p)
  BY <1>0, <1>14 DEF Inspect, Onward
<1>15. QED
  BY <1>1, <1>2, <1>3, <1>4, <1>5, <1>6, <1>7, <1>8, <1>9, <1>10, <1>11,
     <1>12, <1>13, <1>14 DEF Step

\* No step of one process is a step of another.
LEMMA OnlyOneMoves ==
  ASSUME TypeInv, NEW p \in Procs, Step(p) \/ Kill(p) \/ KillWritten(p), NEW q \in Procs, q # p
  PROVE  StepsLeft(q)' = StepsLeft(q)
<1>1. /\ pc \in [Procs -> Places] /\ stage \in [Procs -> 1..3]
      /\ undo \in [Procs -> SUBSET {1, 2}]
  BY DEF TypeInv, TypeOK
<1>2. pc'[q] = pc[q] /\ stage'[q] = stage[q] /\ undo'[q] = undo[q]
  BY <1>1 DEF Step, Main, TestHeader, TestCore, TestC, Compile, Probe,
              OpenFails, Open, Fill, FillFails, KillWritten, Unlink, Undo, UndoDone, Inspect,
              Kill, WriteFailed, Goto, Exit
<1>3. QED
  BY <1>2 DEF StepsLeft

(***************************************************************************)
(* A process of sekic ends within twenty steps of main and build_command,  *)
(* whatever the other processes do and whichever calls fail: nothing is    *)
(* retried, and no process waits for another or makes it do more.          *)
(***************************************************************************)
ProcessesAreBounded ==
  /\ \A p \in Procs : StepsLeft(p) \in 0..20
  /\ \A p \in Procs : pc[p] \in {"exit", "killed"} <=> StepsLeft(p) = 0

StepsAreUsedUp ==
  \E p \in Procs : /\ StepsLeft(p)' < StepsLeft(p)
                   /\ \A q \in Procs \ {p} : StepsLeft(q)' = StepsLeft(q)

THEOREM ProcessesBounded ==
  Spec => /\ []ProcessesAreBounded
          /\ [][StepsAreUsedUp]_vars
<1>1. TypeInv => ProcessesAreBounded
  <2>1. ASSUME TypeInv, NEW p \in Procs
        PROVE  /\ StepsLeft(p) \in 0..20
               /\ pc[p] \in {"exit", "killed"} <=> StepsLeft(p) = 0
    <3>1. stage[p] \in 1..3 /\ pc[p] \in Places
      BY <2>1 DEF TypeInv, TypeOK
    <3>2. QED
      BY <3>1, StepsType DEF StepsLeft, StepsAt, Places
  <2>2. QED
    BY <2>1 DEF ProcessesAreBounded
<1>2. ASSUME TypeInv, TypeInv', Next PROVE StepsAreUsedUp
  <2>1. PICK p \in Procs : Step(p) \/ Kill(p) \/ KillWritten(p)
    BY <1>2 DEF Next
  <2>2. \A q \in Procs \ {p} : StepsLeft(q)' = StepsLeft(q)
    BY <1>2, <2>1, OnlyOneMoves
  <2>3. /\ stage[p] \in 1..3 /\ stage'[p] \in 1..3 /\ pc[p] \in Places
        /\ pc \in [Procs -> Places]
    BY <1>2 DEF TypeInv, TypeOK
  <2>4. ASSUME Step(p) PROVE StepsLeft(p)' < StepsLeft(p)
    <3>1. /\ pc[p] \in Places \ {"exit", "killed"}
          /\ Onward(pc[p], stage[p], undo[p], pc'[p], stage'[p], undo'[p])
      BY <1>2, <2>3, <2>4, StepOnward
    <3>2. StepsAt(pc'[p], stage'[p], undo'[p]) < StepsAt(pc[p], stage[p], undo[p])
      BY <2>3, <3>1, OnwardFewer
    <3>3. QED
      BY <3>2 DEF StepsLeft
  <2>5. ASSUME Kill(p) \/ KillWritten(p) PROVE StepsLeft(p)' < StepsLeft(p)
    <3>1. pc[p] \notin {"exit", "killed"} /\ pc'[p] = "killed"
      BY <2>3, <2>5 DEF Kill, KillWritten
    <3>2. StepsAt(pc'[p], stage'[p], undo'[p]) = 0
      BY <3>1 DEF StepsAt
    <3>3. StepsAt(pc[p], stage[p], undo[p]) >= 1
      BY <2>3, <3>1 DEF StepsAt, Places
    <3>4. StepsAt(pc[p], stage[p], undo[p]) \in 0..20
      BY <2>3, StepsType
    <3>5. StepsAt(pc'[p], stage'[p], undo'[p]) < StepsAt(pc[p], stage[p], undo[p])
      BY <3>2, <3>3, <3>4
    <3>6. QED
      BY <3>5 DEF StepsLeft
  <2>6. StepsLeft(p)' < StepsLeft(p)
    BY <2>1, <2>4, <2>5
  <2>7. QED
    BY <2>2, <2>6 DEF StepsAreUsedUp
<1>3. TypeInv /\ TypeInv' /\ [Next]_vars => [StepsAreUsedUp]_vars
  BY <1>2
<1>4. QED
  BY <1>1, <1>3, TypeInvInit, TypeInvStep, PTL DEF Spec
=============================================================================
