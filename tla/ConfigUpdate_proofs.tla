------------------------ MODULE ConfigUpdate_proofs ------------------------
(***************************************************************************)
(* Proofs about ConfigUpdate, for any number of jobs.                      *)
(***************************************************************************)
EXTENDS ConfigUpdate, TLAPS

Execs == [at : {"idle", "exists", "copy", "insert", "dump", "clear", "rollback"},
          n : 0..(MaxJobs + 1), force : BOOLEAN]

(* Where an execution is among its jobs.                                   *)
ExecInv ==
    /\ At("exists") => exec.n \in 1..(Len(jobs) + 1)
    /\ At("rollback") => exec.n \in 0..Len(jobs)
    /\ exec.at \in {"exists", "copy", "insert"} => disk # None
    /\ At("clear") => disk = mem

Published == {disk.hash[pl] : pl \in Platforms}

(* What is published is stored.                                            *)
StoredInv == disk # None => \A h \in Published : stored[h] = h

Quiet == disk # None /\ ~At("clear")

(* What the config in memory names is in the file or waits to be uploaded. *)
NamedInv ==
    Quiet => \A pl \in Platforms :
                \/ mem.hash[pl] \in Published
                \/ \E i \in DOMAIN jobs : jobs[i].hash = mem.hash[pl]

(* No rollback takes away what is published.                               *)
Undoable(j) ==
    /\ j.updated /\ ~j.backedUp => j.hash \notin Published
    /\ j.backedUp /\ j.backupPath # None /\ j.hash \in Published => backup[j.hash] = j.hash
UndoInv == Quiet => \A i \in DOMAIN jobs : Undoable(jobs[i])
InsertInv == disk # None /\ At("insert") /\ ~job.backedUp => job.hash \notin Published

(* What the jobs that are through with have uploaded is there.             *)
SentInv ==
    exec.at \in {"exists", "copy", "insert"} =>
       \A i \in DOMAIN jobs : i < exec.n => stored[jobs[i].hash] = jobs[i].hash
DumpInv == At("dump") => \A pl \in Platforms : stored[mem.hash[pl]] = mem.hash[pl]

StoreInv ==
    StoredInv /\ NamedInv /\ UndoInv /\ InsertInv /\ SentInv /\ DumpInv

Inv == TypeOK /\ ExecInv /\ (blame = {} => StoreInv)

-----------------------------------------------------------------------------
LEMMA JobTypes == TypeOK => jobs \in Seq(Jobs) /\ exec \in Execs /\ Len(jobs) \in 0..MaxJobs
BY ConfigUpdateConstants DEF TypeOK, Execs

LEMMA JobType ==
    ASSUME TypeOK, exec.n \in DOMAIN jobs
    PROVE  /\ job \in Jobs /\ job.hash \in Hashes /\ job.hash # None
           /\ job.updated \in BOOLEAN /\ job.backedUp \in BOOLEAN
           /\ job.backupPath \in {job.hash, None}
<1>1. job \in Jobs
  BY JobTypes DEF job
<1>2. job.backupPath \in {job.hash, None}
  BY DEF TypeOK, job
<1> QED BY <1>1, <1>2, ConfigUpdateConstants DEF Jobs

LEMMA EachJob ==
    ASSUME TypeOK, NEW i \in DOMAIN jobs
    PROVE  jobs[i] \in Jobs /\ jobs[i].hash \in Hashes
<1>1. jobs[i] \in Jobs
  BY JobTypes
<1> QED BY <1>1 DEF Jobs

(* What an update of one job leaves.                                       *)
LEMMA JobSet ==
    ASSUME jobs \in Seq(Jobs), NEW i \in DOMAIN jobs, NEW j \in Jobs,
           jobs' = [jobs EXCEPT ![i] = j]
    PROVE  /\ jobs' \in Seq(Jobs) /\ Len(jobs') = Len(jobs) /\ DOMAIN jobs' = DOMAIN jobs
           /\ jobs'[i] = j /\ \A k \in DOMAIN jobs : k # i => jobs'[k] = jobs[k]
OBVIOUS

LEMMA ExecMoves ==
    ASSUME TypeOK, NEW at \in {"idle", "exists", "copy", "insert", "dump", "clear", "rollback"}
    PROVE  /\ Goto(at) => /\ exec' \in Execs /\ exec'.at = at
                          /\ exec'.n = exec.n /\ exec'.force = exec.force
           /\ Raise => /\ exec' \in Execs /\ exec'.at = "rollback" /\ exec'.n = Len(jobs)
           /\ \A n \in 0..(MaxJobs + 1) : exec' = [exec EXCEPT !.at = at, !.n = n]
                 => exec' \in Execs /\ exec'.at = at /\ exec'.n = n
<1>1. exec \in Execs /\ Len(jobs) \in 0..(MaxJobs + 1)
  BY JobTypes, ConfigUpdateConstants
<1>2. ASSUME Goto(at) PROVE exec' \in Execs /\ exec'.at = at /\ exec'.n = exec.n
                            /\ exec'.force = exec.force
  <2>1. exec' = [exec EXCEPT !.at = at]
    BY <1>2 DEF Goto
  <2> QED BY <1>1, <2>1 DEF Execs
<1>3. ASSUME Raise PROVE exec' \in Execs /\ exec'.at = "rollback" /\ exec'.n = Len(jobs)
  <2>1. exec' = [exec EXCEPT !.at = "rollback", !.n = Len(jobs)]
    BY <1>3 DEF Raise
  <2> QED BY <1>1, <2>1 DEF Execs
<1>4. ASSUME NEW n \in 0..(MaxJobs + 1), exec' = [exec EXCEPT !.at = at, !.n = n]
      PROVE  exec' \in Execs /\ exec'.at = at /\ exec'.n = n
  BY <1>1, <1>4 DEF Execs
<1> QED BY <1>2, <1>3, <1>4

LEMMA InitInv == Init => Inv
<1> HAVE Init
<1>1. disk \in Configs /\ mem = disk /\ jobs = <<>> /\ exec = Idle
      /\ stored \in [Hashes -> Contents] /\ result = "none" /\ before = None /\ blame = {}
      /\ (\A pl \in Platforms : stored[disk.hash[pl]] = disk.hash[pl])
      /\ backup = [h \in Hashes \cup {None} |-> None]
  BY DEF Init
<1>2. exec \in Execs /\ exec.at = "idle"
  BY <1>1, ConfigUpdateConstants DEF Idle, Execs
<1>3. backup \in [Hashes \cup {None} -> Contents]
  BY <1>1 DEF Contents
<1>4. jobs \in Seq(Jobs) /\ Len(jobs) = 0 /\ DOMAIN jobs = {}
  BY <1>1
<1>5. TypeOK
  BY <1>1, <1>2, <1>3, <1>4, ConfigUpdateConstants DEF TypeOK, Execs, At
<1>6. ExecInv
  BY <1>2 DEF ExecInv, At
<1>7. StoreInv
  BY <1>1, <1>2, <1>4 DEF StoreInv, StoredInv, NamedInv, UndoInv, InsertInv, SentInv,
     DumpInv, Quiet, Published, At
<1> QED BY <1>5, <1>6, <1>7 DEF Inv

-----------------------------------------------------------------------------
(* The types, from those of the parts.                                     *)
LEMMA TypeParts ==
    ASSUME TypeOK, exec' \in Execs, jobs' \in Seq(Jobs), Len(jobs') <= MaxJobs,
           \A i \in DOMAIN jobs' : jobs'[i].backupPath \in {jobs'[i].hash, None},
           exec'.at \in {"copy", "insert"} => exec'.n \in DOMAIN jobs',
           mem' \in Configs, disk' \in Configs \cup {None},
           stored' \in [Hashes -> Contents],
           backup' \in [Hashes \cup {None} -> Contents],
           result' \in {"none", "clean", "true", "failed", "stuck"},
           before' \in [stored : [Hashes -> Contents], disk : Configs \cup {None}] \cup {None},
           blame' \subseteq {"shared", "retried", "interrupted"}
    PROVE  TypeOK'
BY DEF TypeOK, Execs, At

(* Only the execution moves on.                                            *)
LEMMA ExecStep ==
    ASSUME Inv, UNCHANGED <<mem, disk, jobs, cloud, before, blame>>, exec' \in Execs,
           result' \in {"none", "clean", "true", "failed", "stuck"}, ~At("clear"),
           exec'.at \in {"idle", "exists", "copy", "insert", "rollback"},
           exec'.at = "rollback" => exec'.n \in 0..Len(jobs),
           exec'.at \in {"exists", "copy", "insert"} =>
               At("exists") /\ exec'.n = exec.n /\ exec.n \in DOMAIN jobs,
           exec'.at = "insert" => stored[job.hash] = None
    PROVE  Inv'
<1>1. TypeOK'
  BY TypeParts, JobTypes DEF Inv, TypeOK, cloud
<1>2. ExecInv'
  BY JobTypes DEF Inv, ExecInv, At
<1>3. ASSUME blame = {} PROVE StoreInv'
  <2> USE DEF Inv
  <2>1. UNCHANGED <<mem, disk, jobs, stored, backup>> /\ Published' = Published
    BY DEF cloud, Published
  <2>2. StoredInv'
    BY <1>3, <2>1 DEF StoreInv, StoredInv
  <2>3. InsertInv'
    <3> SUFFICES ASSUME exec'.at = "insert", disk # None PROVE job.hash \notin Published
      BY <2>1 DEF job, InsertInv, At
    <3>1. stored[job.hash] = None /\ job.hash # None
      BY JobType
    <3> QED BY <1>3, <3>1 DEF StoreInv, StoredInv
  <2>4. Quiet' => Quiet
    BY <2>1 DEF Quiet, At
  <2>5. NamedInv'
    BY <1>3, <2>1, <2>4 DEF StoreInv, NamedInv
  <2>6. UndoInv'
    BY <1>3, <2>1, <2>4 DEF StoreInv, UndoInv, Undoable
  <2>7. SentInv'
    BY <1>3, <2>1 DEF StoreInv, SentInv, At
  <2>8. DumpInv'
    BY DEF DumpInv, At
  <2> QED BY <2>2, <2>3, <2>5, <2>6, <2>7, <2>8 DEF StoreInv
<1> QED BY <1>1, <1>2, <1>3 DEF Inv

(* The jobs keep their files.                                              *)
LEMMA NamedStep ==
    ASSUME NamedInv, Quiet' => Quiet, Published' = Published, mem' = mem,
           DOMAIN jobs' = DOMAIN jobs, \A i \in DOMAIN jobs : jobs'[i].hash = jobs[i].hash
    PROVE  NamedInv'
<1> SUFFICES ASSUME Quiet, NEW pl \in Platforms, mem.hash[pl] \notin Published
             PROVE  \E i \in DOMAIN jobs' : jobs'[i].hash = mem.hash[pl]
  BY DEF NamedInv
<1>1. PICK i \in DOMAIN jobs : jobs[i].hash = mem.hash[pl]
  BY DEF NamedInv
<1> QED BY <1>1

LEMMA ExistsInv == ASSUME Inv, Exists PROVE Inv'
<1>1. At("exists") /\ exec.n <= Len(jobs) /\ UNCHANGED <<mem, disk, jobs, cloud, before, blame>>
      /\ UNCHANGED result /\ TypeOK
  BY DEF Exists, Inv
<1>2. exec.n \in DOMAIN jobs /\ Len(jobs) \in 0..Len(jobs)
  BY <1>1, JobTypes DEF Inv, ExecInv
<1>3. result' \in {"none", "clean", "true", "failed", "stuck"} /\ ~At("clear")
  BY <1>1 DEF TypeOK, At
<1>4. CASE stored[job.hash] = None
  <2>1. exec' \in Execs /\ exec'.at = "insert" /\ exec'.n = exec.n
    BY <1>1, <1>4, ExecMoves DEF Exists
  <2> QED BY <1>1, <1>2, <1>3, <1>4, <2>1, ExecStep
<1>5. CASE stored[job.hash] # None /\ exec.force
  <2>1. exec' \in Execs /\ exec'.at = "copy" /\ exec'.n = exec.n
    BY <1>1, <1>5, ExecMoves DEF Exists
  <2> QED BY <1>1, <1>2, <1>3, <2>1, ExecStep
<1>6. CASE stored[job.hash] # None /\ ~exec.force
  <2>1. exec' \in Execs /\ exec'.at = "rollback" /\ exec'.n = Len(jobs)
    BY <1>1, <1>6, ExecMoves DEF Exists
  <2> QED BY <1>1, <1>2, <1>3, <2>1, ExecStep
<1> QED BY <1>4, <1>5, <1>6

LEMMA FailInv == ASSUME Inv, Fail PROVE Inv'
<1>1. exec' \in Execs /\ exec'.at = "rollback" /\ exec'.n = Len(jobs)
  BY ExecMoves DEF Fail, Inv
<1>2. Len(jobs) \in 0..Len(jobs)
  BY JobTypes DEF Inv
<1>3. /\ UNCHANGED <<mem, disk, jobs, cloud, before, blame>> /\ ~At("clear")
      /\ result' \in {"none", "clean", "true", "failed", "stuck"}
  BY DEF Fail, At, Inv, TypeOK
<1> QED BY <1>1, <1>2, <1>3, ExecStep

LEMMA IdleType == Idle \in Execs /\ Idle.at = "idle" /\ Idle.n = 0
BY ConfigUpdateConstants DEF Idle, Execs

LEMMA RollbackEndInv ==
    ASSUME Inv, NothingToUndo \/ RolledBack \/ RollbackFails PROVE Inv'
<1>1. /\ UNCHANGED <<mem, disk, jobs, cloud, before, blame>> /\ At("rollback")
  BY DEF NothingToUndo, RolledBack, RollbackFails
<1>2. CASE NothingToUndo
  <2>1. exec.n - 1 \in 0..Len(jobs) /\ exec.n - 1 \in 0..(MaxJobs + 1)
    BY <1>1, <1>2, JobTypes, ConfigUpdateConstants DEF NothingToUndo, Inv, ExecInv
  <2>2. exec' = [exec EXCEPT !.at = "rollback", !.n = exec.n - 1]
    BY <1>1, <1>2, JobTypes DEF NothingToUndo, At, Inv, Execs
  <2>3. exec' \in Execs /\ exec'.at = "rollback" /\ exec'.n = exec.n - 1
    BY <2>1, <2>2, ExecMoves DEF Inv
  <2>4. result' \in {"none", "clean", "true", "failed", "stuck"}
    BY <1>2 DEF NothingToUndo, Inv, TypeOK
  <2> QED BY <1>1, <2>1, <2>3, <2>4, ExecStep DEF At
<1>3. CASE RolledBack \/ RollbackFails
  <2>1. exec' = Idle /\ result' \in {"failed", "stuck"}
    BY <1>3 DEF RolledBack, RollbackFails, Return
  <2> QED BY <1>1, <2>1, IdleType, ExecStep DEF At
<1> QED BY <1>2, <1>3

-----------------------------------------------------------------------------
(* The steps of an upload.                                                 *)
LEMMA CopyInv == ASSUME Inv, Copy PROVE Inv'
<1> DEFINE j == [job EXCEPT !.backedUp = TRUE]
<1>1. At("copy") /\ exec.n \in DOMAIN jobs /\ UNCHANGED <<mem, disk, stored, result, before>>
      /\ exec.at = "copy" /\ blame' \subseteq {"shared", "retried", "interrupted"}
      /\ (blame' = {} => blame = {} /\ ~Remains(job))
  BY DEF Copy, Inv, TypeOK, At
<1>2. exec' \in Execs /\ exec'.at = "insert" /\ exec'.n = exec.n
  BY ExecMoves DEF Copy, Inv
<1>3. /\ j \in Jobs /\ j.hash = job.hash /\ j.updated = job.updated /\ j.backedUp = TRUE
      /\ j.backupPath = job.backupPath
  BY <1>1, JobType DEF Inv, Jobs
<1>4. jobs' = [jobs EXCEPT ![exec.n] = j]
  BY DEF Copy, job
<1> HIDE DEF j
<1>5. /\ jobs' \in Seq(Jobs) /\ Len(jobs') = Len(jobs) /\ DOMAIN jobs' = DOMAIN jobs
      /\ jobs'[exec.n] = j /\ \A k \in DOMAIN jobs : k # exec.n => jobs'[k] = jobs[k]
  BY <1>1, <1>3, <1>4, JobSet, JobTypes DEF Inv
<1>6. stored[job.hash] \in Contents /\ job.backupPath \in Hashes \cup {None}
      /\ backup \in [Hashes \cup {None} -> Contents]
      /\ backup' = [backup EXCEPT ![job.backupPath] = stored[job.hash]]
  BY <1>1, JobType DEF Copy, Inv, TypeOK
<1>7. TypeOK'
  <2>1. backup' \in [Hashes \cup {None} -> Contents]
    BY <1>6
  <2>2. \A i \in DOMAIN jobs' : jobs'[i].backupPath \in {jobs'[i].hash, None}
    BY <1>1, <1>3, <1>5, JobType DEF Inv, TypeOK
  <2> QED BY <1>1, <1>2, <1>5, <2>1, <2>2, TypeParts DEF Inv, TypeOK
<1>8. ExecInv'
  BY <1>1, <1>2, <1>5 DEF Inv, ExecInv, At
<1>9. ASSUME blame' = {} PROVE StoreInv'
  <2>1. blame = {} /\ Published' = Published /\ job' = j /\ StoreInv
    BY <1>1, <1>2, <1>5, <1>9 DEF Inv, Published, job
  <2>2. StoredInv' /\ DumpInv'
    BY <1>1, <1>2, <2>1 DEF StoreInv, StoredInv, DumpInv, At
  <2>3. \A i \in DOMAIN jobs : jobs'[i].hash = jobs[i].hash
    BY <1>3, <1>5 DEF job
  <2>4. NamedInv'
    <3>1. Quiet' => Quiet
      BY <1>1 DEF Quiet, At
    <3>2. DOMAIN jobs' = DOMAIN jobs /\ mem' = mem
      BY <1>1, <1>5
    <3> QED BY <2>1, <2>3, <3>1, <3>2, NamedStep DEF StoreInv
  <2>7. InsertInv'
    BY <1>3, <2>1 DEF InsertInv
  <2>8. SentInv'
    <3> SUFFICES ASSUME NEW i \in DOMAIN jobs, i < exec.n PROVE stored[jobs[i].hash] = jobs[i].hash
      BY <1>1, <1>2, <1>5, <2>3 DEF SentInv
    <3> QED BY <1>1, <2>1 DEF StoreInv, SentInv
  <2>5. ASSUME Quiet, NEW i \in DOMAIN jobs PROVE Undoable(jobs[i])'
    <3>1. ASSUME NEW h \in Published, h \in Hashes PROVE backup'[h] = backup[h] \/ backup'[h] = h
      <4>1. stored[h] = h
        BY <2>1, <2>5 DEF StoreInv, StoredInv, Quiet
      <4>2. job.backupPath = h => job.hash = h
        BY <1>1, JobType, ConfigUpdateConstants, <3>1 DEF Inv
      <4> QED BY <1>6, <4>1, <4>2
    <3>2. CASE i # exec.n
      <4>1. jobs'[i] = jobs[i] /\ Undoable(jobs[i]) /\ jobs[i].hash \in Hashes
        BY <1>5, <2>1, <2>5, <3>2, EachJob DEF StoreInv, UndoInv, Inv
      <4> QED BY <2>1, <3>1, <4>1 DEF Undoable
    <3>3. CASE i = exec.n
      <4>1. jobs'[i] = j /\ j.backedUp
        BY <1>3, <1>5, <3>3
      <4>2. j.backupPath # None /\ j.hash \in Published => backup'[j.hash] = j.hash
        <5> SUFFICES ASSUME j.backupPath # None, j.hash \in Published
                     PROVE  backup'[j.hash] = j.hash
          OBVIOUS
        <5>1. job.backupPath = job.hash /\ j.hash = job.hash
          BY <1>1, <1>3, JobType DEF Inv
        <5>2. stored[job.hash] = job.hash
          BY <2>1, <2>5, <5>1 DEF StoreInv, StoredInv, Quiet
        <5> QED BY <1>6, <5>1, <5>2
      <4> QED BY <2>1, <4>1, <4>2 DEF Undoable
    <3> QED BY <3>2, <3>3
  <2>6. UndoInv'
    BY <1>1, <1>2, <1>5, <2>5 DEF UndoInv, Quiet, At
  <2> QED BY <2>2, <2>4, <2>6, <2>7, <2>8 DEF StoreInv
<1> QED BY <1>7, <1>8, <1>9 DEF Inv

LEMMA InsertStep == ASSUME Inv, Insert PROVE Inv'
<1> DEFINE j == [job EXCEPT !.updated = TRUE]
<1>1. /\ exec.n \in DOMAIN jobs /\ UNCHANGED <<mem, disk, backup, result, before, blame>>
      /\ exec.at = "insert" /\ At("insert") /\ disk # None
  BY DEF Insert, Inv, TypeOK, ExecInv, At
<1>2. exec' \in Execs /\ exec'.at = "exists" /\ exec'.n = exec.n + 1
  <2>1. exec.n + 1 \in 0..(MaxJobs + 1)
    BY <1>1, JobTypes, ConfigUpdateConstants DEF Inv
  <2>2. exec' = [exec EXCEPT !.at = "exists", !.n = exec.n + 1]
    BY JobTypes DEF Insert, Inv, Execs
  <2> QED BY <2>1, <2>2, ExecMoves DEF Inv
<1>3. /\ j \in Jobs /\ j.hash = job.hash /\ j.updated = TRUE /\ j.backedUp = job.backedUp
      /\ j.backupPath = job.backupPath
  BY <1>1, JobType DEF Inv, Jobs
<1>4. jobs' = [jobs EXCEPT ![exec.n] = j]
  BY DEF Insert, job
<1> HIDE DEF j
<1>5. /\ jobs' \in Seq(Jobs) /\ Len(jobs') = Len(jobs) /\ DOMAIN jobs' = DOMAIN jobs
      /\ jobs'[exec.n] = j /\ \A k \in DOMAIN jobs : k # exec.n => jobs'[k] = jobs[k]
  BY <1>1, <1>3, <1>4, JobSet, JobTypes DEF Inv
<1>6. /\ job.hash \in Hashes /\ stored \in [Hashes -> Contents]
      /\ stored' = [stored EXCEPT ![job.hash] = job.hash] /\ job.hash \in Contents
  BY <1>1, JobType DEF Insert, Inv, TypeOK, Contents
<1>7. TypeOK'
  <2>1. stored' \in [Hashes -> Contents]
    BY <1>6
  <2>2. \A i \in DOMAIN jobs' : jobs'[i].backupPath \in {jobs'[i].hash, None}
    BY <1>1, <1>3, <1>5, JobType DEF Inv, TypeOK
  <2> QED BY <1>1, <1>2, <1>5, <2>1, <2>2, TypeParts DEF Inv, TypeOK
<1>8. ExecInv'
  BY <1>1, <1>2, <1>5, JobTypes DEF Inv, ExecInv, At
<1>10. \A h \in Hashes : stored[h] = h => stored'[h] = h
  BY <1>6
<1>9. ASSUME blame' = {} PROVE StoreInv'
  <2>1. blame = {} /\ Published' = Published /\ StoreInv
    BY <1>1, <1>9 DEF Inv, Published
  <2>2. StoredInv'
    <3>1. disk \in Configs
      BY <1>1 DEF Inv, TypeOK
    <3>2. Published \subseteq Hashes
      BY <3>1 DEF Published, Configs
    <3> QED BY <1>1, <1>10, <2>1, <3>2 DEF StoreInv, StoredInv
  <2>3. \A i \in DOMAIN jobs : jobs'[i].hash = jobs[i].hash
    BY <1>3, <1>5 DEF job
  <2>4. NamedInv'
    <3>1. Quiet' => Quiet
      BY <1>1 DEF Quiet, At
    <3>2. DOMAIN jobs' = DOMAIN jobs /\ mem' = mem
      BY <1>1, <1>5
    <3> QED BY <2>1, <2>3, <3>1, <3>2, NamedStep DEF StoreInv
  <2>5. ASSUME NEW i \in DOMAIN jobs PROVE Undoable(jobs[i])'
    <3>1. CASE i # exec.n
      <4>1. jobs'[i] = jobs[i] /\ Undoable(jobs[i])
        BY <1>1, <1>5, <2>1, <3>1 DEF StoreInv, UndoInv, Quiet, At
      <4> QED BY <1>1, <2>1, <4>1 DEF Undoable
    <3>2. CASE i = exec.n
      <4>1. jobs'[i] = j
        BY <1>5, <3>2
      <4>2. Undoable(job)
        BY <1>1, <2>1 DEF StoreInv, UndoInv, Quiet, At, job
      <4>3. ~job.backedUp => job.hash \notin Published
        BY <1>1, <2>1 DEF StoreInv, InsertInv
      <4> QED BY <1>1, <1>3, <2>1, <4>1, <4>2, <4>3 DEF Undoable
    <3> QED BY <3>1, <3>2
  <2>6. UndoInv'
    BY <1>5, <2>5 DEF UndoInv
  <2>7. InsertInv' /\ DumpInv'
    BY <1>2 DEF InsertInv, DumpInv, At
  <2>8. SentInv'
    <3> SUFFICES ASSUME NEW i \in DOMAIN jobs, i < exec.n + 1
                 PROVE  stored'[jobs[i].hash] = jobs[i].hash
      BY <1>2, <1>5, <2>3 DEF SentInv
    <3>1. jobs[i].hash \in Hashes
      BY EachJob DEF Inv
    <3>2. CASE i = exec.n
      BY <1>6, <3>2 DEF job
    <3>3. CASE i # exec.n
      <4>1. i < exec.n
        BY <3>3, JobTypes DEF Inv, Execs
      <4>2. stored[jobs[i].hash] = jobs[i].hash
        BY <1>1, <2>1, <4>1 DEF StoreInv, SentInv
      <4> QED BY <1>10, <3>1, <4>2
    <3> QED BY <3>2, <3>3
  <2> QED BY <2>2, <2>4, <2>6, <2>7, <2>8 DEF StoreInv
<1> QED BY <1>7, <1>8, <1>9 DEF Inv

-----------------------------------------------------------------------------
(* The config file.                                                        *)
LEMMA OpenConfigInv == ASSUME Inv, OpenConfig PROVE Inv'
<1>1. /\ exec.at = "exists" /\ exec.n > Len(jobs) /\ disk' = None
      /\ UNCHANGED <<mem, jobs, stored, backup, result, before, blame>>
  BY DEF OpenConfig, At, cloud
<1>2. exec' \in Execs /\ exec'.at = "dump"
  BY ExecMoves DEF OpenConfig, Inv
<1>3. TypeOK'
  BY <1>1, <1>2, JobTypes, TypeParts DEF Inv, TypeOK
<1>4. ExecInv'
  BY <1>2 DEF ExecInv, At
<1>5. ASSUME blame' = {} PROVE StoreInv'
  <2>1. StoreInv
    BY <1>1, <1>5 DEF Inv
  <2>2. StoredInv' /\ NamedInv' /\ UndoInv' /\ InsertInv' /\ SentInv'
    BY <1>1, <1>2 DEF StoredInv, NamedInv, UndoInv, InsertInv, SentInv, Quiet, At
  <2>3. ASSUME NEW pl \in Platforms PROVE stored[mem.hash[pl]] = mem.hash[pl]
    <3>1. disk # None /\ Quiet
      BY <1>1 DEF Inv, ExecInv, Quiet, At
    <3>2. CASE mem.hash[pl] \in Published
      BY <2>1, <3>1, <3>2 DEF StoreInv, StoredInv
    <3>3. CASE \E i \in DOMAIN jobs : jobs[i].hash = mem.hash[pl]
      <4>1. \A i \in DOMAIN jobs : i < exec.n
        BY <1>1, JobTypes DEF Inv, Execs
      <4> QED BY <1>1, <2>1, <3>3, <4>1 DEF StoreInv, SentInv
    <3> QED BY <2>1, <3>1, <3>2, <3>3 DEF StoreInv, NamedInv
  <2>4. DumpInv'
    BY <1>1, <2>3 DEF DumpInv
  <2> QED BY <2>2, <2>4 DEF StoreInv
<1> QED BY <1>3, <1>4, <1>5 DEF Inv

LEMMA DumpConfigInv == ASSUME Inv, DumpConfig PROVE Inv'
<1>1. /\ exec.at = "dump" /\ disk' = mem /\ mem \in Configs
      /\ UNCHANGED <<mem, jobs, stored, backup, result, before, blame>>
  BY DEF DumpConfig, At, cloud, Inv, TypeOK
<1>2. exec' \in Execs /\ exec'.at = "clear"
  BY ExecMoves DEF DumpConfig, Inv
<1>3. TypeOK'
  BY <1>1, <1>2, JobTypes, TypeParts DEF Inv, TypeOK
<1>4. ExecInv'
  BY <1>1, <1>2 DEF ExecInv, At
<1>5. ASSUME blame' = {} PROVE StoreInv'
  <2>1. \A pl \in Platforms : stored[mem.hash[pl]] = mem.hash[pl]
    BY <1>1, <1>5 DEF Inv, StoreInv, DumpInv, At
  <2>2. StoredInv'
    BY <1>1, <2>1 DEF StoredInv, Published
  <2>3. NamedInv' /\ UndoInv' /\ InsertInv' /\ SentInv' /\ DumpInv'
    BY <1>2 DEF NamedInv, UndoInv, InsertInv, SentInv, DumpInv, Quiet, At
  <2> QED BY <2>2, <2>3 DEF StoreInv
<1> QED BY <1>3, <1>4, <1>5 DEF Inv

(* The jobs are gone, and the config in memory is the one in the file.     *)
LEMMA EmptyStore ==
    ASSUME exec' = Idle, jobs' = <<>>, mem' = disk', StoredInv'
    PROVE  StoreInv' /\ ExecInv'
<1>1. exec'.at = "idle"
  BY IdleType
<1>2. DOMAIN jobs' = {}
  OBVIOUS
<1>3. NamedInv'
  BY DEF NamedInv, Published
<1>4. UndoInv'
  BY <1>2 DEF UndoInv
<1> QED BY <1>1, <1>3, <1>4 DEF StoreInv, ExecInv, InsertInv, SentInv, DumpInv, At

LEMMA EndInv == ASSUME Inv, Clear \/ Restart PROVE Inv'
<1>1. /\ exec' = Idle /\ jobs' = <<>> /\ before' = None
      /\ UNCHANGED <<disk, stored, backup, blame>> /\ mem' = disk'
      /\ result' \in {"none", "true"} /\ mem' \in Configs
  BY DEF Clear, Restart, Return, cloud, Inv, TypeOK, ExecInv
<1>2. jobs' \in Seq(Jobs) /\ Len(jobs') = 0 /\ DOMAIN jobs' = {}
  BY <1>1
<1>3. TypeOK'
  BY <1>1, <1>2, IdleType, TypeParts, ConfigUpdateConstants DEF Inv, TypeOK
<1>4. blame = {} => StoredInv'
  BY <1>1 DEF Inv, StoreInv, StoredInv, Published
<1>5. ExecInv'
  BY <1>1, IdleType DEF ExecInv, At
<1> QED BY <1>1, <1>3, <1>4, <1>5, EmptyStore DEF Inv

LEMMA InterruptAfterInv == ASSUME Inv, InterruptAfter PROVE Inv'
<1>1. exec' \in Execs /\ exec'.at = "rollback" /\ exec'.n = Len(jobs)
  BY ExecMoves DEF InterruptAfter, Inv
<1>2. UNCHANGED <<mem, disk, jobs, result, before>> /\ blame' = blame \cup {"interrupted"}
  BY DEF InterruptAfter
<1>3. stored' \in [Hashes -> Contents] /\ backup' \in [Hashes \cup {None} -> Contents]
  <2>1. stored \in [Hashes -> Contents] /\ backup \in [Hashes \cup {None} -> Contents]
    BY DEF Inv, TypeOK
  <2>2. CASE At("copy") /\ backup' = [backup EXCEPT ![job.backupPath] = stored[job.hash]]
                       /\ UNCHANGED stored
    <3>1. job.hash \in Hashes
      BY <2>2, JobType DEF Inv, TypeOK
    <3> QED BY <2>1, <2>2, <3>1
  <2>3. CASE At("insert") /\ stored' = [stored EXCEPT ![job.hash] = job.hash] /\ UNCHANGED backup
    <3>1. job.hash \in Hashes
      BY <2>3, JobType DEF Inv, TypeOK
    <3> QED BY <2>1, <2>3, <3>1 DEF Contents
  <2> QED BY <2>1, <2>2, <2>3 DEF InterruptAfter, cloud
<1>4. TypeOK'
  BY <1>1, <1>2, <1>3, JobTypes, TypeParts DEF Inv, TypeOK
<1>5. ExecInv'
  BY <1>1, <1>2, JobTypes DEF Inv, ExecInv, At
<1> QED BY <1>2, <1>4, <1>5 DEF Inv

-----------------------------------------------------------------------------
(* The steps of a rollback that take an upload back.                       *)
LEMMA UndoneJob ==
    ASSUME Inv, At("rollback"), exec.n > 0, Undone, exec' = [exec EXCEPT !.n = @ - 1]
    PROVE  /\ exec.n \in DOMAIN jobs
           /\ exec' \in Execs /\ exec'.at = "rollback" /\ exec'.n = exec.n - 1
           /\ exec'.n \in 0..Len(jobs')
           /\ jobs' \in Seq(Jobs) /\ Len(jobs') = Len(jobs) /\ DOMAIN jobs' = DOMAIN jobs
           /\ \A i \in DOMAIN jobs :
                 /\ jobs'[i].hash = jobs[i].hash
                 /\ jobs'[i].backupPath \in {jobs'[i].hash, None}
                 /\ i # exec.n => jobs'[i] = jobs[i]
           /\ ~jobs'[exec.n].updated
           /\ jobs'[exec.n].backedUp => jobs'[exec.n].backupPath = None
           /\ jobs'[exec.n].backedUp = job.backedUp
           /\ ~job.backedUp => jobs'[exec.n].backupPath = job.backupPath
<1> DEFINE j == [job EXCEPT !.updated = FALSE,
                            !.backupPath = IF job.backedUp THEN None ELSE job.backupPath]
<1>1. TypeOK /\ exec.n \in DOMAIN jobs /\ jobs \in Seq(Jobs)
  BY JobTypes DEF Inv, ExecInv
<1>2. exec' \in Execs /\ exec'.at = "rollback" /\ exec'.n = exec.n - 1
  <2>1. exec.n - 1 \in 0..(MaxJobs + 1)
    BY <1>1, JobTypes, ConfigUpdateConstants
  <2>2. exec' = [exec EXCEPT !.at = "rollback", !.n = exec.n - 1]
    BY <1>1, JobTypes DEF At, Execs
  <2> QED BY <1>1, <2>1, <2>2, ExecMoves
<1>3. /\ j \in Jobs /\ j.hash = job.hash /\ j.updated = FALSE
      /\ (j.backedUp => j.backupPath = None) /\ j.backupPath \in {j.hash, None}
      /\ j.backedUp = job.backedUp /\ (~job.backedUp => j.backupPath = job.backupPath)
  BY <1>1, JobType DEF Jobs
<1>4. jobs' = [jobs EXCEPT ![exec.n] = j]
  BY <1>1, JobTypes DEF Undone, job, Jobs
<1> HIDE DEF j
<1>5. /\ jobs' \in Seq(Jobs) /\ Len(jobs') = Len(jobs) /\ DOMAIN jobs' = DOMAIN jobs
      /\ jobs'[exec.n] = j /\ \A k \in DOMAIN jobs : k # exec.n => jobs'[k] = jobs[k]
  BY <1>1, <1>3, <1>4, JobSet
<1>6. \A i \in DOMAIN jobs : /\ jobs'[i].hash = jobs[i].hash
                             /\ jobs'[i].backupPath \in {jobs'[i].hash, None}
  BY <1>1, <1>3, <1>5 DEF TypeOK, job
<1>7. exec.n - 1 \in 0..Len(jobs)
  BY <1>1, JobTypes
<1> QED BY <1>1, <1>2, <1>3, <1>5, <1>6, <1>7

(* What an undone upload leaves of the invariant: nothing that is published*)
(* was taken away.                                                         *)
LEMMA UndoneInv ==
    ASSUME Inv, At("rollback"), exec.n > 0, Undone, exec' = [exec EXCEPT !.n = @ - 1],
           UNCHANGED <<mem, disk, backup, result, before>>,
           stored' \in [Hashes -> Contents], blame' \subseteq {"shared", "retried", "interrupted"},
           blame' = {} => blame = {},
           blame' = {} /\ disk # None => \A h \in Published : stored'[h] = h
    PROVE  Inv'
<1>1. /\ exec.n \in DOMAIN jobs
      /\ exec' \in Execs /\ exec'.at = "rollback" /\ exec'.n \in 0..Len(jobs')
      /\ jobs' \in Seq(Jobs) /\ Len(jobs') = Len(jobs) /\ DOMAIN jobs' = DOMAIN jobs
  BY UndoneJob
<1>2. \A i \in DOMAIN jobs : /\ jobs'[i].hash = jobs[i].hash
                             /\ jobs'[i].backupPath \in {jobs'[i].hash, None}
                             /\ i # exec.n => jobs'[i] = jobs[i]
  BY UndoneJob
<1>3. TypeOK'
  BY <1>1, <1>2, TypeParts DEF Inv, TypeOK
<1>4. ExecInv'
  BY <1>1 DEF ExecInv, At
<1>5. ASSUME blame' = {} PROVE StoreInv'
  <2>1. StoreInv /\ Published' = Published /\ (Quiet' => Quiet) /\ UNCHANGED <<disk, backup>>
    BY <1>1, <1>5 DEF Inv, Published, Quiet, At
  <2>2. StoredInv'
    BY <1>5, <2>1 DEF StoredInv
  <2>3. NamedInv'
    BY <1>1, <1>2, <2>1, NamedStep DEF StoreInv
  <2>4. ASSUME Quiet, NEW i \in DOMAIN jobs PROVE Undoable(jobs[i])'
    <3>1. CASE i # exec.n
      BY <1>2, <2>1, <2>4, <3>1 DEF StoreInv, UndoInv, Undoable
    <3>2. CASE i = exec.n
      <4>1. ~jobs'[i].updated /\ (jobs'[i].backedUp => jobs'[i].backupPath = None)
        BY <3>2, UndoneJob
      <4> QED BY <4>1 DEF Undoable
    <3> QED BY <3>1, <3>2
  <2>5. UndoInv'
    BY <1>1, <2>1, <2>4 DEF UndoInv
  <2>6. InsertInv' /\ SentInv' /\ DumpInv'
    BY <1>1 DEF InsertInv, SentInv, DumpInv, At
  <2> QED BY <2>2, <2>3, <2>5, <2>6 DEF StoreInv
<1> QED BY <1>3, <1>4, <1>5 DEF Inv

LEMMA RestoreInv == ASSUME Inv, Restore PROVE Inv'
<1>1. /\ At("rollback") /\ exec.n > 0 /\ Undone /\ exec' = [exec EXCEPT !.n = @ - 1]
      /\ UNCHANGED <<mem, disk, backup, result, before>> /\ job.backedUp
      /\ stored' = [stored EXCEPT ![job.hash] = backup[job.backupPath]]
  BY DEF Restore
<1>2. /\ blame' \subseteq {"shared", "retried", "interrupted"}
      /\ (blame' = {} => blame = {} /\ job.backupPath # None)
  BY DEF Restore, Inv, TypeOK
<1>3. exec.n \in DOMAIN jobs
  BY <1>1, JobTypes DEF Inv, ExecInv
<1>4. /\ job.hash \in Hashes /\ job.backupPath \in {job.hash, None}
      /\ stored \in [Hashes -> Contents] /\ backup[job.backupPath] \in Contents
  BY <1>3, JobType DEF Inv, TypeOK
<1>5. stored' \in [Hashes -> Contents]
  BY <1>1, <1>4
<1>6. ASSUME blame' = {}, disk # None, NEW h \in Published PROVE stored'[h] = h
  <2>1. StoreInv /\ Quiet /\ h \in Hashes
    BY <1>1, <1>2, <1>6 DEF Inv, TypeOK, Published, Configs, Quiet, At
  <2>2. stored[h] = h /\ Undoable(job)
    BY <1>3, <1>6, <2>1 DEF StoreInv, StoredInv, UndoInv, job
  <2>3. job.hash = h => backup[job.backupPath] = h
    BY <1>1, <1>2, <1>4, <1>6, <2>2 DEF Undoable
  <2> QED BY <1>1, <1>4, <2>1, <2>2, <2>3
<1> QED BY <1>1, <1>2, <1>5, <1>6, UndoneInv

LEMMA DeleteInv == ASSUME Inv, Delete PROVE Inv'
<1>1. /\ At("rollback") /\ exec.n > 0 /\ Undone /\ exec' = [exec EXCEPT !.n = @ - 1]
      /\ UNCHANGED <<mem, disk, backup, result, before, blame>>
      /\ job.updated /\ ~job.backedUp
      /\ stored' = [stored EXCEPT ![job.hash] = None]
  BY DEF Delete
<1>2. exec.n \in DOMAIN jobs
  BY <1>1, JobTypes DEF Inv, ExecInv
<1>3. stored' \in [Hashes -> Contents] /\ blame' \subseteq {"shared", "retried", "interrupted"}
      /\ stored \in [Hashes -> Contents]
  BY <1>1 DEF Inv, TypeOK, Contents
<1>4. ASSUME blame' = {}, disk # None, NEW h \in Published PROVE stored'[h] = h
  <2>1. StoreInv /\ Quiet /\ h \in Hashes
    BY <1>1, <1>4 DEF Inv, TypeOK, Published, Configs, Quiet, At
  <2>2. stored[h] = h /\ job.hash # h
    BY <1>1, <1>2, <1>4, <2>1 DEF StoreInv, StoredInv, UndoInv, Undoable, job
  <2> QED BY <1>1, <1>3, <2>1, <2>2
<1> QED BY <1>1, <1>3, <1>4, UndoneInv

-----------------------------------------------------------------------------
(* The calls.                                                              *)
LEMMA BeginMoves ==
    ASSUME TypeOK, NEW force \in BOOLEAN, Begin(force)
    PROVE  /\ exec' \in Execs /\ exec'.at = "exists" /\ exec'.n = 1 /\ result' = "none"
           /\ before' \in [stored : [Hashes -> Contents], disk : Configs \cup {None}] \cup {None}
<1>1. exec' = [at |-> "exists", n |-> 1, force |-> force] /\ 1 \in 0..(MaxJobs + 1)
  BY ConfigUpdateConstants DEF Begin
<1>2. before' \in [stored : [Hashes -> Contents], disk : Configs \cup {None}] \cup {None}
  BY DEF Begin, TypeOK
<1> QED BY <1>1, <1>2 DEF Execs, Begin

(* A call changes the config in memory, may add a job, and may start an    *)
(* execution; all that is published stays.                                 *)
LEMMA CallInv ==
    ASSUME Inv, At("idle"), UNCHANGED <<disk, stored, backup, blame>>,
           mem' \in Configs, jobs' \in Seq(Jobs), Len(jobs') <= MaxJobs,
           Len(jobs) <= Len(jobs'),
           \A i \in DOMAIN jobs' : jobs'[i].backupPath \in {jobs'[i].hash, None},
           \A i \in DOMAIN jobs : jobs'[i] = jobs[i],
           \A i \in DOMAIN jobs' : i \in DOMAIN jobs \/ (~jobs'[i].updated /\ ~jobs'[i].backedUp),
           disk # None => \A pl \in Platforms :
               mem'.hash[pl] = mem.hash[pl] \/ \E i \in DOMAIN jobs' : jobs'[i].hash = mem'.hash[pl],
           (UNCHANGED exec) \/ (disk # None /\ exec' \in Execs /\ exec'.at = "exists" /\ exec'.n = 1),
           result' \in {"none", "clean", "true", "failed", "stuck"},
           before' \in [stored : [Hashes -> Contents], disk : Configs \cup {None}] \cup {None}
    PROVE  Inv'
<1>1. exec' \in Execs /\ exec'.at \in {"idle", "exists"} /\ exec.at = "idle"
      /\ (exec'.at = "exists" => exec'.n = 1)
  BY JobTypes DEF Inv, At
<1>2. DOMAIN jobs \subseteq DOMAIN jobs'
  BY JobTypes DEF Inv
<1>3. TypeOK'
  BY <1>1, TypeParts DEF Inv, TypeOK
<1>4. ExecInv'
  BY <1>1 DEF ExecInv, At
<1>5. ASSUME blame = {} PROVE StoreInv'
  <2>1. StoreInv /\ Published' = Published
    BY <1>5 DEF Inv, Published
  <2>2. StoredInv'
    BY <2>1 DEF StoreInv, StoredInv
  <2>3. Quiet' => Quiet
    BY <1>1 DEF Quiet, At
  <2>4. NamedInv'
    <3> SUFFICES ASSUME Quiet, NEW pl \in Platforms
                 PROVE  mem'.hash[pl] \in Published
                        \/ \E i \in DOMAIN jobs' : jobs'[i].hash = mem'.hash[pl]
      BY <2>1, <2>3 DEF NamedInv
    <3>1. CASE \E i \in DOMAIN jobs' : jobs'[i].hash = mem'.hash[pl]
      BY <3>1
    <3>2. CASE mem'.hash[pl] = mem.hash[pl] /\ mem.hash[pl] \in Published
      BY <3>2
    <3>3. CASE mem'.hash[pl] = mem.hash[pl] /\ \E i \in DOMAIN jobs : jobs[i].hash = mem.hash[pl]
      BY <1>2, <3>3
    <3> QED BY <2>1, <3>1, <3>2, <3>3 DEF StoreInv, NamedInv, Quiet
  <2>5. ASSUME Quiet, NEW i \in DOMAIN jobs' PROVE Undoable(jobs[i])'
    <3>1. CASE i \in DOMAIN jobs
      BY <2>1, <2>5, <3>1 DEF StoreInv, UndoInv, Undoable
    <3>2. CASE ~jobs'[i].updated /\ ~jobs'[i].backedUp
      BY <3>2 DEF Undoable
    <3> QED BY <3>1, <3>2
  <2>6. UndoInv'
    BY <2>3, <2>5 DEF UndoInv
  <2>7. InsertInv' /\ DumpInv'
    BY <1>1 DEF InsertInv, DumpInv, At
  <2>8. SentInv'
    <3>1. ASSUME NEW i \in DOMAIN jobs' PROVE ~(i < 1)
      OBVIOUS
    <3> QED BY <1>1, <3>1 DEF SentInv
  <2> QED BY <2>2, <2>4, <2>6, <2>7, <2>8 DEF StoreInv
<1> QED BY <1>3, <1>4, <1>5 DEF Inv

LEMMA SetDownloadPathInv == ASSUME Inv, SetDownloadPath PROVE Inv'
<1>1. /\ At("idle") /\ mem' = [mem EXCEPT !.path = ~mem.path] /\ result' = "none"
      /\ UNCHANGED <<disk, jobs, exec, stored, backup, before, blame>>
  BY DEF SetDownloadPath, cloud
<1>2. mem \in Configs /\ TypeOK
  BY DEF Inv, TypeOK
<1>3. mem' \in Configs /\ mem'.hash = mem.hash
  BY <1>1, <1>2 DEF Configs
<1> QED BY <1>1, <1>2, <1>3, CallInv, JobTypes DEF TypeOK

LEMMA ExecuteInv == ASSUME Inv, NEW force \in BOOLEAN, Execute(force) PROVE Inv'
<1>1. /\ At("idle") /\ disk # None /\ UNCHANGED <<mem, disk, jobs, stored, backup, blame>>
      /\ TypeOK
  BY DEF Execute, cloud, Inv
<1>2. CASE UNCHANGED <<exec, before>> /\ result' \in {"clean", "true"}
  BY <1>1, <1>2, CallInv, JobTypes DEF TypeOK
<1>3. CASE Begin(force)
  <2>1. /\ exec' \in Execs /\ exec'.at = "exists" /\ exec'.n = 1 /\ result' = "none"
        /\ before' \in [stored : [Hashes -> Contents], disk : Configs \cup {None}] \cup {None}
    BY <1>1, <1>3, BeginMoves
  <2> QED BY <1>1, <2>1, CallInv, JobTypes DEF TypeOK
<1> QED BY <1>2, <1>3 DEF Execute

LEMMA AddUpdateJobInv ==
    ASSUME Inv, NEW pl \in Platforms, NEW h \in Hashes, NEW execute \in BOOLEAN,
           AddUpdateJob(pl, h, execute)
    PROVE  Inv'
<1>1. /\ At("idle") /\ disk # None /\ Len(jobs) < MaxJobs
      /\ UNCHANGED <<disk, stored, backup, blame>> /\ TypeOK
      /\ mem' = [mem EXCEPT !.hash[pl] = h] /\ jobs' = Append(jobs, Job(h))
  BY DEF AddUpdateJob, cloud, Inv
<1>2. Job(h) \in Jobs /\ Job(h).hash = h /\ Job(h).backupPath = h
      /\ ~Job(h).updated /\ ~Job(h).backedUp
  BY DEF Job, Jobs
<1>3. mem' \in Configs /\ \A q \in Platforms : mem'.hash[q] = IF q = pl THEN h ELSE mem.hash[q]
  BY <1>1 DEF TypeOK, Configs
<1>4. /\ jobs \in Seq(Jobs) /\ jobs' \in Seq(Jobs) /\ Len(jobs') = Len(jobs) + 1
      /\ jobs'[Len(jobs) + 1] = Job(h) /\ \A i \in DOMAIN jobs : jobs'[i] = jobs[i]
      /\ DOMAIN jobs' = DOMAIN jobs \cup {Len(jobs) + 1}
  BY <1>1, <1>2, JobTypes
<1>5. Len(jobs') <= MaxJobs /\ Len(jobs) <= Len(jobs')
  BY <1>1, <1>4, ConfigUpdateConstants, JobTypes
<1>6. \A i \in DOMAIN jobs' : jobs'[i].backupPath \in {jobs'[i].hash, None}
  BY <1>1, <1>2, <1>4 DEF TypeOK
<1>7. \A i \in DOMAIN jobs' : i \in DOMAIN jobs \/ (~jobs'[i].updated /\ ~jobs'[i].backedUp)
  BY <1>2, <1>4
<1>8. \A q \in Platforms : mem'.hash[q] = mem.hash[q]
                          \/ \E i \in DOMAIN jobs' : jobs'[i].hash = mem'.hash[q]
  BY <1>2, <1>3, <1>4
<1>9. CASE UNCHANGED <<exec, before>> /\ result' = "none"
  BY <1>1, <1>3, <1>4, <1>5, <1>6, <1>7, <1>8, <1>9, CallInv DEF TypeOK
<1>10. CASE Begin(FALSE)
  <2>1. /\ exec' \in Execs /\ exec'.at = "exists" /\ exec'.n = 1 /\ result' = "none"
        /\ before' \in [stored : [Hashes -> Contents], disk : Configs \cup {None}] \cup {None}
    BY <1>1, <1>10, BeginMoves
  <2> QED BY <1>1, <1>3, <1>4, <1>5, <1>6, <1>7, <1>8, <2>1, CallInv
<1> QED BY <1>9, <1>10 DEF AddUpdateJob

-----------------------------------------------------------------------------
LEMMA StepInv == Inv /\ [Next]_vars => Inv'
<1> SUFFICES ASSUME Inv, [Next]_vars PROVE Inv'
  OBVIOUS
<1>1. CASE UNCHANGED vars
  <2>1. UNCHANGED <<mem, disk, jobs, exec, stored, backup, result, before, blame>>
    BY <1>1 DEF vars, cloud
  <2>2. TypeOK' /\ ExecInv'
    BY <2>1 DEF Inv, TypeOK, ExecInv, At
  <2>3. StoreInv => StoreInv'
    BY <2>1 DEF StoreInv, StoredInv, NamedInv, UndoInv, Undoable, InsertInv, SentInv, DumpInv,
       Quiet, Published, At, job
  <2> QED BY <2>1, <2>2, <2>3 DEF Inv
<1>2. ASSUME NEW pl \in Platforms, NEW h \in Hashes, NEW execute \in BOOLEAN,
             AddUpdateJob(pl, h, execute)
      PROVE  Inv'
  BY <1>2, AddUpdateJobInv
<1>3. ASSUME NEW force \in BOOLEAN, Execute(force) PROVE Inv'
  BY <1>3, ExecuteInv
<1>4. CASE SetDownloadPath \/ Exists \/ Copy \/ Insert \/ OpenConfig \/ DumpConfig
  BY <1>4, SetDownloadPathInv, ExistsInv, CopyInv, InsertStep, OpenConfigInv, DumpConfigInv
<1>5. CASE Clear \/ Restart \/ Fail \/ InterruptAfter
  BY <1>5, EndInv, FailInv, InterruptAfterInv
<1>6. CASE Restore \/ Delete \/ NothingToUndo \/ RolledBack \/ RollbackFails
  BY <1>6, RestoreInv, DeleteInv, RollbackEndInv
<1> QED BY <1>1, <1>2, <1>3, <1>4, <1>5, <1>6 DEF Next

LEMMA SpecInv == Spec => []Inv
BY InitInv, StepInv, PTL DEF Spec

(* For any number of platforms, files and jobs: every variable keeps its   *)
(* type through uploads, failures, rollbacks and restarts.                 *)
THEOREM ConfigUpdateTypeOK == Spec => []TypeOK
<1>1. Inv => TypeOK
  BY DEF Inv
<1> QED BY SpecInv, <1>1, PTL

(* What the config file names can be downloaded at every moment of every   *)
(* update, failure, rollback and retry, but for those that are to blame.   *)
THEOREM ConfigUpdatePublished == Spec => []PublishedIsStored
<1>1. Inv => PublishedIsStored
  <2> SUFFICES ASSUME Inv, disk # None, blame = {}, NEW pl \in Platforms
               PROVE  stored[disk.hash[pl]] = disk.hash[pl]
    BY DEF PublishedIsStored
  <2>1. disk.hash[pl] \in Published /\ StoredInv
    BY DEF Published, Inv, StoreInv
  <2> QED BY <2>1 DEF StoredInv
<1> QED BY SpecInv, <1>1, PTL

-----------------------------------------------------------------------------
(* A rollback restores.  Jobs are done in their order and undone in the    *)
(* reverse: while a job remains to be undone, all before it do, and they   *)
(* are about other files.                                                  *)
PrefixInv ==
    \A k \in DOMAIN jobs : Remains(jobs[k]) =>
        \A i \in DOMAIN jobs : i < k => jobs[i].updated /\ jobs[i].hash # jobs[k].hash

(* What is known of each job, and of the one at hand.                      *)
JobsInv ==
    \A i \in DOMAIN jobs :
       /\ jobs[i].backupPath = None => jobs[i].backedUp
       /\ jobs[i].updated => stored[jobs[i].hash] = jobs[i].hash
       /\ exec.at \in {"exists", "copy", "insert"} /\ i < exec.n => jobs[i].updated
       /\ At("rollback") /\ i > exec.n => ~Remains(jobs[i])

NextInv ==
    At("insert") => /\ ~job.backedUp => stored[job.hash] = None
                    /\ \A i \in DOMAIN jobs : jobs[i].updated => jobs[i].hash # job.hash

(* There is something to go back to.                                       *)
Tried ==
    exec.at # "idle" \/ result = "failed" \/ \E i \in DOMAIN jobs : Remains(jobs[i])

(* What differs from before is what updated jobs can take back.            *)
Kept(h) == stored[h] = before.stored[h] \/ \E i \in DOMAIN jobs : jobs[i].updated /\ jobs[i].hash = h
Restorable(j) ==
    /\ j.updated /\ ~j.backedUp => before.stored[j.hash] = None
    /\ j.backedUp /\ j.backupPath # None => backup[j.hash] = before.stored[j.hash]
BeforeInv ==
    Tried => /\ before \in [stored : [Hashes -> Contents], disk : Configs \cup {None}]
             /\ At("clear") \/ disk \in {before.disk, None}
             /\ \A h \in Hashes : Kept(h)
             /\ \A i \in DOMAIN jobs : Restorable(jobs[i])

FailedInv == result = "failed" => At("idle") /\ \A i \in DOMAIN jobs : ~Remains(jobs[i])

BackInv == PrefixInv /\ JobsInv /\ NextInv /\ BeforeInv /\ FailedInv

(* A step that changes neither the jobs nor what is stored.                *)
LEMMA MoveBack ==
    ASSUME BackInv, UNCHANGED <<jobs, stored, backup, before>>, exec.at # "idle",
           disk' = disk \/ disk' = None \/ exec'.at = "clear",
           At("clear") => exec'.at = "clear",
           exec'.at \in {"exists", "copy", "insert"} => At("exists") /\ exec'.n = exec.n,
           exec'.at = "insert" => exec.n \in DOMAIN jobs /\ job.hash # None /\ stored[job.hash] = None,
           exec'.at = "rollback" => \A i \in DOMAIN jobs : i > exec'.n => ~Remains(jobs[i]),
           result' = "failed" => exec'.at = "idle" /\ \A i \in DOMAIN jobs : ~Remains(jobs[i])
    PROVE  BackInv'
<1>1. Tried
  BY DEF Tried
<1>2. PrefixInv'
  BY DEF BackInv, PrefixInv, Remains
<1>3. JobsInv'
  BY DEF BackInv, JobsInv, Remains, At
<1>4. NextInv'
  <2> SUFFICES ASSUME exec'.at = "insert"
               PROVE  /\ stored[job.hash] = None
                      /\ \A i \in DOMAIN jobs : jobs[i].updated => jobs[i].hash # job.hash
    BY DEF NextInv, At, job
  <2> QED BY DEF BackInv, JobsInv
<1>5. BeforeInv'
  BY <1>1 DEF BackInv, BeforeInv, Kept, Restorable, At
<1>6. FailedInv'
  BY DEF FailedInv, Remains, At
<1> QED BY <1>2, <1>3, <1>4, <1>5, <1>6 DEF BackInv

LEMMA StillBack ==
    ASSUME Inv, BackInv, Exists \/ Fail \/ OpenConfig \/ DumpConfig PROVE BackInv'
<1>1. TypeOK /\ exec \in Execs /\ Len(jobs) \in Nat /\ jobs \in Seq(Jobs)
  BY JobTypes DEF Inv
<1>2. /\ UNCHANGED <<jobs, stored, backup, before, result>> /\ exec.at # "idle" /\ ~At("clear")
      /\ disk' = disk \/ disk' = None \/ exec'.at = "clear"
  BY <1>1, ExecMoves DEF Exists, Fail, OpenConfig, DumpConfig, At, cloud
<1>3. result' # "failed"
  BY <1>2 DEF BackInv, FailedInv, At
<1>4. CASE Exists
  <2>1. exec.n \in DOMAIN jobs /\ At("exists")
    BY <1>1, <1>4 DEF Exists, Inv, ExecInv
  <2>2. job.hash # None
    BY <1>1, <2>1, JobType
  <2>3. CASE stored[job.hash] = None
    <3>1. exec'.at = "insert" /\ exec'.n = exec.n
      BY <1>1, <1>4, <2>3, ExecMoves DEF Exists
    <3> QED BY <1>2, <1>3, <2>1, <2>2, <2>3, <3>1, MoveBack
  <2>4. CASE stored[job.hash] # None /\ exec.force
    <3>1. exec'.at = "copy" /\ exec'.n = exec.n
      BY <1>1, <1>4, <2>4, ExecMoves DEF Exists
    <3> QED BY <1>2, <1>3, <2>1, <3>1, MoveBack
  <2>5. CASE stored[job.hash] # None /\ ~exec.force
    <3>1. exec'.at = "rollback" /\ exec'.n = Len(jobs)
      BY <1>1, <1>4, <2>5, ExecMoves DEF Exists
    <3>2. \A i \in DOMAIN jobs : ~(i > exec'.n)
      BY <1>1, <3>1
    <3> QED BY <1>2, <1>3, <3>1, <3>2, MoveBack
  <2> QED BY <2>3, <2>4, <2>5
<1>5. CASE Fail
  <2>1. exec'.at = "rollback" /\ exec'.n = Len(jobs)
    BY <1>1, <1>5, ExecMoves DEF Fail
  <2>2. \A i \in DOMAIN jobs : ~(i > exec'.n)
    BY <1>1, <2>1
  <2> QED BY <1>2, <1>3, <2>1, <2>2, MoveBack
<1>6. CASE OpenConfig \/ DumpConfig
  <2>1. exec'.at \in {"dump", "clear"}
    BY <1>1, <1>6, ExecMoves DEF OpenConfig, DumpConfig
  <2> QED BY <1>2, <1>3, <2>1, MoveBack
<1> QED BY <1>4, <1>5, <1>6

LEMMA RollbackEndBack ==
    ASSUME Inv, BackInv, NothingToUndo \/ RolledBack \/ RollbackFails PROVE BackInv'
<1>1. /\ UNCHANGED <<jobs, stored, backup, before, disk>> /\ At("rollback") /\ exec.at # "idle"
      /\ ~At("clear") /\ jobs \in Seq(Jobs) /\ exec \in Execs
  BY JobTypes DEF NothingToUndo, RolledBack, RollbackFails, At, cloud, Inv
<1>2. \A i \in DOMAIN jobs : i > exec.n => ~Remains(jobs[i])
  BY <1>1 DEF BackInv, JobsInv
<1>3. CASE NothingToUndo
  <2>1. exec'.at = "rollback" /\ exec'.n = exec.n - 1 /\ ~Remains(job)
    BY <1>1, <1>3 DEF NothingToUndo, At, Execs, Remains
  <2>2. \A i \in DOMAIN jobs : i > exec.n - 1 => i > exec.n \/ i = exec.n
    BY <1>1 DEF Execs
  <2>3. \A i \in DOMAIN jobs : i > exec'.n => ~Remains(jobs[i])
    BY <1>2, <2>1, <2>2 DEF job
  <2>4. result' # "failed"
    BY <1>1, <1>3 DEF NothingToUndo, BackInv, FailedInv, At
  <2> QED BY <1>1, <2>1, <2>3, <2>4, MoveBack
<1>4. CASE RolledBack
  <2>1. exec'.at = "idle" /\ \A i \in DOMAIN jobs : i > exec.n
    BY <1>1, <1>4, IdleType DEF RolledBack, Return
  <2> QED BY <1>1, <1>2, <2>1, MoveBack
<1>5. CASE RollbackFails
  <2>1. exec'.at = "idle" /\ result' = "stuck"
    BY <1>5, IdleType DEF RollbackFails, Return
  <2> QED BY <1>1, <2>1, MoveBack
<1> QED BY <1>3, <1>4, <1>5

(* The last job that remains to be undone is about a file of its own.      *)
LEMMA OthersDiffer ==
    ASSUME Inv, BackInv, exec.n \in DOMAIN jobs, Remains(job),
           \A i \in DOMAIN jobs : i > exec.n => ~Remains(jobs[i]),
           NEW i \in DOMAIN jobs, i # exec.n, Remains(jobs[i])
    PROVE  jobs[i].hash # job.hash
<1>1. jobs \in Seq(Jobs) /\ exec \in Execs
  BY JobTypes DEF Inv
<1>2. i < exec.n
  BY <1>1 DEF Execs
<1> QED BY <1>2 DEF BackInv, PrefixInv, job

LEMMA CopyBack == ASSUME Inv, BackInv, Copy, blame' = {} PROVE BackInv'
<1> DEFINE j == [job EXCEPT !.backedUp = TRUE]
<1>1. /\ At("copy") /\ exec.at = "copy" /\ exec.n \in DOMAIN jobs
      /\ UNCHANGED <<disk, stored, result, before>>
      /\ backup' = [backup EXCEPT ![job.backupPath] = stored[job.hash]]
      /\ backup \in [Hashes \cup {None} -> Contents]
      /\ ~Remains(job) /\ ~\E i \in 1..(exec.n - 1) : jobs[i].hash = job.hash
  BY DEF Copy, Inv, TypeOK, At
<1>2. exec'.at = "insert" /\ exec'.n = exec.n
  BY ExecMoves DEF Copy, Inv
<1>3. /\ j \in Jobs /\ j.hash = job.hash /\ j.updated = job.updated /\ j.backedUp = TRUE
      /\ j.backupPath = job.backupPath /\ job.hash \in Hashes /\ ~job.updated
      /\ job.backupPath \in {job.hash, None} /\ job.hash # None
  BY <1>1, JobType DEF Inv, Jobs, Remains
<1>4. jobs' = [jobs EXCEPT ![exec.n] = j]
  BY DEF Copy, job
<1> HIDE DEF j
<1>5. /\ jobs \in Seq(Jobs) /\ DOMAIN jobs' = DOMAIN jobs
      /\ jobs'[exec.n] = j /\ \A k \in DOMAIN jobs : k # exec.n => jobs'[k] = jobs[k]
  BY <1>1, <1>3, <1>4, JobSet, JobTypes DEF Inv
<1>6. \A i \in DOMAIN jobs : /\ jobs'[i].hash = jobs[i].hash
                             /\ jobs'[i].updated = jobs[i].updated
                             /\ jobs'[i].backupPath = jobs[i].backupPath
  BY <1>3, <1>5 DEF job
<1>7. ASSUME NEW i \in DOMAIN jobs, Remains(jobs[i])
      PROVE  i < exec.n /\ jobs[i].hash # job.hash
  <2>1. i # exec.n
    BY <1>1, <1>7 DEF job
  <2>2. ~(exec.n < i)
    BY <1>1, <1>3, <1>7 DEF BackInv, PrefixInv, job
  <2>3. i < exec.n /\ i \in 1..(exec.n - 1)
    BY <1>1, <1>5, <2>1, <2>2
  <2> QED BY <1>1, <2>3
<1>8. ASSUME NEW i \in DOMAIN jobs, i < exec.n PROVE jobs[i].updated /\ jobs[i].hash # job.hash
  <2>1. jobs[i].updated
    BY <1>1, <1>8 DEF BackInv, JobsInv
  <2> QED BY <1>7, <2>1 DEF Remains
<1>9. PrefixInv'
  <2> SUFFICES ASSUME NEW k \in DOMAIN jobs, Remains(jobs'[k]), NEW i \in DOMAIN jobs, i < k
               PROVE  jobs[i].updated /\ jobs[i].hash # jobs[k].hash
    BY <1>5, <1>6 DEF PrefixInv, Remains
  <2>1. CASE k = exec.n
    BY <1>8, <2>1 DEF job
  <2>2. CASE k # exec.n
    <3>1. Remains(jobs[k])
      BY <1>5, <2>2
    <3> QED BY <3>1 DEF BackInv, PrefixInv
  <2> QED BY <2>1, <2>2
<1>10. JobsInv'
  <2>1. ASSUME NEW i \in DOMAIN jobs
        PROVE  /\ jobs'[i].backupPath = None => jobs'[i].backedUp
               /\ jobs'[i].updated => stored'[jobs'[i].hash] = jobs'[i].hash
               /\ i < exec.n => jobs'[i].updated
    <3>1. jobs'[i].backupPath = None => jobs'[i].backedUp
      BY <1>3, <1>5 DEF BackInv, JobsInv
    <3>2. jobs'[i].updated => stored'[jobs'[i].hash] = jobs'[i].hash
      BY <1>1, <1>6 DEF BackInv, JobsInv
    <3> QED BY <1>6, <1>8, <3>1, <3>2
  <2> QED BY <1>2, <1>5, <2>1 DEF JobsInv, At
<1>11. NextInv'
  <2>1. job'.backedUp /\ job'.hash = job.hash
    BY <1>2, <1>3, <1>5 DEF job
  <2>2. \A i \in DOMAIN jobs : jobs[i].updated => jobs[i].hash # job.hash
    BY <1>7 DEF Remains
  <2> QED BY <1>5, <1>6, <2>1, <2>2 DEF NextInv
<1>12. BeforeInv'
  <2>1. /\ before \in [stored : [Hashes -> Contents], disk : Configs \cup {None}]
        /\ disk \in {before.disk, None}
        /\ \A h \in Hashes : Kept(h)
        /\ \A i \in DOMAIN jobs : Restorable(jobs[i])
    BY <1>1 DEF BackInv, BeforeInv, Tried, At
  <2>2. ASSUME NEW h \in Hashes PROVE Kept(h)'
    BY <1>1, <1>5, <1>6, <2>1 DEF Kept
  <2>3. ASSUME NEW i \in DOMAIN jobs PROVE Restorable(jobs[i])'
    <3>1. CASE i = exec.n
      <4>1. ~\E k \in DOMAIN jobs : jobs[k].updated /\ jobs[k].hash = job.hash
        BY <1>7 DEF Remains
      <4>2. stored[job.hash] = before.stored[job.hash]
        BY <1>3, <2>1, <4>1 DEF Kept
      <4>3. job.backupPath # None => backup'[job.hash] = stored[job.hash]
        BY <1>1, <1>3
      <4> QED BY <1>1, <1>3, <1>5, <3>1, <4>2, <4>3 DEF Restorable
    <3>2. CASE i # exec.n
      <4>1. jobs'[i] = jobs[i] /\ Restorable(jobs[i]) /\ jobs[i].hash \in Hashes
        BY <1>5, <2>1, <3>2, EachJob DEF Inv
      <4>2. ASSUME jobs[i].backedUp, jobs[i].backupPath # None
            PROVE  backup'[jobs[i].hash] = backup[jobs[i].hash]
        <5>1. jobs[i].hash # job.hash
          BY <1>7, <4>2 DEF Remains
        <5>2. jobs[i].hash # None
          BY <4>1, ConfigUpdateConstants
        <5> QED BY <1>1, <1>3, <4>1, <5>1, <5>2
      <4> QED BY <1>1, <4>1, <4>2 DEF Restorable
    <3> QED BY <3>1, <3>2
  <2> QED BY <1>1, <1>5, <2>1, <2>2, <2>3 DEF BeforeInv
<1>13. FailedInv'
  BY <1>1 DEF BackInv, FailedInv, At
<1> QED BY <1>9, <1>10, <1>11, <1>12, <1>13 DEF BackInv

LEMMA InsertBack == ASSUME Inv, BackInv, Insert PROVE BackInv'
<1> DEFINE j == [job EXCEPT !.updated = TRUE]
<1>1. /\ At("insert") /\ exec.at = "insert" /\ exec.n \in DOMAIN jobs
      /\ UNCHANGED <<disk, backup, result, before>>
      /\ stored' = [stored EXCEPT ![job.hash] = job.hash] /\ stored \in [Hashes -> Contents]
  BY DEF Insert, Inv, TypeOK, At
<1>2. exec'.at = "exists" /\ exec'.n = exec.n + 1 /\ exec \in Execs
  BY JobTypes DEF Insert, Inv, Execs
<1>3. /\ j \in Jobs /\ j.hash = job.hash /\ j.updated = TRUE /\ j.backedUp = job.backedUp
      /\ j.backupPath = job.backupPath /\ job.hash \in Hashes
  BY <1>1, JobType DEF Inv, Jobs
<1>4. jobs' = [jobs EXCEPT ![exec.n] = j]
  BY DEF Insert, job
<1> HIDE DEF j
<1>5. /\ jobs \in Seq(Jobs) /\ DOMAIN jobs' = DOMAIN jobs
      /\ jobs'[exec.n] = j /\ \A k \in DOMAIN jobs : k # exec.n => jobs'[k] = jobs[k]
  BY <1>1, <1>3, <1>4, JobSet, JobTypes DEF Inv
<1>6. \A i \in DOMAIN jobs : /\ jobs'[i].hash = jobs[i].hash /\ jobs[i].hash \in Hashes
                             /\ jobs[i].updated => jobs'[i].updated
                             /\ jobs'[i].backedUp = jobs[i].backedUp
                             /\ jobs'[i].backupPath = jobs[i].backupPath
  BY <1>3, <1>5, EachJob DEF job, Inv
<1>7. \A i \in DOMAIN jobs : jobs[i].updated => jobs[i].hash # job.hash
  BY <1>1 DEF BackInv, NextInv
<1>8. \A i \in DOMAIN jobs : i < exec.n => jobs[i].updated
  BY <1>1 DEF BackInv, JobsInv
<1>9. PrefixInv'
  <2> SUFFICES ASSUME NEW k \in DOMAIN jobs, Remains(jobs'[k]), NEW i \in DOMAIN jobs, i < k
               PROVE  jobs[i].updated /\ jobs[i].hash # jobs[k].hash
    BY <1>5, <1>6 DEF PrefixInv, Remains
  <2>1. CASE k = exec.n
    BY <1>7, <1>8, <2>1 DEF job
  <2>2. CASE k # exec.n
    <3>1. Remains(jobs[k])
      BY <1>5, <2>2
    <3> QED BY <3>1 DEF BackInv, PrefixInv
  <2> QED BY <2>1, <2>2
<1>10. JobsInv'
  <2>1. ASSUME NEW i \in DOMAIN jobs
        PROVE  /\ jobs'[i].backupPath = None => jobs'[i].backedUp
               /\ jobs'[i].updated => stored'[jobs'[i].hash] = jobs'[i].hash
               /\ i < exec.n + 1 => jobs'[i].updated
    <3>1. jobs'[i].backupPath = None => jobs'[i].backedUp
      BY <1>6 DEF BackInv, JobsInv
    <3>2. CASE i = exec.n
      BY <1>1, <1>3, <1>5, <3>1, <3>2
    <3>3. CASE i # exec.n
      <4>1. i < exec.n + 1 => i < exec.n
        BY <1>2, <1>5, <3>3 DEF Execs
      <4>2. jobs'[i] = jobs[i] /\ (jobs[i].updated => stored[jobs[i].hash] = jobs[i].hash)
        BY <1>5, <3>3 DEF BackInv, JobsInv
      <4> QED BY <1>1, <1>6, <1>8, <3>1, <4>1, <4>2
    <3> QED BY <3>2, <3>3
  <2> QED BY <1>2, <1>5, <2>1 DEF JobsInv, At
<1>11. NextInv' /\ FailedInv'
  BY <1>1, <1>2 DEF NextInv, FailedInv, BackInv, At
<1>12. BeforeInv'
  <2>1. /\ before \in [stored : [Hashes -> Contents], disk : Configs \cup {None}]
        /\ disk \in {before.disk, None}
        /\ \A h \in Hashes : Kept(h)
        /\ \A i \in DOMAIN jobs : Restorable(jobs[i])
    BY <1>1 DEF BackInv, BeforeInv, Tried, At
  <2>2. ASSUME NEW h \in Hashes PROVE Kept(h)'
    <3>1. CASE h = job.hash
      BY <1>1, <1>3, <1>5, <3>1 DEF Kept
    <3>2. CASE h # job.hash
      <4>1. stored'[h] = stored[h] /\ Kept(h)
        BY <1>1, <2>1, <3>2
      <4> QED BY <1>1, <1>5, <1>6, <4>1 DEF Kept
    <3> QED BY <3>1, <3>2
  <2>3. ASSUME NEW i \in DOMAIN jobs PROVE Restorable(jobs[i])'
    <3>1. CASE i = exec.n
      <4>1. stored[job.hash] = before.stored[job.hash]
        BY <1>3, <1>7, <2>1 DEF Kept
      <4>2. ~job.backedUp => stored[job.hash] = None
        BY <1>1 DEF BackInv, NextInv
      <4>3. Restorable(job)
        BY <1>1, <2>1 DEF job
      <4> QED BY <1>1, <1>3, <1>5, <3>1, <4>1, <4>2, <4>3 DEF Restorable
    <3>2. CASE i # exec.n
      BY <1>1, <1>5, <2>1, <3>2 DEF Restorable
    <3> QED BY <3>1, <3>2
  <2> QED BY <1>1, <1>5, <2>1, <2>2, <2>3 DEF BeforeInv
<1> QED BY <1>9, <1>10, <1>11, <1>12 DEF BackInv

(* One upload is taken back: its path has again what was there before.     *)
LEMMA UndoneBack ==
    ASSUME Inv, BackInv, At("rollback"), exec.n > 0, Undone, exec' = [exec EXCEPT !.n = @ - 1],
           Remains(job), UNCHANGED <<disk, backup, result, before>>,
           stored' = [stored EXCEPT ![job.hash] = before.stored[job.hash]]
    PROVE  BackInv'
<1>1. /\ exec.n \in DOMAIN jobs /\ exec'.at = "rollback" /\ exec'.n = exec.n - 1
      /\ DOMAIN jobs' = DOMAIN jobs
      /\ \A i \in DOMAIN jobs : jobs'[i].hash = jobs[i].hash /\ (i # exec.n => jobs'[i] = jobs[i])
  BY UndoneJob
<1>2. /\ ~jobs'[exec.n].updated
      /\ jobs'[exec.n].backedUp => jobs'[exec.n].backupPath = None
      /\ jobs'[exec.n].backedUp = job.backedUp
      /\ ~job.backedUp => jobs'[exec.n].backupPath = job.backupPath
  BY UndoneJob
<1>3. /\ jobs \in Seq(Jobs) /\ exec \in Execs /\ stored \in [Hashes -> Contents]
      /\ job.hash \in Hashes /\ exec.at = "rollback"
  BY <1>1, JobTypes, JobType DEF Inv, TypeOK, At
<1>4. \A i \in DOMAIN jobs : i > exec.n => ~Remains(jobs[i])
  BY DEF BackInv, JobsInv
<1>5. ~Remains(jobs'[exec.n])
  BY <1>2 DEF Remains
<1>6. ASSUME NEW i \in DOMAIN jobs, i # exec.n, Remains(jobs[i])
      PROVE  i < exec.n /\ jobs[i].hash # job.hash
  <2>1. i < exec.n
    BY <1>3, <1>4, <1>6 DEF Execs
  <2> QED BY <1>1, <1>4, <1>6, <2>1, OthersDiffer
<1>7. PrefixInv'
  <2> SUFFICES ASSUME NEW k \in DOMAIN jobs, Remains(jobs'[k]), NEW i \in DOMAIN jobs, i < k
               PROVE  jobs'[i].updated /\ jobs'[i].hash # jobs'[k].hash
    BY <1>1 DEF PrefixInv, Remains
  <2>1. k # exec.n /\ jobs'[k] = jobs[k] /\ Remains(jobs[k])
    BY <1>1, <1>5
  <2>2. i # exec.n /\ jobs'[i] = jobs[i]
    BY <1>1, <1>3, <1>6, <2>1 DEF Execs
  <2> QED BY <2>1, <2>2 DEF BackInv, PrefixInv
<1>8. JobsInv'
  <2>1. ASSUME NEW i \in DOMAIN jobs
        PROVE  /\ jobs'[i].backupPath = None => jobs'[i].backedUp
               /\ jobs'[i].updated => stored'[jobs'[i].hash] = jobs'[i].hash
               /\ i > exec.n - 1 => ~Remains(jobs'[i])
    <3>1. CASE i = exec.n
      <4>1. job.backupPath = None => job.backedUp
        BY <1>1 DEF BackInv, JobsInv, job
      <4> QED BY <1>2, <1>5, <3>1, <4>1
    <3>2. CASE i # exec.n
      <4>1. /\ jobs'[i] = jobs[i] /\ (jobs[i].backupPath = None => jobs[i].backedUp)
            /\ jobs[i].updated => stored[jobs[i].hash] = jobs[i].hash
        BY <1>1, <3>2 DEF BackInv, JobsInv
      <4>2. jobs[i].updated => jobs[i].hash # job.hash
        BY <1>6, <3>2 DEF Remains
      <4>3. i > exec.n - 1 => i > exec.n
        BY <1>3, <3>2 DEF Execs
      <4>4. jobs[i].hash \in Hashes
        BY EachJob DEF Inv
      <4> QED BY <1>3, <1>4, <4>1, <4>2, <4>3, <4>4
    <3> QED BY <3>1, <3>2
  <2> QED BY <1>1, <2>1 DEF JobsInv, At, Remains
<1>9. NextInv' /\ FailedInv'
  BY <1>1, <1>3 DEF NextInv, FailedInv, BackInv, At
<1>10. BeforeInv'
  <2>1. /\ before \in [stored : [Hashes -> Contents], disk : Configs \cup {None}]
        /\ disk \in {before.disk, None}
        /\ \A h \in Hashes : Kept(h)
        /\ \A i \in DOMAIN jobs : Restorable(jobs[i])
    BY <1>3 DEF BackInv, BeforeInv, Tried, At
  <2>2. ASSUME NEW h \in Hashes PROVE Kept(h)'
    <3>1. CASE h = job.hash
      BY <1>3, <3>1 DEF Kept
    <3>2. CASE h # job.hash
      <4>1. stored'[h] = stored[h] /\ Kept(h)
        BY <1>3, <2>1, <3>2
      <4>2. ASSUME NEW i \in DOMAIN jobs, jobs[i].updated, jobs[i].hash = h
            PROVE  jobs'[i].updated /\ jobs'[i].hash = h
        <5>1. i # exec.n
          BY <3>2, <4>2 DEF job
        <5> QED BY <1>1, <4>2, <5>1
      <4> QED BY <1>1, <4>1, <4>2 DEF Kept
    <3> QED BY <3>1, <3>2
  <2>3. ASSUME NEW i \in DOMAIN jobs PROVE Restorable(jobs[i])'
    <3>1. CASE i = exec.n
      BY <1>2, <3>1 DEF Restorable
    <3>2. CASE i # exec.n
      BY <1>1, <2>1, <3>2 DEF Restorable
    <3> QED BY <3>1, <3>2
  <2> QED BY <1>1, <2>1, <2>2, <2>3 DEF BeforeInv
<1> QED BY <1>7, <1>8, <1>9, <1>10 DEF BackInv

LEMMA RollbackBack ==
    ASSUME Inv, BackInv, Restore \/ Delete, blame' = {} PROVE BackInv'
<1>1. /\ At("rollback") /\ exec.n > 0 /\ Undone /\ exec' = [exec EXCEPT !.n = @ - 1]
      /\ UNCHANGED <<disk, backup, result, before>>
  BY DEF Restore, Delete
<1>2. exec.n \in DOMAIN jobs
  BY <1>1, UndoneJob
<1>3. Restorable(job)
  BY <1>1, <1>2 DEF BackInv, BeforeInv, Tried, At, job
<1>4. CASE Restore
  <2>1. job.backedUp /\ job.backupPath # None
        /\ stored' = [stored EXCEPT ![job.hash] = backup[job.backupPath]]
    BY <1>4 DEF Restore
  <2>2. job.backupPath = job.hash
    BY <1>2, <2>1, JobType DEF Inv
  <2> QED BY <1>1, <1>3, <2>1, <2>2, UndoneBack DEF Restorable, Remains
<1>5. CASE Delete
  <2>1. job.updated /\ ~job.backedUp /\ stored' = [stored EXCEPT ![job.hash] = None]
    BY <1>5 DEF Delete
  <2> QED BY <1>1, <1>3, <2>1, UndoneBack DEF Restorable, Remains
<1> QED BY <1>4, <1>5

(* The calls: what they add does not remain to be undone.                  *)
LEMMA CallBack ==
    ASSUME Inv, BackInv, At("idle"), UNCHANGED <<disk, stored, backup>>,
           jobs' \in Seq(Jobs), Len(jobs) <= Len(jobs'),
           \A i \in DOMAIN jobs : jobs'[i] = jobs[i],
           \A i \in DOMAIN jobs' : i \in DOMAIN jobs
               \/ (~jobs'[i].updated /\ ~jobs'[i].backedUp /\ jobs'[i].backupPath # None),
           \/ UNCHANGED <<exec, before>>
           \/ \E force \in BOOLEAN : Begin(force),
           result' # "failed"
    PROVE  BackInv'
<1>1. /\ jobs \in Seq(Jobs) /\ DOMAIN jobs \subseteq DOMAIN jobs' /\ exec.at = "idle"
      /\ exec'.at \in {"idle", "exists"} /\ (exec'.at = "exists" => exec'.n = 1)
  BY JobTypes, BeginMoves DEF Inv, At
<1>2. ASSUME NEW i \in DOMAIN jobs', jobs'[i].updated \/ jobs'[i].backedUp \/ Remains(jobs'[i])
      PROVE  i \in DOMAIN jobs /\ jobs'[i] = jobs[i]
  BY <1>2 DEF Remains
<1>3. PrefixInv'
  <2> SUFFICES ASSUME NEW k \in DOMAIN jobs', Remains(jobs'[k]), NEW i \in DOMAIN jobs', i < k
               PROVE  jobs'[i].updated /\ jobs'[i].hash # jobs'[k].hash
    BY DEF PrefixInv, Remains
  <2>1. k \in DOMAIN jobs /\ jobs'[k] = jobs[k]
    BY <1>2
  <2>2. i \in DOMAIN jobs /\ jobs'[i] = jobs[i]
    BY <1>1, <2>1
  <2> QED BY <2>1, <2>2 DEF BackInv, PrefixInv
<1>4. JobsInv'
  <2>1. ASSUME NEW i \in DOMAIN jobs'
        PROVE  /\ jobs'[i].backupPath = None => jobs'[i].backedUp
               /\ jobs'[i].updated => stored[jobs'[i].hash] = jobs'[i].hash
               /\ ~(i < 1)
    BY <1>2 DEF BackInv, JobsInv
  <2> QED BY <1>1, <2>1 DEF JobsInv, At
<1>5. NextInv' /\ FailedInv'
  BY <1>1 DEF NextInv, FailedInv, At
<1>6. BeforeInv'
  <2>1. CASE \E i \in DOMAIN jobs : Remains(jobs[i])
    <3>1. before' = before /\ Tried
      BY <2>1 DEF Begin, Tried
    <3>2. /\ before \in [stored : [Hashes -> Contents], disk : Configs \cup {None}]
          /\ disk \in {before.disk, None}
          /\ \A h \in Hashes : Kept(h)
          /\ \A i \in DOMAIN jobs : Restorable(jobs[i])
      BY <1>1, <3>1 DEF BackInv, BeforeInv, At
    <3>3. ASSUME NEW h \in Hashes PROVE Kept(h)'
      BY <1>1, <3>1, <3>2 DEF Kept
    <3>4. ASSUME NEW i \in DOMAIN jobs' PROVE Restorable(jobs[i])'
      BY <1>2, <3>1, <3>2 DEF Restorable
    <3> QED BY <3>1, <3>2, <3>3, <3>4 DEF BeforeInv
  <2>2. CASE (\A i \in DOMAIN jobs : ~Remains(jobs[i])) /\ \E force \in BOOLEAN : Begin(force)
    <3>1. before' = [stored |-> stored, disk |-> disk]
      BY <2>2 DEF Begin
    <3>2. before' \in [stored : [Hashes -> Contents], disk : Configs \cup {None}]
      BY <3>1 DEF Inv, TypeOK
    <3>3. disk' = (before').disk /\ \A h \in Hashes : Kept(h)'
      BY <3>1 DEF Kept
    <3>4. ASSUME NEW i \in DOMAIN jobs' PROVE Restorable(jobs[i])'
      BY <1>2, <2>2 DEF Restorable, Remains
    <3> QED BY <3>2, <3>3, <3>4 DEF BeforeInv
  <2>3. CASE (\A i \in DOMAIN jobs : ~Remains(jobs[i])) /\ UNCHANGED <<exec, before>>
    <3>1. ~Tried'
      <4>1. \A i \in DOMAIN jobs' : ~Remains(jobs'[i])
        BY <1>2, <2>3
      <4> QED BY <1>1, <2>3, <4>1 DEF Tried, Remains
    <3> QED BY <3>1 DEF BeforeInv
  <2> QED BY <2>1, <2>2, <2>3
<1> QED BY <1>3, <1>4, <1>5, <1>6 DEF BackInv

LEMMA CallsBack ==
    ASSUME Inv, BackInv,
           \/ SetDownloadPath
           \/ \E force \in BOOLEAN : Execute(force)
           \/ \E pl \in Platforms, h \in Hashes, execute \in BOOLEAN : AddUpdateJob(pl, h, execute)
    PROVE  BackInv'
<1>1. CASE SetDownloadPath \/ \E force \in BOOLEAN : Execute(force)
  <2>1. At("idle") /\ UNCHANGED <<disk, stored, backup, jobs>> /\ jobs \in Seq(Jobs)
    BY <1>1, JobTypes DEF SetDownloadPath, Execute, cloud, Inv
  <2>2. /\ result' # "failed"
        /\ UNCHANGED <<exec, before>> \/ \E force \in BOOLEAN : Begin(force)
    BY <1>1, BeginMoves DEF SetDownloadPath, Execute, Begin, Inv
  <2> QED BY <2>1, <2>2, CallBack
<1>2. ASSUME NEW pl \in Platforms, NEW h \in Hashes, NEW execute \in BOOLEAN,
             AddUpdateJob(pl, h, execute)
      PROVE  BackInv'
  <2>1. /\ At("idle") /\ UNCHANGED <<disk, stored, backup>> /\ jobs' = Append(jobs, Job(h))
        /\ jobs \in Seq(Jobs)
    BY <1>2, JobTypes DEF AddUpdateJob, cloud, Inv
  <2>2. Job(h) \in Jobs /\ Job(h).backupPath # None /\ ~Job(h).updated /\ ~Job(h).backedUp
    BY ConfigUpdateConstants DEF Job, Jobs
  <2>3. /\ jobs' \in Seq(Jobs) /\ Len(jobs) <= Len(jobs')
        /\ \A i \in DOMAIN jobs : jobs'[i] = jobs[i]
        /\ \A i \in DOMAIN jobs' : i \in DOMAIN jobs \/ jobs'[i] = Job(h)
    BY <2>1, <2>2
  <2>4. /\ result' # "failed"
        /\ UNCHANGED <<exec, before>> \/ \E force \in BOOLEAN : Begin(force)
    BY <1>2 DEF AddUpdateJob, Begin
  <2> QED BY <2>1, <2>2, <2>3, <2>4, CallBack
<1> QED BY <1>1, <1>2

(* Without jobs nothing remains to be undone.                              *)
LEMMA EmptyBack ==
    ASSUME exec.at = "idle", jobs = <<>>, result # "failed" PROVE BackInv
<1>1. DOMAIN jobs = {}
  OBVIOUS
<1>2. ~Tried
  BY <1>1 DEF Tried
<1> QED BY <1>1, <1>2 DEF BackInv, PrefixInv, JobsInv, NextInv, BeforeInv, FailedInv, At

LEMMA EndBack == ASSUME Clear \/ Restart PROVE BackInv'
<1>1. exec'.at = "idle" /\ jobs' = <<>> /\ result' \in {"true", "none"}
  BY IdleType DEF Clear, Restart, Return
<1>2. DOMAIN jobs' = {} /\ result' # "failed"
  BY <1>1
<1>3. ~Tried'
  BY <1>1, <1>2 DEF Tried
<1> QED BY <1>1, <1>2, <1>3 DEF BackInv, PrefixInv, JobsInv, NextInv, BeforeInv, FailedInv, At

AllInv == Inv /\ (blame = {} => BackInv)

LEMMA AllStep == AllInv /\ [Next]_vars => AllInv'
<1> SUFFICES ASSUME AllInv, [Next]_vars PROVE AllInv'
  OBVIOUS
<1>1. Inv /\ Inv'
  BY StepInv DEF AllInv
<1> SUFFICES ASSUME blame' = {} PROVE BackInv'
  BY <1>1 DEF AllInv
<1>2. CASE UNCHANGED vars
  <2>1. UNCHANGED <<disk, jobs, exec, stored, backup, result, before, blame>>
    BY <1>2 DEF vars, cloud
  <2>2. BackInv
    BY <2>1 DEF AllInv
  <2>3. PrefixInv' /\ JobsInv' /\ NextInv' /\ FailedInv'
    BY <2>1, <2>2 DEF BackInv, PrefixInv, JobsInv, NextInv, FailedInv, At, Remains, job
  <2>4. BeforeInv'
    BY <2>1, <2>2 DEF BackInv, BeforeInv, Tried, Kept, Restorable, At, Remains
  <2> QED BY <2>3, <2>4 DEF BackInv
<1>3. CASE Clear \/ Restart
  BY <1>3, EndBack
<1>4. CASE InterruptAfter
  BY <1>4 DEF InterruptAfter
<1>5. CASE Copy
  <2>1. blame = {}
    BY <1>5 DEF Copy
  <2> QED BY <1>1, <1>5, <2>1, CopyBack DEF AllInv
<1>6. CASE Restore \/ Delete
  <2>1. blame = {}
    BY <1>6 DEF Restore, Delete
  <2> QED BY <1>1, <1>6, <2>1, RollbackBack DEF AllInv
<1>7. CASE Exists \/ Fail \/ OpenConfig \/ DumpConfig
  <2>1. blame = {}
    BY <1>7 DEF Exists, Fail, OpenConfig, DumpConfig
  <2> QED BY <1>1, <1>7, <2>1, StillBack DEF AllInv
<1>8. CASE Insert
  <2>1. blame = {}
    BY <1>8 DEF Insert
  <2> QED BY <1>1, <1>8, <2>1, InsertBack DEF AllInv
<1>9. CASE NothingToUndo \/ RolledBack \/ RollbackFails
  <2>1. blame = {}
    BY <1>9 DEF NothingToUndo, RolledBack, RollbackFails
  <2> QED BY <1>1, <1>9, <2>1, RollbackEndBack DEF AllInv
<1>10. CASE \/ SetDownloadPath
            \/ \E force \in BOOLEAN : Execute(force)
            \/ \E pl \in Platforms, h \in Hashes, execute \in BOOLEAN : AddUpdateJob(pl, h, execute)
  <2>1. blame = {}
    BY <1>10 DEF SetDownloadPath, Execute, AddUpdateJob
  <2> QED BY <1>1, <1>10, <2>1, CallsBack DEF AllInv
<1> QED BY <1>2, <1>3, <1>4, <1>5, <1>6, <1>7, <1>8, <1>9, <1>10 DEF Next

LEMMA InitAll == Init => AllInv
<1> SUFFICES ASSUME Init PROVE AllInv
  OBVIOUS
<1>1. exec.at = "idle" /\ jobs = <<>> /\ result # "failed"
  BY IdleType DEF Init
<1> QED BY <1>1, InitInv, EmptyBack DEF AllInv

(* An execution that failed and was rolled back leaves cloud storage as it *)
(* was before the jobs were tried, and the config file too or half written,*)
(* whichever job or command failed, but for what is to blame.              *)
THEOREM ConfigUpdateRollbackRestores == Spec => []RollbackRestores
<1>1. AllInv => RollbackRestores
  <2> SUFFICES ASSUME AllInv, result = "failed", blame = {}
               PROVE  stored = before.stored /\ disk \in {before.disk, None}
    BY DEF RollbackRestores
  <2>1. /\ BackInv /\ Tried /\ At("idle") /\ stored \in [Hashes -> Contents]
        /\ \A i \in DOMAIN jobs : ~jobs[i].updated
    BY DEF AllInv, BackInv, FailedInv, Tried, Remains, Inv, TypeOK
  <2>2. /\ before \in [stored : [Hashes -> Contents], disk : Configs \cup {None}]
        /\ disk \in {before.disk, None}
        /\ \A h \in Hashes : Kept(h)
    BY <2>1 DEF BackInv, BeforeInv, At
  <2>3. \A h \in Hashes : stored[h] = before.stored[h]
    BY <2>1, <2>2 DEF Kept
  <2>4. before.stored \in [Hashes -> Contents]
    BY <2>2
  <2> QED BY <2>1, <2>2, <2>3, <2>4
<1> QED BY InitAll, AllStep, <1>1, PTL DEF Spec
=============================================================================
