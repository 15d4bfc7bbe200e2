---------------------------- MODULE ConfigUpdate ---------------------------
(***************************************************************************)
(* dependency_manager/base_config.py and uploader.py: a config file names, *)
(* for each platform, the hash of a file in cloud storage.  Updates change *)
(* the config in memory and wait; ExecuteUpdateJobs uploads their files,   *)
(* each to the path made of its hash, and then writes the config.  When    *)
(* anything raises, the uploads are rolled back one by one, and the jobs   *)
(* stay for the next try.                                                  *)
(***************************************************************************)
EXTENDS Integers, Sequences

CONSTANTS Platforms,
          Hashes,    \* files, named by their hash
          Foreign,   \* what someone else stored where a file would go
          None,      \* nothing stored; the path "None"
          MaxJobs    \* bound: jobs waiting

ASSUME ConfigUpdateConstants ==
    None \notin Hashes \cup {Foreign} /\ Foreign \notin Hashes /\ MaxJobs \in Nat

VARIABLES mem,      \* _config_data: the hash of each platform, a download path
          disk,     \* the config file; None when half written
          jobs,     \* _pending_uploads
          exec,     \* ExecuteUpdateJobs: where it is, at which job, with force
          stored,   \* [Hashes -> what cloud storage has at the path of a file]
          backup,   \* [Hashes and None -> what it has at the path of a backup]
          result,   \* how the last operation ended
          before,   \* history: stored and disk before the jobs were tried
          blame     \* history: what befell this and earlier executions

cloud == <<stored, backup>>
vars == <<mem, disk, jobs, exec, stored, backup, result, before, blame>>

Configs == [hash : [Platforms -> Hashes], path : BOOLEAN]
Contents == Hashes \cup {Foreign, None}
Job(h) == [hash |-> h, updated |-> FALSE, backedUp |-> FALSE, backupPath |-> h]
Idle == [at |-> "idle", n |-> 0, force |-> FALSE]

Init ==
    /\ disk \in Configs /\ mem = disk
    /\ jobs = <<>> /\ exec = Idle
    /\ stored \in [Hashes -> Contents]
    /\ \A h \in Hashes : stored[h] \in {h, Foreign, None}
    /\ \A pl \in Platforms : stored[disk.hash[pl]] = disk.hash[pl]
    /\ backup = [h \in Hashes \cup {None} |-> None]
    /\ result = "none" /\ before = None /\ blame = {}

-----------------------------------------------------------------------------
At(where) == exec.at = where
Goto(where) == exec' = [exec EXCEPT !.at = where]

(* The exception handler: every job is rolled back, the last one first.    *)
Raise == exec' = [exec EXCEPT !.at = "rollback", !.n = Len(jobs)]

Return(how) ==
    /\ exec' = Idle /\ result' = how

Dirty == mem # disk

(* A rollback that raised did not come to this job.                        *)
Remains(j) == j.updated \/ (j.backedUp /\ j.backupPath # None)

Begin(force) ==
    /\ exec' = [at |-> "exists", n |-> 1, force |-> force]
    /\ before' = IF \E i \in DOMAIN jobs : Remains(jobs[i])
                 THEN before ELSE [stored |-> stored, disk |-> disk]
    /\ result' = "none"

(* The config is read each time to see whether it is dirty: nothing works  *)
(* any more when it is half written.                                       *)
SetDownloadPath ==
    /\ At("idle") /\ mem' = [mem EXCEPT !.path = ~mem.path] /\ result' = "none"
    /\ UNCHANGED <<disk, jobs, exec, cloud, before, blame>>

AddUpdateJob(pl, h, execute) ==
    /\ At("idle") /\ disk # None /\ Len(jobs) < MaxJobs
    /\ Dirty => ~execute
    /\ mem' = [mem EXCEPT !.hash[pl] = h]
    /\ jobs' = Append(jobs, Job(h))
    /\ IF execute /\ mem' # disk THEN Begin(FALSE)
       ELSE result' = "none" /\ UNCHANGED <<exec, before>>
    /\ UNCHANGED <<disk, cloud, blame>>

Execute(force) ==
    /\ At("idle") /\ disk # None
    /\ IF ~Dirty THEN result' = "clean" /\ UNCHANGED <<exec, before>>
       ELSE IF jobs = <<>> THEN result' = "true" /\ UNCHANGED <<exec, before>>
       ELSE Begin(force)
    /\ UNCHANGED <<mem, disk, jobs, cloud, blame>>

-----------------------------------------------------------------------------
(* CloudStorageUploader.Upload of one job, the config file, and the end.   *)
job == jobs[exec.n]

Exists ==
    /\ At("exists") /\ exec.n <= Len(jobs)
    /\ IF stored[job.hash] = None THEN Goto("insert")
       ELSE IF exec.force THEN Goto("copy") ELSE Raise
    /\ UNCHANGED <<mem, disk, jobs, cloud, result, before, blame>>

(* Mutant: the file is not marked as backed up.                            *)
Copy_Unmarked ==
    /\ At("copy") /\ Goto("insert")
    /\ backup' = [backup EXCEPT ![job.backupPath] = stored[job.hash]]
    /\ UNCHANGED <<mem, disk, jobs, stored, result, before, blame>>

Copy ==
    /\ At("copy") /\ Goto("insert")
    /\ backup' = [backup EXCEPT ![job.backupPath] = stored[job.hash]]
    /\ jobs' = [jobs EXCEPT ![exec.n].backedUp = TRUE]
    /\ blame' = blame \cup (IF \E i \in 1..(exec.n - 1) : jobs[i].hash = job.hash
                            THEN {"shared"} ELSE {})
                       \cup (IF Remains(job) THEN {"retried"} ELSE {})
    /\ UNCHANGED <<mem, disk, stored, result, before>>

(* Mutant: the next file is uploaded without a look at what is there.      *)
Insert_NextUnseen ==
    /\ At("insert")
    /\ stored' = [stored EXCEPT ![job.hash] = job.hash]
    /\ jobs' = [jobs EXCEPT ![exec.n].updated = TRUE]
    /\ exec' = [exec EXCEPT !.n = @ + 1]
    /\ UNCHANGED <<mem, disk, backup, result, before, blame>>

Insert ==
    /\ At("insert")
    /\ stored' = [stored EXCEPT ![job.hash] = job.hash]
    /\ jobs' = [jobs EXCEPT ![exec.n].updated = TRUE]
    /\ exec' = [exec EXCEPT !.at = "exists", !.n = @ + 1]
    /\ UNCHANGED <<mem, disk, backup, result, before, blame>>

(* Opened for writing the file is empty.                                   *)
OpenConfig ==
    /\ At("exists") /\ exec.n > Len(jobs)
    /\ disk' = None /\ Goto("dump")
    /\ UNCHANGED <<mem, jobs, cloud, result, before, blame>>

DumpConfig ==
    /\ At("dump") /\ disk' = mem /\ Goto("clear")
    /\ UNCHANGED <<mem, jobs, cloud, result, before, blame>>

Clear ==
    /\ At("clear") /\ jobs' = <<>> /\ Return("true") /\ before' = None
    /\ UNCHANGED <<mem, disk, cloud, blame>>

(* A command fails, the disk does, or the user interrupts.                 *)
Fail ==
    /\ exec.at \in {"exists", "copy", "insert", "dump"} /\ Raise
    /\ UNCHANGED <<mem, disk, jobs, cloud, result, before, blame>>

(* The interrupt comes when the step is done and nobody has noted it.      *)
InterruptAfter ==
    /\ \/ At("copy") /\ backup' = [backup EXCEPT ![job.backupPath] = stored[job.hash]]
                      /\ UNCHANGED stored
       \/ At("insert") /\ stored' = [stored EXCEPT ![job.hash] = job.hash]
                        /\ UNCHANGED backup
       \/ At("clear") /\ UNCHANGED cloud
    /\ Raise /\ blame' = blame \cup {"interrupted"}
    /\ UNCHANGED <<mem, disk, jobs, result, before>>

-----------------------------------------------------------------------------
(* CloudStorageUploader.Rollback.                                          *)
Undone == jobs' = [jobs EXCEPT ![exec.n].updated = FALSE,
                               ![exec.n].backupPath = IF job.backedUp THEN None ELSE @]
Restore ==
    /\ At("rollback") /\ exec.n > 0 /\ job.backedUp
    /\ backup[job.backupPath] # None
    /\ stored' = [stored EXCEPT ![job.hash] = backup[job.backupPath]]
    /\ blame' = IF job.backupPath = None THEN blame \cup {"retried"} ELSE blame
    /\ Undone /\ exec' = [exec EXCEPT !.n = @ - 1]
    /\ UNCHANGED <<mem, disk, backup, result, before>>

(* Mutant: the uploaded file is left.                                      *)
Delete_Forgotten ==
    /\ At("rollback") /\ exec.n > 0 /\ ~job.backedUp /\ job.updated
    /\ Undone /\ exec' = [exec EXCEPT !.n = @ - 1]
    /\ UNCHANGED <<mem, disk, cloud, result, before, blame>>

Delete ==
    /\ At("rollback") /\ exec.n > 0 /\ ~job.backedUp /\ job.updated
    /\ stored[job.hash] # None
    /\ stored' = [stored EXCEPT ![job.hash] = None]
    /\ Undone /\ exec' = [exec EXCEPT !.n = @ - 1]
    /\ UNCHANGED <<mem, disk, backup, result, before, blame>>

NothingToUndo ==
    /\ At("rollback") /\ exec.n > 0 /\ ~job.backedUp /\ ~job.updated
    /\ exec' = [exec EXCEPT !.n = @ - 1]
    /\ UNCHANGED <<mem, disk, jobs, cloud, result, before, blame>>

RolledBack ==
    /\ At("rollback") /\ exec.n = 0 /\ Return("failed")
    /\ UNCHANGED <<mem, disk, jobs, cloud, before, blame>>

(* The command of a rollback fails, or what it names is not there: the     *)
(* rest is not rolled back.                                                *)
RollbackFails ==
    /\ At("rollback") /\ exec.n > 0 /\ (job.backedUp \/ job.updated)
    /\ Return("stuck")
    /\ UNCHANGED <<mem, disk, jobs, cloud, before, blame>>

(* The process ends; the next one reads the config file.                   *)
Restart ==
    /\ disk # None
    /\ mem' = disk /\ jobs' = <<>> /\ Return("none") /\ before' = None
    /\ UNCHANGED <<disk, cloud, blame>>

Next ==
    \/ SetDownloadPath
    \/ \E pl \in Platforms, h \in Hashes, execute \in BOOLEAN : AddUpdateJob(pl, h, execute)
    \/ \E force \in BOOLEAN : Execute(force)
    \/ Exists \/ Copy \/ Insert \/ OpenConfig \/ DumpConfig \/ Clear
    \/ Fail \/ InterruptAfter
    \/ Restore \/ Delete \/ NothingToUndo \/ RolledBack \/ RollbackFails
    \/ Restart

Spec == Init /\ [][Next]_vars

-----------------------------------------------------------------------------
Jobs == [hash : Hashes, updated : BOOLEAN, backedUp : BOOLEAN, backupPath : Hashes \cup {None}]

(* Types: a job backs up to the path of its file, or to no path any more.  *)
TypeOK ==
    /\ mem \in Configs /\ disk \in Configs \cup {None}
    /\ jobs \in Seq(Jobs) /\ Len(jobs) <= MaxJobs
    /\ \A i \in DOMAIN jobs : jobs[i].backupPath \in {jobs[i].hash, None}
    /\ exec \in [at : {"idle", "exists", "copy", "insert", "dump", "clear", "rollback"},
                 n : 0..(MaxJobs + 1), force : BOOLEAN]
    /\ At("copy") \/ At("insert") => exec.n \in DOMAIN jobs
    /\ stored \in [Hashes -> Contents] /\ backup \in [Hashes \cup {None} -> Contents]
    /\ result \in {"none", "clean", "true", "failed", "stuck"}
    /\ before \in [stored : [Hashes -> Contents], disk : Configs \cup {None}] \cup {None}
    /\ blame \subseteq {"shared", "retried", "interrupted"}

(* "Update both platforms, or neither if either update fails": an execution*)
(* that failed and was rolled back leaves cloud storage and the config as  *)
(* they were, but for a config it could not write to its end.  Not so when *)
(* two jobs share a path, when a job is tried again after its rollback, or *)
(* when an interrupt comes before a step that is done was noted.           *)
RollbackRestores ==
    result = "failed" /\ blame = {}
        => stored = before.stored /\ disk \in {before.disk, None}

(* What the config file names can be downloaded, at every moment of every  *)
(* update and rollback.                                                    *)
PublishedIsStored ==
    disk # None /\ blame = {}
        => \A pl \in Platforms : stored[disk.hash[pl]] = disk.hash[pl]
=============================================================================
