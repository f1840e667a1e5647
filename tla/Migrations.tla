----------------------------- MODULE Migrations ------------------------------
(***************************************************************************)
(* The schema migrations of a start                                         *)
(* (orchestrator-go/internal/db/migrations.go, legacy_skills_export.go,     *)
(* session_timestamp_migration.go).  Skills once kept in a table are        *)
(* written as files the user owns: the files and the database cannot commit *)
(* together, so a copy stays in a recovery table and is exported again at   *)
(* every start.  Meanwhile the user may write, edit or remove the files,    *)
(* and the machine may lose the ones no directory flush made durable.       *)
(***************************************************************************)
EXTENDS Integers, FiniteSets, FiniteSetsExt

CONSTANTS
  Skills,      \* legacy skills
  Sessions,    \* stored sessions, ordered (a set of numbers)
  BatchSize,   \* sessionTimestampMigrationBatchSize
  MaxFaults,   \* crashes and restarts of one behaviour
  MaxEdits     \* what the user does to the files

VARIABLES
  applied,     \* schema_migrations
  skills,      \* rows of table skills
  recovery,    \* rows of legacy_skill_export_recovery, NoTable when dropped
  file,        \* imported/<skill>/SKILL.md: "none", "ours" or "user"
  durable,     \* files a crash cannot take
  times,       \* session -> "legacy", "canonical" or "bad"
  phase, version, queue, skill,   \* the start in progress
  after, newTimes,                \* normalizeSessionTimestamps and its transaction
  faults, edits

files == <<file, durable>>
start == <<phase, version, queue, skill, after, newTimes>>
vars == <<applied, skills, recovery, file, durable, times, start, faults, edits>>

Versions == 1 .. 3
FileSkills == 2   \* 0011_file_skills
Lifecycle == 3    \* 0015_session_lifecycle
NoTable == {"no table"}
None == "none"

Init ==
  /\ applied = {1} /\ skills \in SUBSET Skills /\ recovery = NoTable
  /\ file \in [Skills -> {"none", "user"}] /\ durable = {s \in Skills : file[s] # "none"}
  /\ times \in [Sessions -> {"legacy", "bad"}] /\ newTimes = times
  /\ phase = "off" /\ version = 0 /\ queue = {} /\ skill = None /\ after = 0
  /\ faults = 0 /\ edits = 0

Export(rows, then) ==
  /\ queue' = rows
  /\ phase' = then

Stop(why) == phase' = why /\ queue' = {} /\ skill' = None

(***************************************************************************)
(* recoverPendingLegacySkills                                               *)
(***************************************************************************)
Retained(rows) == IF rows = {} THEN NoTable ELSE rows

Boot ==
  /\ phase = "off"
  /\ version' = 0
  /\ IF recovery = NoTable
     THEN Export({}, "recover") /\ UNCHANGED recovery
     ELSE Export(recovery, "recover") /\ recovery' = Retained(recovery)
  /\ UNCHANGED <<applied, skills, files, times, skill, after, newTimes, faults, edits>>

(***************************************************************************)
(* exportSkillRows, one skill at a time                                     *)
(***************************************************************************)
Exporting == phase \in {"recover", "export"}


Conflicts(s) == file[s] = "user"

(* writeExportOnceAt up to the temporary file. *)
Inspect ==
  /\ Exporting /\ skill = None
  /\ \E s \in queue :
       \/ Conflicts(s) /\ Stop("refused")
       \/ ~Conflicts(s) /\ file[s] = "ours" /\ queue' = queue \ {s} /\ UNCHANGED <<skill, phase>>
       \/ file[s] = "none" /\ skill' = s /\ UNCHANGED <<queue, phase>>
  /\ UNCHANGED <<applied, skills, recovery, files, times, version, after, newTimes, faults, edits>>

MayLink(s) == file[s] = "none"

(* The temporary file, flushed, is linked under its name: a file that        *)
(* appeared meanwhile is compared, not replaced.  The directory is not      *)
(* flushed.                                                                 *)
Install ==
  /\ Exporting /\ skill # None
  /\ IF MayLink(skill)
     THEN file' = [file EXCEPT ![skill] = "ours"] /\ durable' = durable \ {skill}
     ELSE UNCHANGED files
  /\ IF file'[skill] = "ours" THEN queue' = queue \ {skill} /\ skill' = None /\ UNCHANGED phase
                              ELSE Stop("refused")
  /\ UNCHANGED <<applied, skills, recovery, times, version, after, newTimes, faults, edits>>

Exported ==
  /\ Exporting /\ queue = {}
  /\ phase' = IF phase = "recover" THEN "next" ELSE "apply"
  /\ UNCHANGED <<applied, skills, recovery, files, times, version, queue, skill, after, newTimes, faults, edits>>

(***************************************************************************)
(* The loop over the versions                                               *)
(***************************************************************************)
Pending == Versions \ applied

PhaseOf(v) ==
  CASE v = FileSkills -> "export"
    [] v = Lifecycle -> "normalize"
    [] OTHER -> "apply"

NextVersion ==
  /\ phase = "next"
  /\ IF Pending = {}
     THEN phase' = "serving" /\ UNCHANGED <<version, queue, after, newTimes>>
     ELSE /\ version' = Min(Pending)
          /\ Export(IF version' = FileSkills THEN skills ELSE {}, PhaseOf(version'))
          /\ after' = 0 /\ newTimes' = times
  /\ UNCHANGED <<applied, skills, recovery, files, times, skill, faults, edits>>

(* normalizeSessionTimestamps: one batch by key. *)
BatchAfter(id) ==
  LET rest == {s \in Sessions : s > id}
  IN  {s \in rest : Cardinality({t \in rest : t <= s}) <= BatchSize}

IsLast(batch) == Cardinality(batch) < BatchSize

Normalize ==
  /\ phase = "normalize"
  /\ LET batch == BatchAfter(after)
     IN  IF \E s \in batch : newTimes[s] = "bad" THEN Stop("refused") /\ UNCHANGED <<after, newTimes>>
         ELSE /\ newTimes' = [s \in Sessions |-> IF s \in batch THEN "canonical" ELSE newTimes[s]]
              /\ after' = IF batch = {} THEN after ELSE Max(batch)
              /\ phase' = IF IsLast(batch) THEN "apply" ELSE phase
              /\ UNCHANGED <<queue, skill>>
  /\ UNCHANGED <<applied, skills, recovery, files, times, version, faults, edits>>

(* The SQL of the version, its row in schema_migrations, and the commit. *)
Apply ==
  /\ phase = "apply"
  /\ applied' = applied \cup {version}
  /\ IF version = FileSkills THEN recovery' = skills /\ skills' = {} ELSE UNCHANGED <<recovery, skills>>
  /\ IF version = Lifecycle THEN times' = newTimes ELSE UNCHANGED times
  /\ phase' = IF version = FileSkills THEN "drop" ELSE "next"
  /\ UNCHANGED <<files, version, queue, skill, after, newTimes, faults, edits>>

(* dropEmptyLegacySkillRecovery *)
DropEmpty ==
  /\ phase = "drop"
  /\ recovery' = Retained(recovery)
  /\ phase' = "next"
  /\ UNCHANGED <<applied, skills, files, times, version, queue, skill, after, newTimes, faults, edits>>

Program == Boot \/ Inspect \/ Install \/ Exported \/ NextVersion \/ Normalize \/ Apply \/ DropEmpty

(***************************************************************************)
(* The environment                                                          *)
(***************************************************************************)
(* Power is lost, or the process is stopped or started again: a file whose   *)
(* directory entry is not durable may go.                                    *)
Restart ==
  /\ phase # "off" /\ faults < MaxFaults
  /\ faults' = faults + 1
  /\ Stop("off")
  /\ \E kept \in SUBSET {s \in Skills : file[s] # "none"} :
       /\ durable \subseteq kept
       /\ file' = [s \in Skills |-> IF s \in kept THEN file[s] ELSE "none"]
       /\ durable' = kept
  /\ UNCHANGED <<applied, skills, recovery, times, version, after, newTimes, edits>>

(* The user writes a file of their own, or removes one. *)
UserWrites(s) ==
  /\ edits < MaxEdits /\ edits' = edits + 1
  /\ \/ file' = [file EXCEPT ![s] = "user"] /\ durable' = durable \cup {s}
     \/ file[s] # "none" /\ file' = [file EXCEPT ![s] = "none"] /\ durable' = durable \ {s}
  /\ UNCHANGED <<applied, skills, recovery, times, start, faults>>

Next == Program \/ Restart \/ \E s \in Skills : UserWrites(s)
Spec == Init /\ [][Next]_vars

(* A start runs to its end, and one that was stopped is begun again. *)
Fairness == WF_vars(Program)

-----------------------------------------------------------------------------
(* The shape of the state; nothing of a start survives its end. *)
TypeOK ==
  /\ applied \subseteq Versions /\ skills \subseteq Skills
  /\ recovery = NoTable \/ recovery \subseteq Skills
  /\ phase \in {"off", "recover", "export", "next", "apply", "normalize", "drop", "serving", "refused"}
  /\ phase \in {"off", "serving", "refused"} => queue = {} /\ skill = None
  /\ queue \subseteq Skills /\ (skill = None \/ skill \in queue)
  /\ durable \subseteq {s \in Skills : file[s] # "none"}

(* A legacy skill is never lost: at every moment the table or the recovery   *)
(* copy still holds it, however the files come and go.                       *)
SkillKept ==
  [][\A s \in Skills :
       s \in skills \/ (recovery # NoTable /\ s \in recovery) =>
         s \in skills' \/ (recovery' # NoTable /\ s \in recovery')]_vars

(* A start never replaces a file of the user, not even one written while it  *)
(* was exporting the same skill.                                             *)
UserFileKept == [][Program => \A s \in Skills : file[s] = "user" => file'[s] = "user"]_vars

(* Once the sessions are migrated every stored time has the form the         *)
(* listings compare, wherever the batches end and whatever crash came first.  *)
TimesComparable == Lifecycle \in applied => \A s \in Sessions : times[s] = "canonical"

(* A start ends: with the server, unless the user keeps a different file     *)
(* where a skill goes or a stored time cannot be read.                       *)
StartsServing ==
  []((\A s \in Skills : file[s] # "user") /\ \A s \in Sessions : times[s] # "bad")
    => <>(phase = "serving")
=============================================================================
