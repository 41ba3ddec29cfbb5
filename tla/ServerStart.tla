------------------------------ MODULE ServerStart ------------------------------
(***************************************************************************)
(* Instances of the server that start on one database (server/main.go):    *)
(* pending migrations, each in a transaction of its own                    *)
(* (internal/database/migrate.go), the first admin                         *)
(* (internal/database/seed.go) and the default presets                     *)
(* (internal/transcoder/presets.go).  Any statement may fail, and an       *)
(* instance may stop at any time and start again.  Migrations are numbers  *)
(* in the order of their file names; what one does to the schema is that   *)
(* it ran.                                                                 *)
(***************************************************************************)
EXTENDS Naturals, FiniteSets

CONSTANTS
  Instances,
  Versions,    \* the embedded files
  NumPresets,  \* the default presets
  MaxTrouble   \* bound: errors and crashes

ASSUME StartAssumption ==
  Versions \subseteq Nat \ {0} /\ NumPresets \in Nat \ {0} /\ MaxTrouble \in Nat

ASSUME InstancesAssumption == IsFiniteSet(Instances)

VARIABLES
  applied,  \* table schema_migrations
  ran,      \* version -> how often its statements were committed
  admins,   \* whether there is an admin (role), and the row with the admin's email (row)
  presets,  \* number of a default preset -> its rows in encoding_presets
  insts,    \* instance -> where main is, and what it has read
  trouble   \* errors and crashes still to happen

seedVars == <<admins, presets>>
vars == <<applied, ran, seedVars, insts, trouble>>

\* todo: versions not applied when read; file: the one in the transaction; k: the preset
\* to create.
Down == [pc |-> "down", todo |-> {}, file |-> 0, k |-> 0]

Init ==
  /\ applied = {}
  /\ ran = [v \in Versions |-> 0]
  /\ admins = [role |-> FALSE, row |-> FALSE]
  /\ presets = [k \in 1 .. NumPresets |-> 0]
  /\ insts = [i \in Instances |-> Down]
  /\ trouble = MaxTrouble

Becomes(i, s) == insts' = [insts EXCEPT ![i] = s]
Goes(i, pc) == Becomes(i, [insts[i] EXCEPT !.pc = pc])

----------------------------------------------------------------------------
(* Migrations *)

\* The tracking table is there or is created, and read; there is no lock.
Migrate(i) ==
  /\ insts[i].pc = "down"
  /\ Becomes(i, [Down EXCEPT !.pc = "migrate", !.todo = Versions \ applied])
  /\ UNCHANGED <<applied, ran, seedVars, trouble>>

\* Mutant of nextFile: the files are not sorted.
nextFileAny(todo) == todo
nextFile(todo) == {f \in todo : \A g \in todo : f <= g}

\* A transaction is begun and the section Up is executed.
Exec(i) ==
  /\ insts[i].pc = "migrate"
  /\ \E f \in nextFile(insts[i].todo) :
       Becomes(i, [insts[i] EXCEPT !.pc = "executed", !.file = f])
  /\ UNCHANGED <<applied, ran, seedVars, trouble>>

\* version is the primary key: an INSERT waits for a transaction that has inserted the
\* same one, and fails if it is there.  Mutant of mayRecord: it is no key.
mayRecordAlways(i) == TRUE
mayRecord(i) ==
  /\ insts[i].file \notin applied
  /\ \A j \in Instances : insts[j].pc = "recorded" => insts[j].file # insts[i].file
Record(i) ==
  /\ insts[i].pc = "executed" /\ mayRecord(i)
  /\ Goes(i, "recorded")
  /\ UNCHANGED <<applied, ran, seedVars, trouble>>

Commit(i) ==
  /\ insts[i].pc = "recorded"
  /\ LET f == insts[i].file IN
     /\ applied' = applied \cup {f}
     /\ ran' = [ran EXCEPT ![f] = @ + 1]
     /\ Becomes(i, [insts[i] EXCEPT !.pc = "migrate", !.todo = @ \ {f}, !.file = 0])
  /\ UNCHANGED <<seedVars, trouble>>

\* A migration that fails is rolled back and ends the process, as does the version that
\* another instance has recorded.  Mutant of Failed: the next one is tried.
FailedGoesOn(s) == [s EXCEPT !.pc = "migrate", !.todo = @ \ {s.file}, !.file = 0]
Failed(s) == Down
Duplicate(i) ==
  /\ insts[i].pc = "executed" /\ insts[i].file \in applied
  /\ Becomes(i, Failed(insts[i]))
  /\ UNCHANGED <<applied, ran, seedVars, trouble>>
MigrationFails(i) ==
  /\ insts[i].pc \in {"executed", "recorded"} /\ trouble > 0 /\ trouble' = trouble - 1
  /\ Becomes(i, Failed(insts[i]))
  /\ UNCHANGED <<applied, ran, seedVars>>

Migrated(i) ==
  /\ insts[i].pc = "migrate" /\ insts[i].todo = {}
  /\ Goes(i, "admin")
  /\ UNCHANGED <<applied, ran, seedVars, trouble>>

----------------------------------------------------------------------------
(* The first rows *)

\* Without an admin one is inserted, unless a user has that email.
CountAdmins(i) ==
  /\ insts[i].pc = "admin"
  /\ Goes(i, IF admins.role THEN "presets" ELSE "insert")
  /\ UNCHANGED <<applied, ran, seedVars, trouble>>
InsertAdmin(i) ==
  /\ insts[i].pc = "insert"
  /\ admins' = IF admins.row THEN admins ELSE [role |-> TRUE, row |-> TRUE]
  /\ Goes(i, "presets")
  /\ UNCHANGED <<applied, ran, presets, trouble>>

\* Mutant of noPresets: the table is not looked at.
noPresetsAlways == TRUE
noPresets == \A k \in 1 .. NumPresets : presets[k] = 0

\* If there is none, they are created one after the other.
ListPresets(i) ==
  /\ insts[i].pc = "presets"
  /\ Becomes(i, [insts[i] EXCEPT !.pc = IF noPresets THEN "create" ELSE "serving",
                                 !.k = IF noPresets THEN 1 ELSE 0])
  /\ UNCHANGED <<applied, ran, seedVars, trouble>>
\* Mutant of isLast: there is one more.
isLastOffByOne(k) == k > NumPresets
isLast(k) == k = NumPresets
CreatePreset(i) ==
  /\ insts[i].pc = "create"
  /\ LET k == insts[i].k IN
     /\ presets' = [presets EXCEPT ![k] = @ + 1]
     /\ Becomes(i, [insts[i] EXCEPT !.pc = IF isLast(k) THEN "serving" ELSE "create",
                                    !.k = IF isLast(k) THEN 0 ELSE k + 1])
  /\ UNCHANGED <<applied, ran, admins, trouble>>

\* An error here is only a warning.
SeedingFails(i) ==
  /\ trouble > 0 /\ trouble' = trouble - 1
  /\ \/ insts[i].pc \in {"admin", "insert"} /\ Goes(i, "presets")
     \/ /\ insts[i].pc \in {"presets", "create"}
        /\ Becomes(i, [insts[i] EXCEPT !.pc = "serving", !.k = 0])
  /\ UNCHANGED <<applied, ran, seedVars>>

----------------------------------------------------------------------------
(* Around it *)

\* A user takes the email the admin is to have.
RegisterEmail ==
  /\ ~admins.row /\ \E i \in Instances : insts[i].pc = "serving"
  /\ admins' = [admins EXCEPT !.row = TRUE]
  /\ UNCHANGED <<applied, ran, presets, insts, trouble>>

\* A process that serves is ended, to start again.
Stop(i) ==
  /\ insts[i].pc = "serving"
  /\ Becomes(i, Down)
  /\ UNCHANGED <<applied, ran, seedVars, trouble>>

\* A process is ended while it starts; a transaction that was open is rolled back.
Crash(i) ==
  /\ insts[i].pc \notin {"down", "serving"} /\ trouble > 0 /\ trouble' = trouble - 1
  /\ Becomes(i, Down)
  /\ UNCHANGED <<applied, ran, seedVars>>

Next ==
  \/ RegisterEmail
  \/ \E i \in Instances :
       \/ Migrate(i) \/ Exec(i) \/ Record(i) \/ Commit(i)
       \/ Duplicate(i) \/ MigrationFails(i) \/ Migrated(i)
       \/ CountAdmins(i) \/ InsertAdmin(i) \/ ListPresets(i) \/ CreatePreset(i) \/ SeedingFails(i)
       \/ Stop(i) \/ Crash(i)

Spec == Init /\ [][Next]_vars

----------------------------------------------------------------------------
(* Properties *)

Instance ==
  [pc : {"down", "migrate", "executed", "recorded", "admin", "insert", "presets", "create",
         "serving"},
   todo : SUBSET Versions, file : Versions \cup {0}, k : 0 .. NumPresets]

\* Every variable stays in its type.
TypeOK ==
  /\ applied \subseteq Versions
  /\ ran \in [Versions -> Nat]
  /\ admins \in [role : BOOLEAN, row : BOOLEAN]
  /\ presets \in [1 .. NumPresets -> Nat]
  /\ insts \in [Instances -> Instance]
  /\ trouble \in Nat

\* Each migration the table names was committed once and no other ran, although
\* instances that start together find the same ones pending (migrate.go 47-103).
MigratedOnce == \A v \in Versions : ran[v] = IF v \in applied THEN 1 ELSE 0

\* The schema is always one that the files give in their order.
MigratedInOrder == \A v \in applied, w \in Versions : w < v => w \in applied

Seeding == {"admin", "insert", "presets", "create", "serving"}

\* An instance seeds and serves on the whole schema only (main.go 61-63).
ServesMigrated == \A i \in Instances : insts[i].pc \in Seeding => applied = Versions

\* The three together.
SchemaIsMigrated == MigratedOnce /\ MigratedInOrder /\ ServesMigrated

\* Without errors and crashes there is an admin as soon as an instance serves, and when
\* none is creating presets every one is there, at most once for each instance that
\* found none, however often they start again (seed.go 15-44, presets.go 196-230).
Seeded ==
  trouble = MaxTrouble /\ (\E i \in Instances : insts[i].pc = "serving") =>
    /\ admins.role
    /\ (\A i \in Instances : insts[i].pc # "create") =>
         \A k \in 1 .. NumPresets : presets[k] \in 1 .. Cardinality(Instances)

=============================================================================
