----------------------------- MODULE RequestsProofs -----------------------------
(***************************************************************************)
(* Proofs about the server's start and its requests.  First the start, for *)
(* any number of instances, migrations, default presets, errors and        *)
(* crashes: each migration is committed once, in the order of the files,   *)
(* nobody serves before the last one, and where nothing went wrong the     *)
(* first admin and the presets are there.  Then the accounts: a request    *)
(* keeps what it did not mean to change.  Last the composition the runs    *)
(* check: each part of it is a run of its component, so that what is       *)
(* proved of accounts and files holds there.                               *)
(***************************************************************************)
EXTENDS MCRequests, FiniteSetTheorems, TLAPS

Migrating == {"migrate", "executed", "recorded"}

\* What an instance does not have to do is done, whoever did it.
DoneOrToDo == \A i \in Instances : insts[i].pc \in Migrating => Versions \ insts[i].todo \subseteq applied

\* The file in a transaction is the first of those to do.
FirstToDo ==
  \A i \in Instances : insts[i].pc \in {"executed", "recorded"} =>
    /\ insts[i].file \in insts[i].todo
    /\ \A g \in insts[i].todo : insts[i].file <= g

\* A version inserted in an open transaction is new, and in no other one.
RecordedIsNew ==
  \A i \in Instances : insts[i].pc = "recorded" =>
    /\ insts[i].file \notin applied
    /\ \A j \in Instances : j # i /\ insts[j].pc = "recorded" => insts[j].file # insts[i].file

\* The inductive invariant: the schema is what the files give because of what each
\* instance on its way has read and inserted.
StartInv == TypeOK /\ SchemaIsMigrated /\ DoneOrToDo /\ FirstToDo /\ RecordedIsNew

----------------------------------------------------------------------------
\* One instance changes and keeps its type.
LEMMA InstanceStep ==
  ASSUME TypeOK, NEW i \in Instances, NEW s \in Instance, Becomes(i, s)
  PROVE  insts' \in [Instances -> Instance]
BY DEF TypeOK, Becomes

\* Every variable keeps its type (main.go 60-125).
LEMMA TypeStep == TypeOK /\ FirstToDo /\ [Next]_vars => TypeOK'
<1> SUFFICES ASSUME TypeOK, FirstToDo, [Next]_vars PROVE TypeOK'
  OBVIOUS
<1> USE StartAssumption
<1>1. CASE UNCHANGED vars
  BY <1>1 DEF TypeOK, vars, seedVars
<1>2. CASE RegisterEmail
  BY <1>2 DEF TypeOK, RegisterEmail
<1>3. ASSUME NEW i \in Instances,
        Migrate(i) \/ Exec(i) \/ Record(i) \/ Commit(i) \/ Duplicate(i) \/ MigrationFails(i)
        \/ Migrated(i) \/ CountAdmins(i) \/ InsertAdmin(i) \/ ListPresets(i) \/ CreatePreset(i)
        \/ SeedingFails(i) \/ Stop(i) \/ Crash(i)
      PROVE  TypeOK'
  <2> DEFINE s == insts[i]
  <2> s \in Instance /\ Down \in Instance
    BY DEF TypeOK, Instance, Down
  <2>0. ASSUME insts' \in [Instances -> Instance], UNCHANGED <<applied, ran, seedVars>>, trouble' \in Nat
        PROVE  TypeOK'
    BY <2>0 DEF TypeOK, seedVars
  <2>02. ASSUME trouble > 0 /\ trouble' = trouble - 1 PROVE trouble' \in Nat
    BY <2>02 DEF TypeOK
  <2>03. 0 \in 0 .. NumPresets /\ 1 \in 0 .. NumPresets
    BY DEF StartAssumption
  <2>01. trouble \in Nat
    BY DEF TypeOK
  <2>a. ASSUME NEW pc \in {"down", "migrate", "executed", "recorded", "admin", "insert", "presets",
                          "create", "serving"}, Goes(i, pc)
        PROVE  insts' \in [Instances -> Instance]
    <3>1. [s EXCEPT !.pc = pc] \in Instance
      BY DEF Instance
    <3> QED
      BY <2>a, <3>1, InstanceStep DEF Goes
  <2>1. CASE Migrate(i)
    <3>1. [Down EXCEPT !.pc = "migrate", !.todo = Versions \ applied] \in Instance
      BY DEF Instance, Down
    <3> QED
      BY <2>0, <2>01, <2>1, <3>1, InstanceStep DEF Migrate
  <2>2. CASE Exec(i)
    <3>1. PICK f \in nextFile(s.todo) : Becomes(i, [s EXCEPT !.pc = "executed", !.file = f])
      BY <2>2 DEF Exec
    <3>2. f \in Versions
      BY DEF Instance, nextFile
    <3>3. [s EXCEPT !.pc = "executed", !.file = f] \in Instance
      BY <3>2 DEF Instance
    <3> QED
      BY <2>0, <2>01, <2>2, <3>1, <3>3, InstanceStep DEF Exec
  <2>3. CASE Record(i)
    BY <2>0, <2>01, <2>a, <2>3 DEF Record
  <2>4. CASE Commit(i)
    <3> DEFINE f == s.file
               t == [s EXCEPT !.pc = "migrate", !.todo = s.todo \ {f}, !.file = 0]
    <3>1. Becomes(i, t)
      BY <2>4 DEF Commit
    <3>2. t \in Instance
      BY DEF Instance
    <3>3. insts' \in [Instances -> Instance]
      BY <3>1, <3>2, InstanceStep
    <3>4. f \in Versions
      BY <2>4 DEF Commit, FirstToDo, Instance
    <3>5. ran' \in [Versions -> Nat]
      <4>1. ran \in [Versions -> Nat] /\ ran' = [ran EXCEPT ![f] = @ + 1]
        BY <2>4 DEF Commit, TypeOK
      <4>2. PICK v \in Versions : v = f
        BY <3>4
      <4>3. ran \in [Versions -> Nat]
        BY DEF TypeOK
      <4>4. PICK m \in Nat : m = ran[v]
        BY <4>3
      <4>5. PICK n : n = ran[f] + 1
        OBVIOUS
      <4>6. n \in Nat
        BY <4>2, <4>4, <4>5
      <4>7. ran' = [ran EXCEPT ![f] = n]
        BY <4>1, <4>5
      <4> HIDE DEF f
      <4> QED
        BY <4>3, <4>6, <4>7
    <3> QED
      BY <2>4, <3>3, <3>4, <3>5 DEF Commit, TypeOK, seedVars
  <2>5. CASE Duplicate(i) \/ MigrationFails(i) \/ Stop(i) \/ Crash(i)
    <3>1. Becomes(i, Down) /\ UNCHANGED <<applied, ran, seedVars>>
      BY <2>5 DEF Duplicate, MigrationFails, Stop, Crash, Failed
    <3>2. trouble' \in Nat
      BY <2>5, <2>01, <2>02 DEF Duplicate, MigrationFails, Stop, Crash
    <3> QED
      BY <2>0, <3>1, <3>2, InstanceStep
  <2>6. CASE Migrated(i)
    BY <2>0, <2>01, <2>a, <2>6 DEF Migrated
  <2>7. CASE CountAdmins(i)
    BY <2>0, <2>01, <2>a, <2>7 DEF CountAdmins
  <2>8. CASE InsertAdmin(i)
    <3>1. insts' \in [Instances -> Instance]
      BY <2>a, <2>8 DEF InsertAdmin
    <3> QED
      BY <2>8, <3>1 DEF InsertAdmin, TypeOK
  <2>9. CASE ListPresets(i)
    <3> DEFINE t == [s EXCEPT !.pc = IF noPresets THEN "create" ELSE "serving",
                              !.k = IF noPresets THEN 1 ELSE 0]
    <3>1. Becomes(i, t)
      BY <2>9 DEF ListPresets
    <3>2. t \in Instance
      BY <2>03 DEF Instance
    <3> QED
      BY <2>0, <2>01, <2>9, <3>1, <3>2, InstanceStep DEF ListPresets
  <2>10. CASE CreatePreset(i)
    <3> DEFINE t == [s EXCEPT !.pc = IF isLast(s.k) THEN "serving" ELSE "create",
                              !.k = IF isLast(s.k) THEN 0 ELSE s.k + 1]
    <3>1. Becomes(i, t)
      BY <2>10 DEF CreatePreset
    <3>2. s.k \in 0 .. NumPresets
      BY DEF Instance
    <3>3. ~isLast(s.k) => s.k + 1 \in 0 .. NumPresets
      BY <3>2 DEF isLast, StartAssumption
    <3>5. t \in Instance
      <4>1. CASE isLast(s.k)
        BY <4>1, <2>03 DEF Instance
      <4>2. CASE ~isLast(s.k)
        BY <4>2, <3>3 DEF Instance
      <4> QED
        BY <4>1, <4>2
    <3>6. insts' \in [Instances -> Instance]
      BY <3>1, <3>5, InstanceStep
    <3>7. presets' \in [1 .. NumPresets -> Nat]
      <4>1. presets \in [1 .. NumPresets -> Nat] /\ presets' = [presets EXCEPT ![s.k] = @ + 1]
        BY <2>10 DEF CreatePreset, TypeOK
      <4>2. s.k \in 1 .. NumPresets => presets[s.k] + 1 \in Nat
        BY <4>1
      <4> QED
        BY <4>1, <4>2
    <3> QED
      BY <2>10, <3>6, <3>7 DEF CreatePreset, TypeOK
  <2>11. CASE SeedingFails(i)
    <3>1. CASE Goes(i, "presets")
      BY <2>0, <2>02, <2>11, <2>a, <3>1 DEF SeedingFails
    <3>2. CASE Becomes(i, [s EXCEPT !.pc = "serving", !.k = 0])
      <4>1. [s EXCEPT !.pc = "serving", !.k = 0] \in Instance
        BY <2>03 DEF Instance
      <4> QED
        BY <2>0, <2>02, <2>11, <3>2, <4>1, InstanceStep DEF SeedingFails
    <3> QED
      BY <2>11, <3>1, <3>2 DEF SeedingFails
  <2> QED
    BY <1>3, <2>1, <2>2, <2>3, <2>4, <2>5, <2>6, <2>7, <2>8, <2>9, <2>10, <2>11
<1> QED
  BY <1>1, <1>2, <1>3 DEF Next

----------------------------------------------------------------------------
\* The invariant without the types.
Order == SchemaIsMigrated /\ DoneOrToDo /\ FirstToDo /\ RecordedIsNew

\* Nothing is applied yet, nobody runs.
LEMMA InitStartInv == Init => StartInv
BY StartAssumption
DEF Init, StartInv, TypeOK, Instance, Down, SchemaIsMigrated, MigratedOnce, MigratedInOrder,
    ServesMigrated, Seeding, DoneOrToDo, FirstToDo, RecordedIsNew, Migrating

\* A new state of one instance, as the others see it.
LEMMA OthersStay ==
  ASSUME TypeOK, NEW i \in Instances, NEW s, Becomes(i, s)
  PROVE  insts'[i] = s /\ \A j \in Instances : j # i => insts'[j] = insts[j]
BY DEF TypeOK, Becomes

\* An instance that goes down or on with the seeding leaves the order as it is.
LEMMA QuietStep ==
  ASSUME StartInv, NEW i \in Instances, NEW s, Becomes(i, s), UNCHANGED <<applied, ran>>,
         s.pc = "down" \/ (s.pc \in Seeding /\ applied = Versions)
  PROVE  Order'
<1>1. insts'[i] = s /\ \A j \in Instances : j # i => insts'[j] = insts[j]
  BY OthersStay DEF StartInv
<1>2. (MigratedOnce /\ MigratedInOrder)'
  BY DEF StartInv, SchemaIsMigrated, MigratedOnce, MigratedInOrder
<1>3. ServesMigrated'
  BY <1>1 DEF StartInv, SchemaIsMigrated, ServesMigrated, Seeding
<1>4. (DoneOrToDo /\ FirstToDo)'
  BY <1>1 DEF StartInv, DoneOrToDo, FirstToDo, Migrating, Seeding
<1>5. RecordedIsNew'
  BY <1>1 DEF StartInv, RecordedIsNew, Seeding
<1> QED
  BY <1>2, <1>3, <1>4, <1>5 DEF Order, SchemaIsMigrated

\* Reading what is pending, with whatever others do meanwhile.
LEMMA MigrateStep ==
  ASSUME StartInv, NEW i \in Instances, Migrate(i)
  PROVE  Order'
<1> DEFINE s == [Down EXCEPT !.pc = "migrate", !.todo = Versions \ applied]
<1>1. insts'[i] = s /\ \A j \in Instances : j # i => insts'[j] = insts[j]
  BY OthersStay DEF StartInv, Migrate
<1>2. s.pc = "migrate" /\ s.todo = Versions \ applied
  BY DEF Down
<1>3. applied' = applied /\ ran' = ran
  BY DEF Migrate
<1>4. (MigratedOnce /\ MigratedInOrder)'
  BY <1>3 DEF StartInv, SchemaIsMigrated, MigratedOnce, MigratedInOrder
<1>5. ServesMigrated'
  BY <1>1, <1>2, <1>3 DEF StartInv, SchemaIsMigrated, ServesMigrated, Seeding
<1>6. (DoneOrToDo /\ FirstToDo /\ RecordedIsNew)'
  BY <1>1, <1>2, <1>3 DEF StartInv, DoneOrToDo, FirstToDo, RecordedIsNew, Migrating
<1> QED
  BY <1>4, <1>5, <1>6 DEF Order, SchemaIsMigrated

\* The next file is executed.
LEMMA ExecStep ==
  ASSUME StartInv, NEW i \in Instances, Exec(i)
  PROVE  Order'
<1>1. PICK f \in nextFile(insts[i].todo) :
        Becomes(i, [insts[i] EXCEPT !.pc = "executed", !.file = f])
  BY DEF Exec
<1> DEFINE s == [insts[i] EXCEPT !.pc = "executed", !.file = f]
<1>2. insts[i] \in Instance
  BY DEF StartInv, TypeOK
<1>3. s.pc = "executed" /\ s.todo = insts[i].todo /\ s.file = f
  BY <1>2 DEF Instance
<1>4. insts'[i] = s /\ \A j \in Instances : j # i => insts'[j] = insts[j]
  BY <1>1, OthersStay DEF StartInv
<1>5. applied' = applied /\ ran' = ran /\ insts[i].pc = "migrate"
  BY DEF Exec
<1>6. (MigratedOnce /\ MigratedInOrder)'
  BY <1>5 DEF StartInv, SchemaIsMigrated, MigratedOnce, MigratedInOrder
<1>7. ServesMigrated'
  BY <1>3, <1>4, <1>5 DEF StartInv, SchemaIsMigrated, ServesMigrated, Seeding
<1>8. f \in insts[i].todo /\ \A g \in insts[i].todo : f <= g
  BY DEF nextFile
<1> HIDE DEF s
<1>9. (DoneOrToDo /\ FirstToDo /\ RecordedIsNew)'
  BY <1>3, <1>4, <1>5, <1>8 DEF StartInv, DoneOrToDo, FirstToDo, RecordedIsNew, Migrating
<1> QED
  BY <1>6, <1>7, <1>9 DEF Order, SchemaIsMigrated

\* The version is inserted, which nobody else has.
LEMMA RecordStep ==
  ASSUME StartInv, NEW i \in Instances, Record(i)
  PROVE  Order'
<1> DEFINE s == [insts[i] EXCEPT !.pc = "recorded"]
<1>1. insts[i] \in Instance
  BY DEF StartInv, TypeOK
<1>2. s.pc = "recorded" /\ s.todo = insts[i].todo /\ s.file = insts[i].file
  BY <1>1 DEF Instance
<1>3. insts'[i] = s /\ \A j \in Instances : j # i => insts'[j] = insts[j]
  BY OthersStay DEF StartInv, Record, Goes
<1>4. applied' = applied /\ ran' = ran /\ insts[i].pc = "executed"
  BY DEF Record
<1>5. (MigratedOnce /\ MigratedInOrder)'
  BY <1>4 DEF StartInv, SchemaIsMigrated, MigratedOnce, MigratedInOrder
<1> HIDE DEF s
<1>6. ServesMigrated'
  BY <1>2, <1>3, <1>4 DEF StartInv, SchemaIsMigrated, ServesMigrated, Seeding
<1>7. (DoneOrToDo /\ FirstToDo)'
  BY <1>2, <1>3, <1>4 DEF StartInv, DoneOrToDo, FirstToDo, Migrating
<1>8. RecordedIsNew'
  BY <1>2, <1>3, <1>4 DEF StartInv, RecordedIsNew, Record, mayRecord
<1> QED
  BY <1>5, <1>6, <1>7, <1>8 DEF Order, SchemaIsMigrated

\* A migration is committed: it is the first that was missing, and is missing no more.
LEMMA CommitStep ==
  ASSUME StartInv, NEW i \in Instances, Commit(i)
  PROVE  Order'
<1>1. PICK f, s : f = insts[i].file /\ s = [insts[i] EXCEPT !.pc = "migrate", !.todo = @ \ {f}, !.file = 0]
  OBVIOUS
<1>2. insts[i] \in Instance
  BY DEF StartInv, TypeOK
<1>3. s.pc = "migrate" /\ s.todo = insts[i].todo \ {f}
  BY <1>1, <1>2 DEF Instance
<1>4. insts[i].pc = "recorded" /\ Becomes(i, s) /\ applied' = applied \cup {f}
      /\ ran' = [ran EXCEPT ![f] = @ + 1]
  BY <1>1 DEF Commit
<1>5. insts'[i] = s /\ \A j \in Instances : j # i => insts'[j] = insts[j]
  BY <1>4, OthersStay DEF StartInv
<1>6. f \in insts[i].todo /\ (\A g \in insts[i].todo : f <= g) /\ f \in Versions
  BY <1>1, <1>2, <1>4 DEF StartInv, FirstToDo, Instance
<1>7. f \notin applied
      /\ \A j \in Instances : j # i /\ insts[j].pc = "recorded" => insts[j].file # f
  BY <1>1, <1>4 DEF StartInv, RecordedIsNew
<1>8. MigratedOnce'
  <2>1. \A v \in Versions : ran[v] = IF v \in applied THEN 1 ELSE 0
    BY DEF StartInv, SchemaIsMigrated, MigratedOnce
  <2>2. ran \in [Versions -> Nat]
    BY DEF StartInv, TypeOK
  <2>3. \A v \in Versions : ran'[v] = IF v = f THEN ran[f] + 1 ELSE ran[v]
    BY <1>4, <2>2
  <2>4. ran[f] = 0
    BY <1>6, <1>7, <2>1
  <2> QED
    BY <1>4, <2>1, <2>3, <2>4 DEF MigratedOnce
<1>9. MigratedInOrder'
  <2> SUFFICES ASSUME NEW v \in applied', NEW w \in Versions, w < v PROVE w \in applied'
    BY DEF MigratedInOrder
  <2>1. CASE v \in applied
    BY <1>4, <2>1 DEF StartInv, SchemaIsMigrated, MigratedInOrder
  <2>2. CASE v = f
    <3>1. w \in Nat /\ f \in Nat /\ ~(f <= w)
      BY <1>6, <2>2, StartAssumption DEF StartAssumption
    <3>2. w \notin insts[i].todo
      BY <1>6, <3>1
    <3>3. Versions \ insts[i].todo \subseteq applied
      BY <1>4 DEF StartInv, DoneOrToDo, Migrating
    <3> QED
      BY <1>4, <3>2, <3>3
  <2> QED
    BY <1>4, <2>1, <2>2
<1>10. ServesMigrated'
  <2>1. \A j \in Instances : insts'[j].pc \in Seeding => insts[j].pc \in Seeding
    BY <1>3, <1>5 DEF Seeding
  <2>2. applied' \subseteq Versions /\ applied \subseteq applied'
    BY <1>4, <1>6 DEF StartInv, TypeOK
  <2> QED
    BY <2>1, <2>2 DEF StartInv, SchemaIsMigrated, ServesMigrated
<1>11. DoneOrToDo'
  BY <1>3, <1>4, <1>5 DEF StartInv, DoneOrToDo, Migrating
<1>12. FirstToDo'
  BY <1>3, <1>5 DEF StartInv, FirstToDo
<1>13. RecordedIsNew'
  BY <1>3, <1>4, <1>5, <1>7 DEF StartInv, RecordedIsNew
<1> QED
  BY <1>8, <1>9, <1>10, <1>11, <1>12, <1>13 DEF Order, SchemaIsMigrated

----------------------------------------------------------------------------
\* Every step keeps the invariant.
LEMMA StartInvStep == StartInv /\ [Next]_vars => StartInv'
<1> SUFFICES ASSUME StartInv, [Next]_vars PROVE Order'
  BY TypeStep DEF StartInv, Order
<1>1. CASE UNCHANGED vars
  BY <1>1 DEF vars, StartInv, Order, SchemaIsMigrated, MigratedOnce, MigratedInOrder,
              ServesMigrated, DoneOrToDo, FirstToDo, RecordedIsNew
<1>2. CASE RegisterEmail
  BY <1>2 DEF RegisterEmail, StartInv, Order, SchemaIsMigrated, MigratedOnce, MigratedInOrder,
              ServesMigrated, DoneOrToDo, FirstToDo, RecordedIsNew
<1>3. ASSUME NEW i \in Instances, Duplicate(i) \/ MigrationFails(i) \/ Stop(i) \/ Crash(i)
      PROVE  Order'
  BY <1>3, QuietStep DEF Duplicate, MigrationFails, Stop, Crash, Failed, Down
<1>4. ASSUME NEW i \in Instances, NEW s, Becomes(i, s), s.pc \in Seeding,
             insts[i].pc \in Seeding \/ Migrated(i), UNCHANGED <<applied, ran>>
      PROVE  Order'
  <2>1. CASE insts[i].pc \in Seeding
    BY <1>4, <2>1, QuietStep DEF StartInv, SchemaIsMigrated, ServesMigrated
  <2>2. CASE Migrated(i)
    <3>1. Versions \ {} \subseteq applied /\ applied \subseteq Versions
      BY <2>2 DEF Migrated, StartInv, DoneOrToDo, Migrating, TypeOK
    <3>2. applied = Versions
      BY <3>1
    <3> QED
      BY <1>4, <3>2, QuietStep
  <2> QED
    BY <1>4, <2>1, <2>2
<1>5. ASSUME NEW i \in Instances, NEW pc \in Seeding, Goes(i, pc),
             insts[i].pc \in Seeding \/ Migrated(i), UNCHANGED <<applied, ran>>
      PROVE  Order'
  <2>1. insts[i] \in Instance
    BY DEF StartInv, TypeOK
  <2>2. [insts[i] EXCEPT !.pc = pc].pc = pc
    BY <2>1 DEF Instance
  <2> QED
    BY <1>4, <1>5, <2>2 DEF Goes
<1>6. ASSUME NEW i \in Instances, Migrated(i) PROVE Order'
  BY <1>5, <1>6 DEF Migrated, Seeding
<1>7. ASSUME NEW i \in Instances, CountAdmins(i) \/ InsertAdmin(i) PROVE Order'
  BY <1>5, <1>7 DEF CountAdmins, InsertAdmin, Seeding
<1>8. ASSUME NEW i \in Instances, ListPresets(i) \/ CreatePreset(i) \/ SeedingFails(i) PROVE Order'
  <2>1. PICK s : s = insts[i]
    OBVIOUS
  <2>2. s \in Instance
    BY <2>1 DEF StartInv, TypeOK
  <2>3. \A pc, k : [s EXCEPT !.pc = pc, !.k = k].pc = pc
    BY <2>2 DEF Instance
  <2>4. CASE ListPresets(i)
    <3>1. PICK pc, k : /\ pc = IF noPresets THEN "create" ELSE "serving"
                       /\ k = IF noPresets THEN 1 ELSE 0
      OBVIOUS
    <3>2. Becomes(i, [s EXCEPT !.pc = pc, !.k = k])
      BY <2>1, <2>4, <3>1 DEF ListPresets
    <3>3. pc \in {"create", "serving"}
      BY <3>1
    <3> QED
      BY <1>4, <2>1, <2>3, <2>4, <3>2, <3>3 DEF ListPresets, Seeding
  <2>5. CASE CreatePreset(i)
    <3>1. PICK pc, k : /\ pc = IF isLast(s.k) THEN "serving" ELSE "create"
                       /\ k = IF isLast(s.k) THEN 0 ELSE s.k + 1
      OBVIOUS
    <3>2. Becomes(i, [s EXCEPT !.pc = pc, !.k = k])
      BY <2>1, <2>5, <3>1 DEF CreatePreset
    <3>3. pc \in {"create", "serving"}
      BY <3>1
    <3> QED
      BY <1>4, <2>1, <2>3, <2>5, <3>2, <3>3 DEF CreatePreset, Seeding
  <2>6. CASE SeedingFails(i)
    <3>1. CASE Goes(i, "presets")
      BY <1>5, <2>6, <3>1 DEF SeedingFails, Seeding
    <3>2. CASE Becomes(i, [s EXCEPT !.pc = "serving", !.k = 0])
      BY <1>4, <2>1, <2>3, <2>6, <3>2 DEF SeedingFails, Seeding
    <3> QED
      BY <2>1, <2>6, <3>1, <3>2 DEF SeedingFails
  <2> QED
    BY <1>8, <2>4, <2>5, <2>6
<1> QED
  BY <1>1, <1>2, <1>3, <1>6, <1>7, <1>8, MigrateStep, ExecStep, RecordStep, CommitStep DEF Next

\* Every variable stays in its type, in every run of any number of instances (main.go).
THEOREM StartTypes == Spec => []TypeOK
<1>1. StartInv => TypeOK
  BY DEF StartInv
<1> QED
  BY <1>1, InitStartInv, StartInvStep, PTL DEF Spec

\* However many instances start together, fail and start again: each migration in the
\* table was committed once, no later one is there without the earlier ones, and an
\* instance seeds and serves only on the whole schema (migrate.go 19-106).
THEOREM SchemaMigrated == Spec => []SchemaIsMigrated
<1>1. StartInv => SchemaIsMigrated
  BY DEF StartInv
<1> QED
  BY <1>1, InitStartInv, StartInvStep, PTL DEF Spec

----------------------------------------------------------------------------
(* The first rows *)

Untroubled == trouble = MaxTrouble
Someone(pc) == \E i \in Instances : insts[i].pc = pc

\* Who may still create preset m.
Creators(m) == {i \in Instances : insts[i].pc = "create" /\ insts[i].k <= m}

\* The row with the admin's email is the admin's, and nobody is past it without one.
AdminThere ==
  /\ admins.row <=> admins.role
  /\ \A i \in Instances : insts[i].pc \in {"presets", "create", "serving"} => admins.role

\* Whoever creates presets has created those before.
CreatedSoFar ==
  \A i \in Instances : insts[i].pc = "create" =>
    insts[i].k >= 1 /\ \A m \in 1 .. NumPresets : m < insts[i].k => presets[m] >= 1

\* An instance creates a preset once: it began when there were none.
OncePerInstance ==
  \A m \in 1 .. NumPresets : presets[m] + Cardinality(Creators(m)) <= Cardinality(Instances)

\* Where there is a preset, or someone serves, all are there or are being created.
NoneMissing ==
  ~noPresets \/ Someone("serving") =>
    Someone("create") \/ \A m \in 1 .. NumPresets : presets[m] >= 1

Seeds == AdminThere /\ CreatedSoFar /\ OncePerInstance /\ NoneMissing

SeedInv == trouble <= MaxTrouble /\ (Untroubled => Seeds)

\* Those who may create a preset are finitely many.
LEMMA CreatorsFinite ==
  \A m : IsFiniteSet(Creators(m)) /\ Cardinality(Creators(m)) \in Nat
         /\ Cardinality(Creators(m)) <= Cardinality(Instances)
BY InstancesAssumption, FS_Subset, FS_CardinalityType DEF Creators

\* At the start there is nothing, and nobody on the way.
LEMMA InitSeedInv == Init => SeedInv
<1> SUFFICES ASSUME Init PROVE trouble <= MaxTrouble /\ Seeds
  BY DEF SeedInv
<1> USE StartAssumption
<1>1. AdminThere /\ CreatedSoFar
  BY DEF Init, Down, AdminThere, CreatedSoFar
<1>2. OncePerInstance
  BY CreatorsFinite DEF Init, OncePerInstance
<1>3. NoneMissing
  BY DEF Init, Down, NoneMissing, noPresets, Someone
<1> QED
  BY <1>1, <1>2, <1>3 DEF Init, Seeds

\* An instance on its way to the presets, or back from serving, changes nothing here.
LEMMA SeedsElsewhere ==
  ASSUME TypeOK, Seeds, NEW i \in Instances, NEW s, Becomes(i, s), UNCHANGED seedVars,
         insts[i].pc # "create", s.pc \notin {"create", "serving"}, s.pc = "presets" => admins.role
  PROVE  Seeds'
<1>1. insts'[i] = s /\ \A j \in Instances : j # i => insts'[j] = insts[j]
  BY OthersStay
<1>2. UNCHANGED <<admins, presets>>
  BY DEF seedVars
<1>3. AdminThere' /\ CreatedSoFar'
  BY <1>1, <1>2 DEF Seeds, AdminThere, CreatedSoFar
<1>4. \A m : Creators(m)' = Creators(m)
  BY <1>1 DEF Creators
<1>5. OncePerInstance'
  BY <1>2, <1>4 DEF Seeds, OncePerInstance
<1>6. (Someone("create")' <=> Someone("create")) /\ (Someone("serving")' => Someone("serving"))
  BY <1>1 DEF Someone
<1>7. NoneMissing'
  BY <1>2, <1>6 DEF Seeds, NoneMissing, noPresets
<1> QED
  BY <1>3, <1>5, <1>7 DEF Seeds

\* The admin is inserted, or was there.
LEMMA InsertAdminSeeds ==
  ASSUME TypeOK, Seeds, NEW i \in Instances, InsertAdmin(i)
  PROVE  Seeds'
<1>1. PICK s : s = [insts[i] EXCEPT !.pc = "presets"]
  OBVIOUS
<1>2. s.pc = "presets"
  BY <1>1 DEF TypeOK, Instance
<1>3. insts'[i] = s /\ \A j \in Instances : j # i => insts'[j] = insts[j]
  BY <1>1, OthersStay DEF InsertAdmin, Goes
<1>4. presets' = presets /\ insts[i].pc = "insert" /\ admins'.row /\ admins'.role
  BY DEF InsertAdmin, Seeds, AdminThere
<1>5. AdminThere' /\ CreatedSoFar'
  BY <1>2, <1>3, <1>4 DEF Seeds, AdminThere, CreatedSoFar
<1>6. \A m : Creators(m)' = Creators(m)
  BY <1>2, <1>3, <1>4 DEF Creators
<1>7. OncePerInstance'
  BY <1>4, <1>6 DEF Seeds, OncePerInstance
<1>8. (Someone("create")' <=> Someone("create")) /\ (Someone("serving")' <=> Someone("serving"))
  BY <1>2, <1>3, <1>4 DEF Someone
<1>9. NoneMissing'
  BY <1>4, <1>8 DEF Seeds, NoneMissing, noPresets
<1> QED
  BY <1>5, <1>7, <1>9 DEF Seeds

\* Whoever finds no preset may create each once; whoever finds one leaves them to others.
LEMMA ListPresetsSeeds ==
  ASSUME TypeOK, Seeds, NEW i \in Instances, ListPresets(i)
  PROVE  Seeds'
<1>1. PICK s : s = [insts[i] EXCEPT !.pc = IF noPresets THEN "create" ELSE "serving",
                                    !.k = IF noPresets THEN 1 ELSE 0]
  OBVIOUS
<1>2. s.pc = (IF noPresets THEN "create" ELSE "serving") /\ (noPresets => s.k = 1)
  BY <1>1 DEF TypeOK, Instance
<1>3. insts'[i] = s /\ \A j \in Instances : j # i => insts'[j] = insts[j]
  BY <1>1, OthersStay DEF ListPresets
<1>4. UNCHANGED <<admins, presets>> /\ insts[i].pc = "presets"
  BY DEF ListPresets, seedVars
<1>5. AdminThere'
  BY <1>3, <1>4 DEF Seeds, AdminThere
<1>6. CreatedSoFar'
  BY <1>2, <1>3, <1>4 DEF Seeds, CreatedSoFar
<1>7. OncePerInstance'
  <2>1. CASE noPresets
    <3>1. \A m \in 1 .. NumPresets : presets'[m] = 0
      BY <2>1, <1>4 DEF noPresets
    <3>2. \A m : Cardinality(Creators(m))' \in Nat /\ Cardinality(Creators(m))' <= Cardinality(Instances)
      BY CreatorsFinite, InstancesAssumption, FS_Subset, FS_CardinalityType DEF Creators
    <3> QED
      BY <3>1, <3>2 DEF OncePerInstance
  <2>2. CASE ~noPresets
    <3>1. \A m : Creators(m)' = Creators(m)
      BY <2>2, <1>2, <1>3, <1>4 DEF Creators
    <3> QED
      BY <3>1, <1>4 DEF Seeds, OncePerInstance
  <2> QED
    BY <2>1, <2>2
<1>8. NoneMissing'
  <2>1. CASE noPresets
    <3>1. Someone("create")'
      BY <2>1, <1>2, <1>3 DEF Someone
    <3> QED
      BY <3>1 DEF NoneMissing
  <2>2. CASE ~noPresets
    <3>1. Someone("create") => Someone("create")'
      BY <1>3, <1>4 DEF Someone
    <3> QED
      BY <2>2, <3>1, <1>4 DEF Seeds, NoneMissing
  <2> QED
    BY <2>1, <2>2
<1> QED
  BY <1>5, <1>6, <1>7, <1>8 DEF Seeds

\* One preset more, and one instance less that may create it.
LEMMA CreatePresetSeeds ==
  ASSUME TypeOK, Seeds, NEW i \in Instances, CreatePreset(i)
  PROVE  Seeds'
<1>1. PICK k : k = insts[i].k
  OBVIOUS
<1>2. PICK s : s = [insts[i] EXCEPT !.pc = IF isLast(k) THEN "serving" ELSE "create",
                                    !.k = IF isLast(k) THEN 0 ELSE k + 1]
  OBVIOUS
<1>3. insts[i] \in Instance /\ k \in 1 .. NumPresets /\ insts[i].pc = "create"
  BY <1>1, StartAssumption DEF TypeOK, Instance, CreatePreset, Seeds, CreatedSoFar
<1>4. s.pc = (IF isLast(k) THEN "serving" ELSE "create") /\ (~isLast(k) => s.k = k + 1)
  BY <1>2, <1>3 DEF Instance
<1>5. insts'[i] = s /\ \A j \in Instances : j # i => insts'[j] = insts[j]
  BY <1>1, <1>2, OthersStay DEF CreatePreset
<1>6. presets \in [1 .. NumPresets -> Nat] /\ presets' = [presets EXCEPT ![k] = @ + 1] /\ admins' = admins
  BY <1>1 DEF TypeOK, CreatePreset
<1>7. \A m \in 1 .. NumPresets : presets[m] \in Nat /\ presets'[m] = IF m = k THEN presets[m] + 1 ELSE presets[m]
  BY <1>6
<1>8. AdminThere'
  BY <1>3, <1>5, <1>6 DEF Seeds, AdminThere
<1>9. \A m \in 1 .. NumPresets : m <= k => presets'[m] >= 1
  BY <1>1, <1>3, <1>7 DEF Seeds, CreatedSoFar
<1>10. CreatedSoFar'
  <2> SUFFICES ASSUME NEW j \in Instances, insts'[j].pc = "create"
               PROVE  insts'[j].k >= 1 /\ \A m \in 1 .. NumPresets : m < insts'[j].k => presets'[m] >= 1
    BY DEF CreatedSoFar
  <2>1. CASE j = i
    <3>1. insts'[j].k = k + 1
      BY <2>1, <1>4, <1>5
    <3> QED
      BY <3>1, <1>3, <1>9
  <2>2. CASE j # i
    BY <2>2, <1>5, <1>7 DEF Seeds, CreatedSoFar
  <2> QED
    BY <2>1, <2>2
<1>11. OncePerInstance'
  <2> SUFFICES ASSUME NEW m \in 1 .. NumPresets
               PROVE  presets'[m] + Cardinality(Creators(m))' <= Cardinality(Instances)
    BY DEF OncePerInstance
  <2>1. Creators(m)' = IF m = k THEN Creators(m) \ {i} ELSE Creators(m)
    BY <1>1, <1>3, <1>4, <1>5 DEF Creators, isLast
  <2>2. presets[m] + Cardinality(Creators(m)) <= Cardinality(Instances)
    BY DEF Seeds, OncePerInstance
  <2>3. CASE m = k
    <3>1. i \in Creators(m)
      BY <2>3, <1>1, <1>3 DEF Creators
    <3>2. Cardinality(Creators(m) \ {i}) = Cardinality(Creators(m)) - 1 /\ Cardinality(Creators(m)) \in Nat
      BY <3>1, CreatorsFinite, FS_RemoveElement
    <3>3. Cardinality(Creators(m))' = Cardinality(Creators(m)) - 1
      BY <2>1, <2>3, <3>2
    <3>4. Cardinality(Instances) \in Nat
      BY InstancesAssumption, FS_CardinalityType
    <3> QED
      BY <2>2, <2>3, <3>2, <3>3, <3>4, <1>7
  <2>4. CASE m # k
    BY <2>1, <2>2, <2>4, <1>7
  <2> QED
    BY <2>3, <2>4
<1>12. NoneMissing'
  <2>1. CASE isLast(k)
    BY <2>1, <1>9 DEF isLast, NoneMissing
  <2>2. CASE ~isLast(k)
    <3>1. Someone("create")'
      BY <2>2, <1>4, <1>5 DEF Someone
    <3> QED
      BY <3>1 DEF NoneMissing
  <2> QED
    BY <2>1, <2>2
<1> QED
  BY <1>8, <1>10, <1>11, <1>12 DEF Seeds

\* Every step keeps the first rows: one that spends trouble ends the claim.
LEMMA SeedStep == TypeOK /\ SeedInv /\ [Next]_vars => SeedInv'
<1> SUFFICES ASSUME TypeOK, SeedInv, [Next]_vars PROVE SeedInv'
  OBVIOUS
<1>1. trouble \in Nat /\ MaxTrouble \in Nat /\ trouble <= MaxTrouble
  BY StartAssumption DEF TypeOK, SeedInv
<1>2. CASE trouble > 0 /\ trouble' = trouble - 1
  BY <1>1, <1>2 DEF SeedInv, Untroubled
<1>3. CASE trouble' = trouble
  <2> SUFFICES ASSUME Seeds PROVE Seeds'
    BY <1>1, <1>3 DEF SeedInv, Untroubled
  <2>1. CASE UNCHANGED vars
    BY <2>1 DEF vars, seedVars, Seeds, AdminThere, CreatedSoFar, OncePerInstance, NoneMissing,
                Creators, Someone, noPresets
  <2>2. CASE RegisterEmail
    BY <2>2 DEF RegisterEmail, Seeds, AdminThere
  <2>3. ASSUME NEW i \in Instances,
               \/ Migrate(i) \/ Exec(i) \/ Record(i) \/ Commit(i) \/ Duplicate(i) \/ Migrated(i)
               \/ CountAdmins(i) \/ Stop(i)
        PROVE  Seeds'
    <3>1. PICK t : t = insts[i]
      OBVIOUS
    <3>2. t \in Instance
      BY <3>1 DEF TypeOK
    <3>3. \A pc : [t EXCEPT !.pc = pc].pc = pc
      BY <3>2 DEF Instance
    <3>4. CASE Migrate(i)
      BY <3>4, SeedsElsewhere DEF Migrate, Down
    <3>5. CASE Exec(i)
      <4>1. PICK f : Becomes(i, [t EXCEPT !.pc = "executed", !.file = f])
        BY <3>1, <3>5 DEF Exec
      <4>2. [t EXCEPT !.pc = "executed", !.file = f].pc = "executed"
        BY <3>2 DEF Instance
      <4> QED
        BY <4>1, <4>2, <3>1, <3>5, SeedsElsewhere DEF Exec
    <3>6. CASE Record(i)
      BY <3>1, <3>3, <3>6, SeedsElsewhere DEF Record, Goes
    <3>7. CASE Commit(i)
      <4>1. PICK u : u = [t EXCEPT !.pc = "migrate", !.todo = @ \ {t.file}, !.file = 0]
        OBVIOUS
      <4>2. u.pc = "migrate" /\ Becomes(i, u) /\ UNCHANGED seedVars /\ t.pc = "recorded"
        BY <4>1, <3>1, <3>2, <3>7 DEF Commit, Instance
      <4> QED
        BY <4>2, <3>1, SeedsElsewhere
    <3>8. CASE Duplicate(i)
      BY <3>8, SeedsElsewhere DEF Duplicate, Failed, Down
    <3>9. CASE Migrated(i)
      BY <3>1, <3>3, <3>9, SeedsElsewhere DEF Migrated, Goes
    <3>10. CASE CountAdmins(i)
      BY <3>1, <3>3, <3>10, SeedsElsewhere DEF CountAdmins, Goes
    <3>11. CASE Stop(i)
      BY <3>11, SeedsElsewhere DEF Stop, Down
    <3> QED
      BY <2>3, <3>4, <3>5, <3>6, <3>7, <3>8, <3>9, <3>10, <3>11
  <2>4. ASSUME NEW i \in Instances, MigrationFails(i) \/ SeedingFails(i) \/ Crash(i)
        PROVE  FALSE
    BY <2>4, <1>1, <1>3 DEF MigrationFails, SeedingFails, Crash
  <2> QED
    BY <2>1, <2>2, <2>3, <2>4, InsertAdminSeeds, ListPresetsSeeds, CreatePresetSeeds DEF Next
<1>4. \/ trouble' = trouble
      \/ trouble > 0 /\ trouble' = trouble - 1
  BY DEF Next, vars, RegisterEmail, Migrate, Exec, Record, Commit, Duplicate, MigrationFails, Migrated,
         CountAdmins, InsertAdmin, ListPresets, CreatePreset, SeedingFails, Stop, Crash
<1> QED
  BY <1>2, <1>3, <1>4

\* As long as nothing fails, however many instances start at once and start again: when
\* one serves there is an admin, and when none creates presets each is there, and not more
\* often than there are instances (seed.go 15-44, presets.go 196-230).
THEOREM RowsSeeded == Spec => []Seeded
<1>1. TypeOK /\ SeedInv => Seeded
  <2> SUFFICES ASSUME TypeOK, Seeds, NEW i \in Instances, insts[i].pc = "serving"
               PROVE  /\ admins.role
                      /\ ~Someone("create") =>
                           \A k \in 1 .. NumPresets : presets[k] \in 1 .. Cardinality(Instances)
    BY DEF SeedInv, Untroubled, Seeded, Someone
  <2>1. admins.role
    BY DEF Seeds, AdminThere
  <2>2. ASSUME ~Someone("create"), NEW k \in 1 .. NumPresets
        PROVE  presets[k] \in 1 .. Cardinality(Instances)
    <3>1. presets[k] \in Nat /\ presets[k] >= 1
      BY <2>2 DEF TypeOK, Seeds, NoneMissing, Someone
    <3>2. presets[k] + Cardinality(Creators(k)) <= Cardinality(Instances)
      BY DEF Seeds, OncePerInstance
    <3>3. Cardinality(Instances) \in Nat /\ Cardinality(Creators(k)) \in Nat
      BY InstancesAssumption, FS_CardinalityType, CreatorsFinite
    <3> QED
      BY <3>1, <3>2, <3>3
  <2> QED
    BY <2>1, <2>2
<1>2. Spec => []TypeOK
  BY StartTypes
<1> QED
  BY <1>1, <1>2, InitSeedInv, SeedStep, PTL DEF Spec

----------------------------------------------------------------------------
(* Proofs: emails and Google accounts stay one user's, whoever signs in is     *)
(* active and the one meant, and an update loses nothing but what changed      *)
(* since it read the user                                                      *)

\* Nothing is called None.
NoneApart == None \notin Mails /\ None \notin Ids

WithUser == {"write", "issue", "link", "again", "set"}
WithMail == {"register", "byEmail", "create", "link", "again", "set"}

\* What an update is about to write back of a field is what the user has, what was asked
\* for, or changed since.
Reread(r, table) ==
  /\ table[r.who].email = r.email \/ r.field = "email" \/ "email" \in r.old
  /\ table[r.who].active = r.isActive \/ r.field = "active" \/ "active" \in r.old

\* What a request knows of its user.
Knows(r, table) ==
  /\ r.pc \in WithUser => r.who \in Ids
  /\ r.pc \in WithMail => r.mail \in Mails
  /\ r.pc = "write" => Reread(r, table)
  /\ r.pc = "issue" => (r.isActive => r.active)
  /\ r.pc = "tokens" => r.active
  /\ r.pc \in {"again", "issue", "tokens"} => (r.mail # None => r.linked)

AccountsInv == Accounts!TypeOK /\ Accounts!OneUserEach /\ \A s \in Slots : Knows(reqs[s], users)

----------------------------------------------------------------------------
\* The history that is noted of a step keeps what a request knows true of the new table.
LEMMA NotedKnows ==
  ASSUME users \in [Ids -> Accounts!User], users' \in [Ids -> Accounts!User],
         NEW r \in Accounts!Request, Knows(r, users)
  PROVE  Accounts!Noted(r) \in Accounts!Request /\ Knows(Accounts!Noted(r), users')
<1>1. CASE r.pc \in {"idle", "register", "byEmail", "create", "set", "tokens"}
  BY <1>1 DEF Accounts!Noted, Knows, WithUser, WithMail
<1>2. CASE r.pc = "write"
  <2>1. PICK old : old = r.old \cup {f \in Accounts!Fields : users'[r.who][f] # users[r.who][f]}
    OBVIOUS
  <2>2. Accounts!Noted(r) = [r EXCEPT !.old = old] /\ old \in SUBSET Accounts!Fields
        /\ r.who \in Ids
    BY <1>2, <2>1 DEF Accounts!Noted, Accounts!Request, Knows, WithUser
  <2>3. [r EXCEPT !.old = old] \in Accounts!Request
    BY <2>2 DEF Accounts!Request
  <2>4. users[r.who] \in Accounts!User /\ users'[r.who] \in Accounts!User
    BY <2>2
  <2>5. "email" \in old \/ ("email" \notin r.old /\ users'[r.who].email = users[r.who].email)
    BY <2>1, <2>4 DEF Accounts!Fields, Accounts!User
  <2>6. "active" \in old \/ ("active" \notin r.old /\ users'[r.who].active = users[r.who].active)
    BY <2>1, <2>4 DEF Accounts!Fields, Accounts!User
  <2>7. Reread(r, users)
    BY <1>2 DEF Knows
  <2>8. PICK q : q = [r EXCEPT !.old = old]
    OBVIOUS
  <2>9. q.pc = "write" /\ q.who = r.who /\ q.email = r.email /\ q.isActive = r.isActive
        /\ q.field = r.field /\ q.old = old
    BY <1>2, <2>8 DEF Accounts!Request
  <2>10. Reread(q, users')
    BY <2>5, <2>6, <2>7, <2>9 DEF Reread
  <2>11. Knows(q, users')
    BY <2>2, <2>9, <2>10 DEF Knows, WithUser, WithMail
  <2> QED
    BY <2>2, <2>3, <2>8, <2>11
<1>3. CASE r.pc \in {"issue", "link", "again"}
  <2>1. PICK active, linked :
          /\ active = (r.active \/ users'[r.who].active)
          /\ linked = (r.linked \/ (r.mail # None /\ users'[r.who].google = r.mail))
    OBVIOUS
  <2>2. r.who \in Ids
    BY <1>3 DEF Knows, WithUser
  <2>3. users'[r.who].active \in BOOLEAN
    BY <2>2 DEF Accounts!User
  <2>4. active \in BOOLEAN /\ linked \in BOOLEAN /\ (r.active => active) /\ (r.linked => linked)
    BY <2>1, <2>3 DEF Accounts!Request
  <2>5. Accounts!Noted(r) = [r EXCEPT !.active = active, !.linked = linked]
    BY <1>3, <2>1 DEF Accounts!Noted, Accounts!Request
  <2>6. PICK q : q = [r EXCEPT !.active = active, !.linked = linked]
    OBVIOUS
  <2>7. q \in Accounts!Request /\ q.pc = r.pc /\ q.who = r.who /\ q.mail = r.mail
        /\ q.isActive = r.isActive
        /\ q.active = active /\ q.linked = linked
    BY <2>4, <2>6 DEF Accounts!Request
  <2>8. Knows(q, users')
    BY <1>3, <2>4, <2>7 DEF Knows, WithUser, WithMail
  <2> QED
    BY <2>5, <2>6, <2>7, <2>8
<1> QED
  BY <1>1, <1>2, <1>3 DEF Accounts!Request, Accounts!Pcs

\* A request goes on, with what it is to know of the new table.
LEMMA BecomesKeeps ==
  ASSUME AccountsInv, users' \in [Ids -> Accounts!User], Accounts!OneUserEach', NEW s \in Slots,
         NEW r, Accounts!Becomes(s, r),
         Accounts!Noted(r) \in Accounts!Request, Knows(Accounts!Noted(r), users')
  PROVE  AccountsInv'
<1>1. \A t \in Slots : t # s => Accounts!Noted(reqs[t]) \in Accounts!Request
      /\ Knows(Accounts!Noted(reqs[t]), users')
  BY NotedKnows DEF AccountsInv, Accounts!TypeOK
<1>2. reqs' = [t \in Slots |-> Accounts!Noted(IF t = s THEN r ELSE reqs[t])]
  BY DEF Accounts!Becomes
<1>3. \A t \in Slots : reqs'[t] = IF t = s THEN Accounts!Noted(r) ELSE Accounts!Noted(reqs[t])
  BY <1>2
<1>4. \A t \in Slots : reqs'[t] \in Accounts!Request /\ Knows(reqs'[t], users')
  BY <1>1, <1>3
<1> QED
  BY <1>2, <1>4 DEF AccountsInv, Accounts!TypeOK

\* The same for a request that knew as much of the old table.
LEMMA KnowsKeeps ==
  ASSUME AccountsInv, users' \in [Ids -> Accounts!User], Accounts!OneUserEach', NEW s \in Slots,
         NEW r \in Accounts!Request,
         Knows(r, users), Accounts!Becomes(s, r)
  PROVE  AccountsInv'
BY BecomesKeeps, NotedKnows DEF AccountsInv, Accounts!TypeOK

\* A step that is no request's.
LEMMA OthersKeeps ==
  ASSUME AccountsInv, users' \in [Ids -> Accounts!User], Accounts!OneUserEach', Accounts!Others
  PROVE  AccountsInv'
<1>1. \A t \in Slots : Accounts!Noted(reqs[t]) \in Accounts!Request
      /\ Knows(Accounts!Noted(reqs[t]), users')
  BY NotedKnows DEF AccountsInv, Accounts!TypeOK
<1> QED
  BY <1>1 DEF AccountsInv, Accounts!TypeOK, Accounts!Others

\* A step of a request that only reads.
LEMMA GoesKeeps ==
  ASSUME AccountsInv, NEW s \in Slots, NEW r \in Accounts!Request, Knows(r, users),
         Accounts!Goes(s, r)
  PROVE  AccountsInv'
<1>1. users' \in [Ids -> Accounts!User] /\ Accounts!OneUserEach'
  BY DEF Accounts!Goes, AccountsInv, Accounts!TypeOK, Accounts!OneUserEach, Accounts!Exists
<1> QED
  BY <1>1, KnowsKeeps DEF Accounts!Goes

\* Idle requests know nothing.
LEMMA IdleKnows == NoneApart => Accounts!Idle \in Accounts!Request /\ Knows(Accounts!Idle, users)
BY DEF Accounts!Idle, Accounts!Request, Accounts!Pcs, Accounts!Fields, Knows, WithUser, WithMail

\* The first users have nothing in common.
LEMMA InitAccounts == NoneApart /\ Accounts!Init => AccountsInv
<1> SUFFICES ASSUME NoneApart, Accounts!Init PROVE AccountsInv
  OBVIOUS
<1>1. PICK U : U = {Accounts!NoUser} \cup [email: Mails, google: {None}, active: {TRUE}]
  OBVIOUS
<1>2. users \in [Ids -> U]
  BY <1>1 DEF Accounts!Init
<1>3. \A u \in U : u \in Accounts!User /\ u.google = None
  <2>1. Accounts!NoUser \in Accounts!User /\ Accounts!NoUser.google = None
    BY DEF Accounts!NoUser, Accounts!User
  <2>2. ASSUME NEW u \in [email: Mails, google: {None}, active: {TRUE}]
        PROVE  u \in Accounts!User /\ u.google = None
    BY DEF Accounts!User
  <2> QED
    BY <1>1, <2>1, <2>2
<1>4. users \in [Ids -> Accounts!User] /\ \A i \in Ids : users[i].google = None
  BY <1>2, <1>3
<1>5. Accounts!OneUserEach
  BY <1>4 DEF Accounts!Init, Accounts!OneUserEach, Accounts!Exists
<1> QED
  BY <1>4, <1>5, IdleKnows DEF Accounts!Init, AccountsInv, Accounts!TypeOK

----------------------------------------------------------------------------
(* Changes of the table *)

\* A new user has an email nobody had.
LEMMA CreatedApart ==
  ASSUME NoneApart, AccountsInv, NEW mail \in Mails, Accounts!mayInsert(mail), NEW i \in Ids,
         ~Accounts!Exists(i),
         users' = [users EXCEPT ![i] = [email |-> mail, google |-> None, active |-> TRUE]]
  PROVE  users' \in [Ids -> Accounts!User] /\ Accounts!OneUserEach'
<1>1. PICK u : u = [email |-> mail, google |-> None, active |-> TRUE]
  OBVIOUS
<1>2. u \in Accounts!User /\ u.email = mail /\ u.google = None
  BY <1>1 DEF Accounts!User
<1>3. users' = [users EXCEPT ![i] = u] /\ users \in [Ids -> Accounts!User]
  BY <1>1 DEF AccountsInv, Accounts!TypeOK
<1>4. \A j \in Ids : users[j].email # mail
  BY DEF Accounts!mayInsert, Accounts!GetByEmail
<1>5. \A j \in Ids : users'[j] = IF j = i THEN u ELSE users[j]
  BY <1>3
<1>6. mail # None
  BY DEF NoneApart
<1> HIDE DEF Accounts!mayInsert
<1>7. Accounts!OneUserEach'
  BY <1>2, <1>4, <1>5, <1>6 DEF AccountsInv, Accounts!OneUserEach, Accounts!Exists
<1> QED
  BY <1>2, <1>3, <1>7

\* A Google account is linked to one user.
LEMMA LinkedApart ==
  ASSUME AccountsInv, NEW i \in Ids, NEW mail \in Mails, Accounts!SetGoogleID(i, mail)
  PROVE  users' \in [Ids -> Accounts!User] /\ Accounts!OneUserEach' /\ users'[i].google = mail
<1>1. PICK u : u = [users[i] EXCEPT !.google = mail]
  OBVIOUS
<1>2. users \in [Ids -> Accounts!User] /\ users[i] \in Accounts!User
  BY DEF AccountsInv, Accounts!TypeOK
<1>3. users' = [users EXCEPT ![i] = u] /\ \A j \in Ids : j # i => users[j].google # mail
  BY <1>1 DEF Accounts!SetGoogleID, Accounts!GetByGoogleID
<1>4. u \in Accounts!User /\ u.google = mail /\ u.email = users[i].email
  BY <1>1, <1>2 DEF Accounts!User
<1>5. \A j \in Ids : users'[j] = IF j = i THEN u ELSE users[j]
  BY <1>2, <1>3
<1>6. Accounts!OneUserEach'
  BY <1>3, <1>4, <1>5 DEF AccountsInv, Accounts!OneUserEach, Accounts!Exists
<1> QED
  BY <1>2, <1>3, <1>4, <1>5, <1>6

\* An update does not take another user's email.
LEMMA UpdatedApart ==
  ASSUME AccountsInv, NEW s \in Slots, Accounts!Update(s)
  PROVE  users' \in [Ids -> Accounts!User] /\ Accounts!OneUserEach'
<1>1. PICK r, i, u : r = reqs[s] /\ i = r.who /\ u = Accounts!Written(r)
  OBVIOUS
<1>2. r \in Accounts!Request /\ i \in Ids /\ users \in [Ids -> Accounts!User]
      /\ users[i] \in Accounts!User
  BY <1>1 DEF Accounts!Update, AccountsInv, Accounts!TypeOK, Knows, WithUser
<1>3. u \in Accounts!User /\ u.email = r.email /\ u.google = users[i].google
  BY <1>1, <1>2 DEF Accounts!Written, Accounts!User, Accounts!Request
<1>4. users' = [users EXCEPT ![i] = u] /\ \A j \in Ids : j # i => users[j].email # r.email
  BY <1>1 DEF Accounts!Update, Accounts!GetByEmail
<1>5. \A j \in Ids : users'[j] = IF j = i THEN u ELSE users[j]
  BY <1>2, <1>4
<1>6. Accounts!OneUserEach'
  BY <1>3, <1>4, <1>5 DEF AccountsInv, Accounts!OneUserEach, Accounts!Exists
<1> QED
  BY <1>2, <1>3, <1>4, <1>6

\* Deactivating a user and unlinking a Google account.
LEMMA ClearedApart ==
  ASSUME AccountsInv, Accounts!Deactivate \/ Accounts!UnlinkGoogle
  PROVE  users' \in [Ids -> Accounts!User] /\ Accounts!OneUserEach'
<1>1. PICK i \in Ids, u \in Accounts!User :
        /\ users' = [users EXCEPT ![i] = u] /\ u.email = users[i].email
        /\ u.google = users[i].google \/ u.google = None
  <2>1. CASE Accounts!Deactivate
    <3>1. PICK i \in Ids : users' = [users EXCEPT ![i].active = FALSE]
      BY <2>1 DEF Accounts!Deactivate
    <3>2. users' = [users EXCEPT ![i] = [users[i] EXCEPT !.active = FALSE]]
          /\ users[i] \in Accounts!User
      BY <3>1 DEF AccountsInv, Accounts!TypeOK
    <3>3. [users[i] EXCEPT !.active = FALSE] \in Accounts!User
      BY <3>2 DEF Accounts!User
    <3> QED
      BY <3>2, <3>3 DEF Accounts!User
  <2>2. CASE Accounts!UnlinkGoogle
    <3>1. PICK i \in Ids : users' = [users EXCEPT ![i].google = None]
      BY <2>2 DEF Accounts!UnlinkGoogle
    <3>2. users' = [users EXCEPT ![i] = [users[i] EXCEPT !.google = None]]
          /\ users[i] \in Accounts!User
      BY <3>1 DEF AccountsInv, Accounts!TypeOK
    <3>3. [users[i] EXCEPT !.google = None] \in Accounts!User
      BY <3>2 DEF Accounts!User
    <3> QED
      BY <3>2, <3>3 DEF Accounts!User
  <2> QED
    BY <2>1, <2>2
<1>2. \A j \in Ids : users'[j] = IF j = i THEN u ELSE users[j]
  BY <1>1 DEF AccountsInv, Accounts!TypeOK
<1>3. Accounts!OneUserEach'
  BY <1>1, <1>2 DEF AccountsInv, Accounts!OneUserEach, Accounts!Exists
<1> QED
  BY <1>1, <1>3 DEF AccountsInv, Accounts!TypeOK

----------------------------------------------------------------------------
(* Steps *)

\* An update reads the user.
LEMMA UpdateReadStep == ASSUME NoneApart, AccountsInv, NEW s \in Slots,
  Accounts!UpdateRead(s) PROVE AccountsInv'
<1>1. PICK i \in {j \in Ids : Accounts!Exists(j)} :
        LET r == [Accounts!Idle EXCEPT !.pc = "write", !.who = i,
                              !.email = users[i].email, !.isActive = users[i].active] IN
        \/ Accounts!Begins(s, r)
        \/ \E mail \in Mails : Accounts!Begins(s, [r EXCEPT !.field = "email", !.email = mail])
        \/ \E active \in BOOLEAN : Accounts!Begins(s, [r EXCEPT !.field = "active", !.isActive = active])
  BY DEF Accounts!UpdateRead
<1>2. users[i] \in Accounts!User /\ i \in Ids
  BY DEF AccountsInv, Accounts!TypeOK
<1>3. ASSUME NEW r \in Accounts!Request, Accounts!Begins(s, r), r.pc = "write", r.who = i,
             users[i].email = r.email \/ r.field = "email",
             users[i].active = r.isActive \/ r.field = "active"
      PROVE  AccountsInv'
  <2>1. Knows(r, users)
    BY <1>2, <1>3 DEF Knows, WithUser, WithMail, Reread
  <2> QED
    BY <1>3, <2>1, GoesKeeps DEF Accounts!Begins
<1>4. PICK email, isActive : email = users[i].email /\ isActive = users[i].active
  OBVIOUS
<1>5. email \in Mails \cup {None} /\ isActive \in BOOLEAN
  BY <1>2, <1>4 DEF Accounts!User
<1>6. PICK r : r = [Accounts!Idle EXCEPT !.pc = "write", !.who = i, !.email = email, !.isActive = isActive]
  OBVIOUS
<1>7. r \in Accounts!Request /\ r.pc = "write" /\ r.who = i /\ r.email = email
      /\ r.isActive = isActive
  BY <1>2, <1>5, <1>6 DEF Accounts!Idle, Accounts!Request, Accounts!Pcs
<1>8. CASE Accounts!Begins(s, r)
  BY <1>3, <1>4, <1>7, <1>8
<1>9. ASSUME NEW mail \in Mails, Accounts!Begins(s, [r EXCEPT !.field = "email", !.email = mail])
      PROVE  AccountsInv'
  <2>1. PICK q : q = [r EXCEPT !.field = "email", !.email = mail]
    OBVIOUS
  <2>2. q \in Accounts!Request /\ q.pc = "write" /\ q.who = i /\ q.field = "email"
        /\ q.isActive = isActive
    BY <1>7, <2>1 DEF Accounts!Request, Accounts!Fields
  <2> QED
    BY <1>3, <1>4, <1>9, <2>1, <2>2
<1>10. ASSUME NEW active \in BOOLEAN,
      Accounts!Begins(s, [r EXCEPT !.field = "active", !.isActive = active])
       PROVE  AccountsInv'
  <2>1. PICK q : q = [r EXCEPT !.field = "active", !.isActive = active]
    OBVIOUS
  <2>2. q \in Accounts!Request /\ q.pc = "write" /\ q.who = i /\ q.field = "active"
        /\ q.email = email
    BY <1>7, <2>1 DEF Accounts!Request, Accounts!Fields
  <2> QED
    BY <1>3, <1>4, <1>10, <2>1, <2>2
<1> QED
  BY <1>1, <1>4, <1>6, <1>8, <1>9, <1>10

\* A sign-up creates a user, or is refused.
LEMMA CreateStep ==
  ASSUME NoneApart, AccountsInv, NEW s \in Slots, NEW mail \in Mails, NEW next \in Accounts!Request,
         Accounts!Create(s, mail, next),
         next = Accounts!Idle \/ (next.pc = "link" /\ next.mail = mail)
  PROVE  AccountsInv'
<1>1. PICK i \in Ids :
        /\ ~Accounts!Exists(i)
        /\ users' = [users EXCEPT ![i] = [email |-> mail, google |-> None, active |-> TRUE]]
        /\ Accounts!Becomes(s, IF next = Accounts!Idle THEN Accounts!Idle ELSE [next EXCEPT !.who = i])
  BY DEF Accounts!Create
<1>2. users' \in [Ids -> Accounts!User] /\ Accounts!OneUserEach'
  BY <1>1, CreatedApart DEF Accounts!Create
<1>3. PICK r : r = IF next = Accounts!Idle THEN Accounts!Idle ELSE [next EXCEPT !.who = i]
  OBVIOUS
<1>4. r \in Accounts!Request /\ Knows(r, users)
  <2>1. CASE next = Accounts!Idle
    BY <1>3, <2>1, IdleKnows
  <2>2. CASE next # Accounts!Idle
    <3>1. r \in Accounts!Request /\ r.pc = "link" /\ r.mail = mail /\ r.who = i
      BY <1>3, <2>2 DEF Accounts!Request
    <3> QED
      BY <3>1 DEF Knows, WithUser, WithMail
  <2> QED
    BY <2>1, <2>2
<1> QED
  BY <1>1, <1>2, <1>3, <1>4, KnowsKeeps

\* A user who was read, and what their sign-in knows then.
LEMMA ReadKnows ==
  ASSUME NoneApart, AccountsInv, NEW i \in Ids, NEW r \in Accounts!Request,
         r.mail # None => users[i].google = r.mail
  PROVE  Accounts!Read(r, i) \in Accounts!Request /\ Knows(Accounts!Read(r, i), users)
         /\ Accounts!Read(r, i).isActive = users[i].active
<1>1. users[i] \in Accounts!User /\ users[i].active \in BOOLEAN
  BY DEF AccountsInv, Accounts!TypeOK, Accounts!User
<1>2. PICK active, linked :
        active = users[i].active /\ linked = (r.mail # None /\ users[i].google = r.mail)
  OBVIOUS
<1>3. active \in BOOLEAN /\ linked \in BOOLEAN /\ (r.mail # None => linked)
  BY <1>1, <1>2
<1>4. PICK q : q = [r EXCEPT !.pc = "issue", !.who = i, !.isActive = active, !.active = active,
                            !.linked = linked]
  OBVIOUS
<1>5. Accounts!Read(r, i) = q
  BY <1>2, <1>4 DEF Accounts!Read
<1>6. q \in Accounts!Request /\ q.pc = "issue" /\ q.who = i /\ q.isActive = active
      /\ q.active = active
      /\ q.linked = linked /\ q.mail = r.mail
  BY <1>3, <1>4 DEF Accounts!Request, Accounts!Pcs
<1>7. Knows(q, users)
  BY <1>3, <1>6 DEF Knows, WithUser, WithMail
<1> QED
  BY <1>2, <1>5, <1>6, <1>7

\* Tokens for an active user.
LEMMA TokensKnow ==
  ASSUME NEW r \in Accounts!Request, r.pc = "issue", Knows(r, users), r.isActive
  PROVE  Accounts!Tokens(r) \in Accounts!Request /\ Knows(Accounts!Tokens(r), users)
<1>1. PICK q : q = Accounts!Tokens(r)
  OBVIOUS
<1>2. q \in Accounts!Request /\ q.pc = "tokens" /\ q.active = r.active /\ q.linked = r.linked
      /\ q.mail = r.mail
  BY <1>1 DEF Accounts!Tokens, Accounts!Request, Accounts!Pcs
<1>3. Knows(q, users)
  BY <1>2 DEF Knows, WithUser, WithMail
<1> QED
  BY <1>1, <1>2, <1>3

\* A sign-in reads a user, and checks that it is active.
LEMMA SignInStep ==
  ASSUME NoneApart, AccountsInv, NEW s \in Slots,
         Accounts!Login(s) \/ Accounts!Refresh(s) \/ Accounts!PasskeyFinishLogin(s)
           \/ Accounts!IssueTokens(s)
  PROVE  AccountsInv'
<1>1. CASE Accounts!Login(s) \/ Accounts!Refresh(s)
  <2>1. PICK i \in Ids : users[i].active
        /\ Accounts!Goes(s, Accounts!Tokens(Accounts!Read(Accounts!Idle, i)))
    BY <1>1 DEF Accounts!Login, Accounts!Refresh, Accounts!Begins
  <2>2. Accounts!Idle \in Accounts!Request /\ Accounts!Idle.mail = None
    BY IdleKnows DEF Accounts!Idle
  <2>3. PICK r : r = Accounts!Read(Accounts!Idle, i)
    OBVIOUS
  <2>4. r \in Accounts!Request /\ Knows(r, users) /\ r.isActive
    BY <2>1, <2>2, <2>3, ReadKnows
  <2>5. r.pc = "issue"
    BY <2>2, <2>3 DEF Accounts!Read, Accounts!Request
  <2> QED
    BY <2>1, <2>3, <2>4, <2>5, TokensKnow, GoesKeeps
<1>2. CASE Accounts!PasskeyFinishLogin(s)
  <2>1. PICK i \in Ids : Accounts!Goes(s, Accounts!Read(Accounts!Idle, i))
    BY <1>2 DEF Accounts!PasskeyFinishLogin, Accounts!Begins
  <2>2. Accounts!Idle \in Accounts!Request /\ Accounts!Idle.mail = None
    BY IdleKnows DEF Accounts!Idle
  <2> QED
    BY <2>1, <2>2, ReadKnows, GoesKeeps
<1>3. CASE Accounts!IssueTokens(s)
  BY <1>3, TokensKnow, GoesKeeps DEF Accounts!IssueTokens, Accounts!mayIssue, AccountsInv,
                                     Accounts!TypeOK
<1> QED
  BY <1>1, <1>2, <1>3

\* A Google sign-in looks for its user.
LEMMA GoogleSearchStep ==
  ASSUME NoneApart, AccountsInv, NEW s \in Slots, Accounts!GoogleLogin(s)
         \/ Accounts!GoogleByEmail(s)
  PROVE  AccountsInv'
<1>1. CASE Accounts!GoogleLogin(s)
  <2>1. PICK mail \in Mails :
          LET r == [Accounts!Idle EXCEPT !.mail = mail, !.pc = "byEmail"] IN
          Accounts!Begins(s, r)
            \/ \E i \in Accounts!GetByGoogleID(mail) : Accounts!Begins(s, Accounts!Read(r, i))
    BY <1>1 DEF Accounts!GoogleLogin
  <2>2. PICK r : r = [Accounts!Idle EXCEPT !.mail = mail, !.pc = "byEmail"]
    OBVIOUS
  <2>3. r \in Accounts!Request /\ r.pc = "byEmail" /\ r.mail = mail
    BY <2>2, IdleKnows DEF Accounts!Idle, Accounts!Request, Accounts!Pcs
  <2>4. CASE Accounts!Begins(s, r)
    <3>1. Knows(r, users)
      BY <2>3 DEF Knows, WithUser, WithMail
    <3> QED
      BY <2>3, <2>4, <3>1, GoesKeeps DEF Accounts!Begins
  <2>5. ASSUME NEW i \in Accounts!GetByGoogleID(mail),
        Accounts!Begins(s, Accounts!Read(r, i)) PROVE AccountsInv'
    BY <2>3, <2>5, ReadKnows, GoesKeeps DEF Accounts!Begins, Accounts!GetByGoogleID
  <2> QED
    BY <2>1, <2>2, <2>4, <2>5
<1>2. CASE Accounts!GoogleByEmail(s)
  <2>1. PICK r : r = reqs[s]
    OBVIOUS
  <2>2. r \in Accounts!Request /\ r.pc = "byEmail" /\ r.mail \in Mails
    BY <1>2, <2>1 DEF Accounts!GoogleByEmail, AccountsInv, Accounts!TypeOK, Knows, WithMail
  <2>3. CASE Accounts!Goes(s, [r EXCEPT !.pc = "create"])
    <3>1. PICK q : q = [r EXCEPT !.pc = "create"]
      OBVIOUS
    <3>2. q \in Accounts!Request /\ q.pc = "create" /\ q.mail = r.mail
      BY <2>2, <3>1 DEF Accounts!Request, Accounts!Pcs
    <3>3. Knows(q, users)
      BY <2>2, <3>2 DEF Knows, WithUser, WithMail
    <3> QED
      BY <2>3, <3>1, <3>2, <3>3, GoesKeeps
  <2>4. ASSUME NEW i \in Ids, Accounts!Goes(s, Accounts!Found(r, i)) PROVE AccountsInv'
    <3>1. PICK q : q = Accounts!Found(r, i)
      OBVIOUS
    <3>2. q \in Accounts!Request /\ q.pc = "link" /\ q.mail = r.mail /\ q.who = i
      BY <2>2, <3>1 DEF Accounts!Found, Accounts!Request, Accounts!Pcs
    <3>3. Knows(q, users)
      BY <2>2, <3>2 DEF Knows, WithUser, WithMail
    <3> QED
      BY <2>4, <3>1, <3>2, <3>3, GoesKeeps
  <2> QED
    BY <1>2, <2>1, <2>3, <2>4 DEF Accounts!GoogleByEmail, Accounts!GetByEmail
<1> QED
  BY <1>1, <1>2

\* A Google account is linked to a user.
LEMMA GoogleLinkStep ==
  ASSUME NoneApart, AccountsInv, NEW s \in Slots, Accounts!GoogleLink(s)
         \/ Accounts!GoogleReadAgain(s)
  PROVE  AccountsInv'
<1>1. PICK r : r = reqs[s]
  OBVIOUS
<1>2. r \in Accounts!Request /\ Knows(r, users)
  BY <1>1 DEF AccountsInv, Accounts!TypeOK
<1>3. CASE Accounts!GoogleLink(s)
  <2>1. r.pc = "link" /\ r.who \in Ids /\ r.mail \in Mails
    BY <1>1, <1>2, <1>3 DEF Accounts!GoogleLink, Knows, WithUser, WithMail
  <2>2. users' \in [Ids -> Accounts!User] /\ Accounts!OneUserEach' /\ users'[r.who].google = r.mail
    BY <1>1, <1>3, <2>1, LinkedApart DEF Accounts!GoogleLink
  <2>3. PICK q : q = [r EXCEPT !.pc = "again"]
    OBVIOUS
  <2>4. q \in Accounts!Request /\ q.pc = "again" /\ q.who = r.who /\ q.mail = r.mail
    BY <1>2, <2>3 DEF Accounts!Request, Accounts!Pcs
  <2>5. PICK active, linked :
          /\ active = (q.active \/ users'[q.who].active)
          /\ linked = (q.linked \/ (q.mail # None /\ users'[q.who].google = q.mail))
    OBVIOUS
  <2>6. Accounts!Noted(q) = [q EXCEPT !.active = active, !.linked = linked]
    BY <2>4, <2>5 DEF Accounts!Noted, Accounts!Request
  <2>7. users'[q.who].active \in BOOLEAN
    BY <2>1, <2>2, <2>4 DEF Accounts!User
  <2>8. active \in BOOLEAN /\ linked \in BOOLEAN /\ linked
    BY <2>1, <2>2, <2>4, <2>5, <2>7 DEF Accounts!Request, NoneApart
  <2>9. PICK t : t = [q EXCEPT !.active = active, !.linked = linked]
    OBVIOUS
  <2>10. t \in Accounts!Request /\ t.pc = "again" /\ t.who = r.who /\ t.mail = r.mail
        /\ t.linked = linked
    BY <2>4, <2>8, <2>9 DEF Accounts!Request
  <2>11. Knows(t, users')
    BY <2>1, <2>8, <2>10 DEF Knows, WithUser, WithMail
  <2>12. Accounts!Becomes(s, q)
    BY <1>1, <1>3, <2>3 DEF Accounts!GoogleLink
  <2> QED
    BY <2>2, <2>6, <2>9, <2>10, <2>11, <2>12, BecomesKeeps
<1>4. CASE Accounts!GoogleReadAgain(s)
  <2>1. r.pc = "again" /\ r.who \in Ids /\ r.mail \in Mails /\ r.linked
    BY <1>1, <1>2, <1>4 DEF Accounts!GoogleReadAgain, Knows, WithUser, WithMail, NoneApart
  <2>2. PICK q : q = [r EXCEPT !.pc = "issue", !.isActive = users[r.who].active]
    OBVIOUS
  <2>3. users[r.who].active \in BOOLEAN /\ users \in [Ids -> Accounts!User]
    BY <2>1 DEF AccountsInv, Accounts!TypeOK, Accounts!User
  <2>4. q \in Accounts!Request /\ q.pc = "issue" /\ q.who = r.who /\ q.mail = r.mail /\ q.linked
        /\ q.isActive = users[r.who].active
    BY <1>2, <2>1, <2>2, <2>3 DEF Accounts!Request, Accounts!Pcs
  <2>5. users' = users /\ Accounts!Becomes(s, q)
    BY <1>1, <1>4, <2>2 DEF Accounts!GoogleReadAgain, Accounts!Goes
  <2>6. PICK active, linked :
          /\ active = (q.active \/ users'[q.who].active)
          /\ linked = (q.linked \/ (q.mail # None /\ users'[q.who].google = q.mail))
    OBVIOUS
  <2>7. Accounts!Noted(q) = [q EXCEPT !.active = active, !.linked = linked]
    BY <2>4, <2>6 DEF Accounts!Noted, Accounts!Request
  <2>8. active \in BOOLEAN /\ linked \in BOOLEAN /\ linked /\ (q.isActive => active)
    BY <2>3, <2>4, <2>5, <2>6 DEF Accounts!Request
  <2>9. PICK t : t = [q EXCEPT !.active = active, !.linked = linked]
    OBVIOUS
  <2>10. t \in Accounts!Request /\ t.pc = "issue" /\ t.who = r.who /\ t.mail = r.mail
        /\ t.linked = linked
         /\ t.active = active /\ t.isActive = q.isActive
    BY <2>4, <2>8, <2>9 DEF Accounts!Request
  <2>11. Knows(t, users')
    BY <2>1, <2>8, <2>10 DEF Knows, WithUser, WithMail
  <2>12. users' \in [Ids -> Accounts!User] /\ Accounts!OneUserEach'
    BY <2>3, <2>5 DEF AccountsInv, Accounts!OneUserEach, Accounts!Exists
  <2> QED
    BY <2>5, <2>7, <2>9, <2>10, <2>11, <2>12, BecomesKeeps
<1> QED
  BY <1>3, <1>4

\* Signing up, and the first sign-in with Google.
LEMMA SignUpStep ==
  ASSUME NoneApart, AccountsInv, NEW s \in Slots,
         Accounts!Register(s) \/ Accounts!RegisterCreate(s) \/ Accounts!GoogleCreate(s)
  PROVE  AccountsInv'
<1>1. CASE Accounts!Register(s)
  <2>1. PICK mail \in Mails : Accounts!Goes(s, [Accounts!Idle EXCEPT !.pc = "register", !.mail = mail])
    BY <1>1 DEF Accounts!Register, Accounts!Begins
  <2>2. PICK r : r = [Accounts!Idle EXCEPT !.pc = "register", !.mail = mail]
    OBVIOUS
  <2>3. r \in Accounts!Request /\ r.pc = "register" /\ r.mail = mail
    BY <2>2, IdleKnows DEF Accounts!Idle, Accounts!Request, Accounts!Pcs
  <2>4. Knows(r, users)
    BY <2>3 DEF Knows, WithUser, WithMail
  <2> QED
    BY <2>1, <2>2, <2>3, <2>4, GoesKeeps
<1>2. CASE Accounts!RegisterCreate(s)
  BY <1>2, CreateStep, IdleKnows DEF Accounts!RegisterCreate, AccountsInv, Accounts!TypeOK, Knows,
                                     WithMail
<1>3. CASE Accounts!GoogleCreate(s)
  <2>1. PICK r : r = reqs[s]
    OBVIOUS
  <2>2. r \in Accounts!Request /\ r.pc = "create" /\ r.mail \in Mails
    BY <1>3, <2>1 DEF Accounts!GoogleCreate, AccountsInv, Accounts!TypeOK, Knows, WithMail
  <2>3. PICK q : q = [r EXCEPT !.pc = "link"]
    OBVIOUS
  <2>4. q \in Accounts!Request /\ q.pc = "link" /\ q.mail = r.mail
    BY <2>2, <2>3 DEF Accounts!Request, Accounts!Pcs
  <2> QED
    BY <1>3, <2>1, <2>2, <2>3, <2>4, CreateStep DEF Accounts!GoogleCreate
<1> QED
  BY <1>1, <1>2, <1>3

\* The link in the profile, and the end of any request.
LEMMA ProfileStep ==
  ASSUME NoneApart, AccountsInv, NEW s \in Slots, Accounts!LinkGoogle(s)
         \/ Accounts!LinkGoogleSet(s) \/ Accounts!Ends(s)
  PROVE  AccountsInv'
<1>1. CASE Accounts!LinkGoogle(s)
  <2>1. PICK i \in Ids, mail \in Mails :
          Accounts!Goes(s, [Accounts!Idle EXCEPT !.pc = "set", !.who = i, !.mail = mail])
    BY <1>1 DEF Accounts!LinkGoogle, Accounts!Begins
  <2>2. PICK r : r = [Accounts!Idle EXCEPT !.pc = "set", !.who = i, !.mail = mail]
    OBVIOUS
  <2>3. r \in Accounts!Request /\ r.pc = "set" /\ r.who = i /\ r.mail = mail
    BY <2>2, IdleKnows DEF Accounts!Idle, Accounts!Request, Accounts!Pcs
  <2>4. Knows(r, users)
    BY <2>3 DEF Knows, WithUser, WithMail
  <2> QED
    BY <2>1, <2>2, <2>3, <2>4, GoesKeeps
<1>2. CASE Accounts!LinkGoogleSet(s)
  <2>1. reqs[s].who \in Ids /\ reqs[s].mail \in Mails
    BY <1>2 DEF Accounts!LinkGoogleSet, AccountsInv, Knows, WithUser, WithMail
  <2>2. users' \in [Ids -> Accounts!User] /\ Accounts!OneUserEach'
        /\ Accounts!Becomes(s, Accounts!Idle)
    BY <1>2, <2>1, LinkedApart DEF Accounts!LinkGoogleSet
  <2> QED
    BY <2>2, IdleKnows, KnowsKeeps
<1>3. CASE Accounts!Ends(s)
  BY <1>3, IdleKnows, GoesKeeps DEF Accounts!Ends
<1> QED
  BY <1>1, <1>2, <1>3

\* Every step keeps the invariant.
LEMMA AccountsStep == NoneApart /\ AccountsInv /\ [Accounts!Next]_Accounts!vars => AccountsInv'
<1> SUFFICES ASSUME NoneApart, AccountsInv, [Accounts!Next]_Accounts!vars PROVE AccountsInv'
  OBVIOUS
<1>1. CASE UNCHANGED Accounts!vars
  BY <1>1 DEF Accounts!vars, AccountsInv, Accounts!TypeOK, Accounts!OneUserEach, Accounts!Exists,
              Knows, Reread
<1>2. CASE Accounts!Deactivate \/ Accounts!UnlinkGoogle
  BY <1>2, ClearedApart, OthersKeeps DEF Accounts!Deactivate, Accounts!UnlinkGoogle
<1>3. CASE Accounts!CreateUser
  BY <1>3, CreateStep, IdleKnows DEF Accounts!CreateUser
<1>4. ASSUME NEW s \in Slots, Accounts!Update(s) PROVE AccountsInv'
  BY <1>4, UpdatedApart, IdleKnows, KnowsKeeps DEF Accounts!Update
<1> QED
  BY <1>1, <1>2, <1>3, <1>4, UpdateReadStep, SignUpStep, SignInStep, GoogleSearchStep,
     GoogleLinkStep, ProfileStep DEF Accounts!Next

----------------------------------------------------------------------------
\* What a step may change of a user's email and switch.
Kept(i, f) ==
  Accounts!Exists(i) /\ users'[i][f] # users[i][f] =>
    \/ f = "active" /\ ~users'[i].active
    \/ \E s \in Slots : reqs[s].pc = "write" /\ reqs[s].who = i
                        /\ (reqs[s].field = f \/ f \in reqs[s].old)

\* A change of one user leaves the others' fields alone.
LEMMA OneUserChanges ==
  ASSUME AccountsInv, NEW j \in Ids, NEW u \in Accounts!User, users' = [users EXCEPT ![j] = u],
         \A f \in Accounts!Fields : Kept(j, f)
  PROVE  \A i \in Ids : \A f \in Accounts!Fields : Kept(i, f)
<1>1. \A i \in Ids : i # j => users'[i] = users[i]
  BY DEF AccountsInv, Accounts!TypeOK
<1> QED
  BY <1>1 DEF Kept

\* An update changes what it was asked to, and writes back the rest as it was read.
LEMMA UpdateKeeps ==
  ASSUME AccountsInv, NEW s \in Slots, Accounts!Update(s)
  PROVE  \A i \in Ids : \A f \in Accounts!Fields : Kept(i, f)
<1>1. PICK r, j, u : r = reqs[s] /\ j = r.who /\ u = Accounts!Written(r)
  OBVIOUS
<1>2. r \in Accounts!Request /\ r.pc = "write" /\ j \in Ids
      /\ users \in [Ids -> Accounts!User] /\ users[j] \in Accounts!User
      /\ Reread(r, users)
  BY <1>1 DEF Accounts!Update, AccountsInv, Accounts!TypeOK, Knows, WithUser
<1>3. u \in Accounts!User /\ u.email = r.email /\ u.active = r.isActive
  BY <1>1, <1>2 DEF Accounts!Written, Accounts!User, Accounts!Request
<1>4. users' = [users EXCEPT ![j] = u] /\ users'[j] = u
  BY <1>1, <1>2 DEF Accounts!Update
<1>5. Kept(j, "email")
  BY <1>1, <1>2, <1>3, <1>4 DEF Kept, Reread
<1>6. Kept(j, "active")
  BY <1>1, <1>2, <1>3, <1>4 DEF Kept, Reread
<1>7. \A f \in Accounts!Fields : Kept(j, f)
  BY <1>5, <1>6 DEF Accounts!Fields
<1> QED
  BY <1>2, <1>3, <1>4, <1>7, OneUserChanges

\* A creation changes no user there is.
LEMMA CreateKeeps ==
  ASSUME AccountsInv, NEW s \in Slots, NEW mail, NEW next, Accounts!Create(s, mail, next)
  PROVE  \A i \in Ids : \A f \in Accounts!Fields : Kept(i, f)
BY DEF Accounts!Create, Kept, Accounts!Exists, AccountsInv, Accounts!TypeOK

\* A link changes the Google account only.
LEMMA LinkKeeps ==
  ASSUME AccountsInv, NEW j \in Ids, NEW mail, users' = [users EXCEPT ![j].google = mail]
  PROVE  \A i \in Ids : \A f \in Accounts!Fields : Kept(i, f)
<1>1. users \in [Ids -> Accounts!User] /\ users[j] \in Accounts!User
  BY DEF AccountsInv, Accounts!TypeOK
<1>2. \A i \in Ids : i # j => users'[i] = users[i]
  BY <1>1
<1>3. users'[j] = [users[j] EXCEPT !.google = mail]
  BY <1>1
<1>4. users'[j].email = users[j].email /\ users'[j].active = users[j].active
  BY <1>1, <1>3 DEF Accounts!User
<1> QED
  BY <1>2, <1>4 DEF Kept, Accounts!Fields

\* A deactivation changes the switch only.
LEMMA DeactivateKeeps ==
  ASSUME AccountsInv, Accounts!Deactivate
  PROVE  \A i \in Ids : \A f \in Accounts!Fields : Kept(i, f)
<1>1. PICK j \in Ids : users' = [users EXCEPT ![j].active = FALSE]
  BY DEF Accounts!Deactivate
<1>2. users \in [Ids -> Accounts!User] /\ users[j] \in Accounts!User
  BY DEF AccountsInv, Accounts!TypeOK
<1>3. \A i \in Ids : i # j => users'[i] = users[i]
  BY <1>1, <1>2
<1>4. users'[j] = [users[j] EXCEPT !.active = FALSE]
  BY <1>1, <1>2
<1>5. users'[j].email = users[j].email /\ users'[j].active = FALSE
  BY <1>2, <1>4 DEF Accounts!User
<1> QED
  BY <1>3, <1>5 DEF Kept, Accounts!Fields

\* No step of the program changes a user's email or switch otherwise.
LEMMA StepKeeps ==
  ASSUME AccountsInv, [Accounts!Next]_Accounts!vars
  PROVE  \A i \in Ids : \A f \in Accounts!Fields : Kept(i, f)
<1>1. CASE users' = users
  BY <1>1 DEF Kept
<1>2. CASE \E s \in Slots : \E mail, next : Accounts!Create(s, mail, next)
  BY <1>2, CreateKeeps
<1>3. CASE \E j \in Ids : \E mail : users' = [users EXCEPT ![j].google = mail]
  BY <1>3, LinkKeeps
<1>4. CASE Accounts!Deactivate
  BY <1>4, DeactivateKeeps
<1>5. CASE \E s \in Slots : Accounts!Update(s)
  BY <1>5, UpdateKeeps
<1>6. CASE UNCHANGED Accounts!vars
  BY <1>1, <1>6 DEF Accounts!vars
<1>7. CASE Accounts!CreateUser \/ Accounts!UnlinkGoogle
  BY <1>2, <1>3, <1>7 DEF Accounts!CreateUser, Accounts!UnlinkGoogle
<1>8. ASSUME NEW s \in Slots,
             \/ Accounts!UpdateRead(s) \/ Accounts!Register(s) \/ Accounts!Login(s)
                  \/ Accounts!Refresh(s) \/ Accounts!PasskeyFinishLogin(s)
             \/ Accounts!IssueTokens(s) \/ Accounts!GoogleLogin(s)
                  \/ Accounts!GoogleByEmail(s) \/ Accounts!GoogleReadAgain(s)
             \/ Accounts!LinkGoogle(s) \/ Accounts!Ends(s)
      PROVE  users' = users
  BY <1>8 DEF Accounts!UpdateRead, Accounts!Register, Accounts!Login, Accounts!Refresh,
              Accounts!PasskeyFinishLogin, Accounts!IssueTokens, Accounts!GoogleLogin,
             Accounts!GoogleByEmail, Accounts!GoogleReadAgain, Accounts!LinkGoogle,
               Accounts!Ends, Accounts!Begins, Accounts!Goes
<1>9. ASSUME NEW s \in Slots, Accounts!RegisterCreate(s) \/ Accounts!GoogleCreate(s)
      PROVE  \E mail, next : Accounts!Create(s, mail, next)
  BY <1>9 DEF Accounts!RegisterCreate, Accounts!GoogleCreate
<1>10. ASSUME NEW s \in Slots, Accounts!GoogleLink(s) \/ Accounts!LinkGoogleSet(s)
       PROVE  \E j \in Ids : \E mail : users' = [users EXCEPT ![j].google = mail]
  BY <1>10 DEF Accounts!GoogleLink, Accounts!LinkGoogleSet, Accounts!SetGoogleID, AccountsInv,
               Knows, WithUser
<1> QED
  BY <1>1, <1>2, <1>3, <1>4, <1>5, <1>6, <1>7, <1>8, <1>9, <1>10 DEF Accounts!Next

----------------------------------------------------------------------------
\* The table of users and the requests stay in their types.
THEOREM AccountTypes == ASSUME NoneApart PROVE Accounts!Spec => []Accounts!TypeOK
<1>1. AccountsInv => Accounts!TypeOK
  BY DEF AccountsInv
<1>2. Accounts!Init => AccountsInv
  BY InitAccounts
<1>3. AccountsInv /\ [Accounts!Next]_Accounts!vars => AccountsInv'
  BY AccountsStep
<1> QED
  BY <1>1, <1>2, <1>3, PTL DEF Accounts!Spec

\* An email and a Google account are one user's at any time, whatever sign-ups, sign-ins,
\* updates and links interleave (auth.go 155-190, users.go 127).
THEOREM AccountsApart == ASSUME NoneApart PROVE Accounts!Spec => []Accounts!OneUserEach
<1>1. AccountsInv => Accounts!OneUserEach
  BY DEF AccountsInv
<1>2. Accounts!Init => AccountsInv
  BY InitAccounts
<1>3. AccountsInv /\ [Accounts!Next]_Accounts!vars => AccountsInv'
  BY AccountsStep
<1> QED
  BY <1>1, <1>2, <1>3, PTL DEF Accounts!Spec

\* Whoever is given tokens was active, and with Google had the account that was shown, at
\* some time while the request ran (auth_service.go 74, 112, 174; auth.go 155-192).
THEOREM SignInsHold == ASSUME NoneApart PROVE Accounts!Spec
  => [](Accounts!OnlyActiveSignIn /\ Accounts!OwnerSignsIn)
<1>1. AccountsInv => Accounts!OnlyActiveSignIn /\ Accounts!OwnerSignsIn
  BY DEF AccountsInv, Knows, Accounts!OnlyActiveSignIn, Accounts!OwnerSignsIn
<1>2. Accounts!Init => AccountsInv
  BY InitAccounts
<1>3. AccountsInv /\ [Accounts!Next]_Accounts!vars => AccountsInv'
  BY AccountsStep
<1> QED
  BY <1>1, <1>2, <1>3, PTL DEF Accounts!Spec

\* A user's email or switch changes only because a request asks for it, or because an
\* update writes back what it read before another change: a deactivation is undone only
\* by an update that had read the user before (users.go 97-130).
THEOREM UpdatesAreKept == ASSUME NoneApart PROVE Accounts!Spec => Accounts!UpdatesKept
<1>1. Accounts!Init => AccountsInv
  BY InitAccounts
<1>2. AccountsInv /\ [Accounts!Next]_Accounts!vars => AccountsInv'
  BY AccountsStep
<1>3. AccountsInv /\ [Accounts!Next]_Accounts!vars =>
        [\A i \in Ids : \A f \in Accounts!Fields :
           Accounts!Exists(i) /\ users'[i][f] # users[i][f] =>
             \/ f = "active" /\ ~users'[i].active
             \/ \E s \in Slots : reqs[s].pc = "write" /\ reqs[s].who = i
                                /\ (reqs[s].field = f \/ f \in reqs[s].old)]_Accounts!vars
  BY StepKeeps DEF Kept
<1> QED
  BY <1>1, <1>2, <1>3, PTL DEF Accounts!Spec, Accounts!UpdatesKept

----------------------------------------------------------------------------
(* The composition *)

\* What the instances do, seen alone, is a run of the start.
LEMMA StartRuns == RequestsSpec => Spec
<1>1. RequestsInit => Init
  BY DEF RequestsInit
<1>2. [RequestsNext]_requestVars => [Next]_vars
  BY DEF RequestsNext, requestVars, vars
<1> QED
  BY <1>1, <1>2, PTL DEF RequestsSpec, Spec

\* So is what the requests do with the accounts.
LEMMA AccountsRun == RequestsSpec => Accounts!Spec
<1>1. RequestsInit => Accounts!Init
  BY DEF RequestsInit
<1>2. [RequestsNext]_requestVars => [Accounts!Next]_Accounts!vars
  BY DEF RequestsNext, requestVars, userVars, Accounts!vars
<1> QED
  BY <1>1, <1>2, PTL DEF RequestsSpec, Accounts!Spec

\* And, where it is chosen, what they do with the avatar,
LEMMA AvatarsRun == RequestsSpec /\ part = "avatar" => Avatars!Spec /\ [](part = "avatar")
<1>1. RequestsInit /\ part = "avatar" => Avatars!Init
  BY DEF RequestsInit
<1>2. part = "avatar" /\ [RequestsNext]_requestVars => (part = "avatar")' /\ [Avatars!Next]_Avatars!vars
  BY DEF RequestsNext, requestVars, fileVars, Avatars!vars
<1> QED
  BY <1>1, <1>2, PTL DEF RequestsSpec, Avatars!Spec

\* or with the subtitles.
LEMMA SubtitlesRun == RequestsSpec /\ part = "subtitles" => Subtitles!Spec /\ [](part = "subtitles")
<1>1. RequestsInit /\ part = "subtitles" => Subtitles!Init
  BY DEF RequestsInit
<1>2. part = "subtitles" /\ [RequestsNext]_requestVars
        => (part = "subtitles")' /\ [Subtitles!Next]_Subtitles!vars
  BY DEF RequestsNext, requestVars, fileVars, Subtitles!vars
<1> QED
  BY <1>1, <1>2, PTL DEF RequestsSpec, Subtitles!Spec

\* What is chosen stays so.
LEMMA PartStays ==
  /\ RequestsSpec /\ ~(part = "avatar") => []~(part = "avatar")
  /\ RequestsSpec /\ ~(part = "subtitles") => []~(part = "subtitles")
<1>1. ~(part = "avatar") /\ [RequestsNext]_requestVars => (~(part = "avatar"))'
  BY DEF RequestsNext, requestVars
<1>2. ~(part = "subtitles") /\ [RequestsNext]_requestVars => (~(part = "subtitles"))'
  BY DEF RequestsNext, requestVars
<1> QED
  BY <1>1, <1>2, PTL DEF RequestsSpec

\* The names of the instance are what the proofs of the files and the accounts ask for.
LEMMA NamesGiven == NoneApart /\ Avatars!NamesApart /\ Subtitles!NamesApart
BY NamesAssumption DEF NoneApart, Avatars!NamesApart, Subtitles!NamesApart, NoPaths

\* An avatar that is set has its file, and a subtitle the whole file it names, for any
\* extensions, subtitles and requests at once (profile.go 58-124, subtitles.go 320-383).
THEOREM FilesBesideRows == RequestsSpec => []RowsHaveFiles
<1>1. Avatars!Spec => []Avatars!AvatarHasFile
  BY NamesGiven, Avatars!AvatarsHaveFiles
<1>2. Subtitles!Spec => []Subtitles!SubtitlesHaveFiles /\ []Subtitles!NoPartServed
  BY NamesGiven, Subtitles!TracksHaveFiles, Subtitles!PartsUnserved
<1>3. part = "avatar" /\ Avatars!AvatarHasFile => RowsHaveFiles
  BY DEF RowsHaveFiles
<1>4. part = "subtitles" /\ Subtitles!SubtitlesHaveFiles /\ Subtitles!NoPartServed => RowsHaveFiles
  BY DEF RowsHaveFiles
<1>5. ~(part = "avatar") /\ ~(part = "subtitles") => RowsHaveFiles
  BY DEF RowsHaveFiles
<1> QED
  BY <1>1, <1>2, <1>3, <1>4, <1>5, AvatarsRun, SubtitlesRun, PartStays, PTL

\* Emails and Google accounts are one user's, whoever signs in is active and the one
\* meant, and updates lose nothing but what changed since they read, however many users
\* and requests there are (users.go 97-130, auth.go 155-192, auth_service.go 74-174).
THEOREM AccountsAreHeld == RequestsSpec => AccountsHold
<1>1. Accounts!Spec => []Accounts!OneUserEach
  BY NamesGiven, AccountsApart
<1>2. Accounts!Spec => [](Accounts!OnlyActiveSignIn /\ Accounts!OwnerSignsIn)
  BY NamesGiven, SignInsHold
<1>3. Accounts!Spec => Accounts!UpdatesKept
  BY NamesGiven, UpdatesAreKept
<1> QED
  BY <1>1, <1>2, <1>3, AccountsRun, PTL DEF AccountsHold

\* In each part the variables have the values they may have.
THEOREM RequestTypes == RequestsSpec => []TypesOK
<1>1. Accounts!Spec => []Accounts!TypeOK
  BY NamesGiven, AccountTypes
<1>2. Avatars!Spec => []Avatars!TypeOK
  BY NamesGiven, Avatars!FilesTyped
<1>3. Subtitles!Spec => []Subtitles!TypeOK
  BY NamesGiven, Subtitles!FilesTyped
<1>4. TypeOK /\ Accounts!TypeOK /\ ~(part = "avatar") /\ ~(part = "subtitles") => TypesOK
  BY DEF TypesOK
<1>5. TypeOK /\ Accounts!TypeOK /\ part = "avatar" /\ Avatars!TypeOK => TypesOK
  BY DEF TypesOK
<1>6. TypeOK /\ Accounts!TypeOK /\ part = "subtitles" /\ Subtitles!TypeOK => TypesOK
  BY DEF TypesOK
<1> QED
  BY <1>1, <1>2, <1>3, <1>4, <1>5, <1>6, StartTypes, StartRuns, AccountsRun, AvatarsRun, SubtitlesRun,
     PartStays, PTL

=============================================================================
