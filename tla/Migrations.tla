------------------------------ MODULE Migrations -------------------------------
(***************************************************************************)
(* database.RunMigrations: runners of the migration command that may be    *)
(* started at the same time, fail or die at any statement, and be started  *)
(* again.  A runner is one step per statement; its transaction's           *)
(* statements show when it commits.                                        *)
(***************************************************************************)
EXTENDS Naturals, Sequences

CONSTANTS
    Files,        \* the number of statements of each migration, in lexical order
    Repeated,     \* what its first statement does if the file was applied already:
                  \* it "passes", it "raises", or either ("may raise")
    Runners,
    MaxStarts,    \* bound: starts of a runner
    MaxFaults     \* bound: failing statements and deaths

VARIABLES
    log,         \* the committed statements, in the order of their commits
    recorded,    \* schema_migrations
    pc,          \* the next statement of each runner
    file,        \* the migration it is at
    did,         \* the statements of it that its open transaction has executed
    starts, faults

vars == <<log, recorded, pc, file, did, starts, faults>>

ASSUME MigrationsAssumption ==
    /\ Files \in Seq(Nat \ {0}) /\ Files # << >>
    /\ Repeated \in [DOMAIN Files -> {"passes", "raises", "may raise"}]
    /\ MaxStarts \in Nat /\ MaxFaults \in Nat

Statement == UNION {{f} \X (1..Files[f]) : f \in DOMAIN Files}

TypeOK ==
    /\ log \in Seq(Statement)
    /\ recorded \subseteq DOMAIN Files
    /\ pc \in [Runners -> {"off", "table", "check", "apply", "record", "commit", "done", "failed"}]
    /\ file \in [Runners -> DOMAIN Files]
    /\ did \in [Runners -> Nat] /\ \A r \in Runners : did[r] <= Files[file[r]]
    /\ starts \in 0..MaxStarts /\ faults \in 0..MaxFaults

Init ==
    /\ log = << >> /\ recorded = {}
    /\ pc = [r \in Runners |-> "off"]
    /\ file = [r \in Runners |-> 1]
    /\ did = [r \in Runners |-> 0]
    /\ starts = 0 /\ faults = 0

At(r, point) == pc[r] = point
Goto(r, point) == pc' = [pc EXCEPT ![r] = point]

Executed(f, n) == [i \in 1..n |-> <<f, i>>]
Applied(f) == \E i \in DOMAIN log : log[i][1] = f

\* The first statement of every file conflicts with itself in another
\* transaction: it waits until that one ends.
Blocked(r) == \E q \in Runners \ {r} : did[q] > 0 /\ file[q] = file[r]

-------------------------------------------------------------------------------
Start(r) ==
    /\ pc[r] \in {"off", "failed", "done"}
    /\ starts < MaxStarts
    /\ starts' = starts + 1
    /\ file' = [file EXCEPT ![r] = 1]
    /\ Goto(r, "table")
    /\ UNCHANGED <<log, recorded, did, faults>>

\* CREATE TABLE IF NOT EXISTS schema_migrations
CreateTable(r) ==
    /\ At(r, "table")
    /\ Goto(r, "check")
    /\ UNCHANGED <<log, recorded, file, did, starts, faults>>

\* The file is done with: the next one, or the end.
Advance_Past(r) ==
    /\ file' = [file EXCEPT ![r] = @ + 1]
    /\ Goto(r, IF file[r] > Len(Files) THEN "done" ELSE "check")

Advance(r) ==
    IF file[r] < Len(Files)
    THEN file' = [file EXCEPT ![r] = @ + 1] /\ Goto(r, "check")
    ELSE Goto(r, "done") /\ UNCHANGED file

Check(r) ==
    /\ At(r, "check")
    /\ \/ file[r] \in recorded /\ Advance(r)
       \/ file[r] \notin recorded /\ Goto(r, "apply") /\ UNCHANGED file
    /\ UNCHANGED <<log, recorded, did, starts, faults>>

\* The transaction is rolled back and the command exits with 1.
Fail_KeepStatements(r) ==
    /\ log' = log \o Executed(file[r], did[r])
    /\ did' = [did EXCEPT ![r] = 0]
    /\ Goto(r, "failed")
    /\ UNCHANGED <<recorded, file, starts>>

Fail_NextFile(r) ==
    /\ did' = [did EXCEPT ![r] = 0]
    /\ Advance(r)
    /\ UNCHANGED <<log, recorded, starts>>

Fail_KeepOpen(r) == Goto(r, "failed") /\ UNCHANGED <<log, recorded, file, did, starts>>

Fail(r) ==
    /\ did' = [did EXCEPT ![r] = 0]
    /\ Goto(r, "failed")
    /\ UNCHANGED <<log, recorded, file, starts>>

\* One statement of the file.
Apply(r) ==
    /\ At(r, "apply")
    /\ did[r] = 0 => ~Blocked(r)
    /\ UNCHANGED faults
    /\ \/ /\ did[r] = 0 /\ Applied(file[r]) /\ Repeated[file[r]] # "passes"
          /\ Fail(r)
       \/ /\ ~(did[r] = 0 /\ Applied(file[r]) /\ Repeated[file[r]] = "raises")
          /\ did' = [did EXCEPT ![r] = @ + 1]
          /\ Goto(r, IF did[r] + 1 = Files[file[r]] THEN "record" ELSE "apply")
          /\ UNCHANGED <<log, recorded, file, starts>>

Record_OnConflictDoNothing(r) ==
    /\ At(r, "record")
    /\ Goto(r, "commit")
    /\ UNCHANGED <<log, recorded, file, did, starts, faults>>

\* INSERT INTO schema_migrations: version is its primary key.
Record(r) ==
    /\ At(r, "record")
    /\ \/ file[r] \in recorded /\ Fail(r)
       \/ /\ file[r] \notin recorded
          /\ Goto(r, "commit")
          /\ UNCHANGED <<log, recorded, file, did, starts>>
    /\ UNCHANGED faults

Committed(r) ==
    /\ log' = log \o Executed(file[r], did[r])
    /\ recorded' = recorded \cup {file[r]}
    /\ did' = [did EXCEPT ![r] = 0]
    /\ UNCHANGED starts

Commit(r) == At(r, "commit") /\ Committed(r) /\ Advance(r) /\ UNCHANGED faults

\* The commit is done, but its reply is lost.
CommitLost(r) ==
    /\ At(r, "commit")
    /\ faults < MaxFaults
    /\ faults' = faults + 1
    /\ Committed(r)
    /\ Goto(r, "failed")
    /\ UNCHANGED file

\* A statement errs, the command is interrupted, or its process dies.
Err(r) ==
    /\ pc[r] \notin {"off", "done", "failed"}
    /\ faults < MaxFaults
    /\ faults' = faults + 1
    /\ Fail(r)

Step(r) == CreateTable(r) \/ Check(r) \/ Apply(r) \/ Record(r) \/ Commit(r)

Terminated ==
    /\ starts = MaxStarts /\ \A r \in Runners : pc[r] \in {"off", "done", "failed"}
    /\ UNCHANGED vars

Next ==
    \/ \E r \in Runners : Start(r) \/ Step(r) \/ CommitLost(r) \/ Err(r)
    \/ Terminated

Spec == Init /\ [][Next]_vars /\ \A r \in Runners : WF_vars(Step(r))

-------------------------------------------------------------------------------
\* However runners overlap, fail and are repeated, the database executes the
\* files as SchemaUpgrade says: whole, once, in order.
Promise == INSTANCE SchemaUpgrade
ImplementsUpgrade == Promise!Spec

\* schema_migrations tells which files the database has executed, none of them
\* by half, whichever statement failed; and the API and the worker, which start
\* after a runner that exited with 0, find the whole schema, even if that runner
\* skipped files that another one was at.
RecordedIsApplied ==
    /\ TypeOK
    /\ recorded = {log[i][1] : i \in DOMAIN log}
    /\ \A f \in recorded : \E i \in DOMAIN log : log[i] = <<f, Files[f]>>
    /\ (\E r \in Runners : pc[r] = "done") => recorded = DOMAIN Files

\* A runner that was started ends, also one that waits for another's transaction.
Settles == \A r \in Runners : pc[r] = "table" ~> pc[r] \in {"done", "failed"}

===============================================================================
