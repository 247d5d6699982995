---------------------------- MODULE MigrationsProofs ---------------------------
(***************************************************************************)
(* Theorems about Migrations for any files, runners, starts and faults.    *)
(***************************************************************************)
EXTENDS Migrations, SequenceTheorems, TLAPS

-------------------------------------------------------------------------------
(* The inductive invariant. *)

\* Where a runner is says how much of its file its transaction has executed;
\* its check found the earlier files in the table; and what it will record is not
\* recorded yet.
RunnerInvOf(r) ==
    /\ pc[r] \in {"off", "table", "check", "done", "failed"} => did[r] = 0
    /\ pc[r] = "table" => file[r] = 1
    /\ pc[r] = "apply" => did[r] < Files[file[r]]
    /\ pc[r] \in {"record", "commit"} => did[r] = Files[file[r]]
    /\ pc[r] \in {"check", "apply", "record", "commit"} => 1..(file[r] - 1) \subseteq recorded
    /\ pc[r] = "commit" => file[r] \notin recorded
    /\ pc[r] = "done" => recorded = DOMAIN Files

RunnerInv == \A r \in Runners : RunnerInvOf(r)

\* One transaction at a time has executed statements of a file.
OneWriter ==
    \A r, q \in Runners : did[r] > 0 /\ did[q] > 0 /\ file[r] = file[q] => r = q

\* The files recorded are the first ones, the last one at the end of the log.
LogInv ==
    /\ \A f \in recorded : 1..f \subseteq recorded
    /\ recorded = {log[i][1] : i \in DOMAIN log}
    /\ \A f \in recorded : \E i \in DOMAIN log : log[i] = <<f, Files[f]>>
    /\ log # << >> => \A f \in recorded : f <= log[Len(log)][1]

Inv == TypeOK /\ RunnerInv /\ OneWriter /\ LogInv

-------------------------------------------------------------------------------
(* Files and statements. *)

\* The files are numbered from one, and each has a statement.
LEMMA FilesNumbered ==
    /\ Len(Files) \in Nat \ {0}
    /\ DOMAIN Files = 1..Len(Files)
    /\ \A f \in DOMAIN Files : f \in Nat \ {0} /\ Files[f] \in Nat \ {0}
<1>1. Files \in Seq(Nat \ {0}) /\ Files # << >>
  BY MigrationsAssumption
<1>2. Len(Files) \in Nat \ {0} /\ DOMAIN Files = 1..Len(Files)
  BY <1>1, LenProperties, EmptySeq
<1>3. \A f \in 1..Len(Files) : Files[f] \in Nat \ {0}
  BY <1>1, ElementOfSeq
<1> QED
  BY <1>2, <1>3

\* The bounds are numbers.
LEMMA BoundsNumbers == MaxStarts \in Nat /\ MaxFaults \in Nat
BY MigrationsAssumption

\* The statements of a file, as a sequence.
LEMMA FileExecuted ==
    ASSUME NEW f \in DOMAIN Files
    PROVE  /\ Executed(f, Files[f]) \in Seq(Statement)
           /\ Len(Executed(f, Files[f])) = Files[f]
           /\ \A i \in 1..Files[f] : Executed(f, Files[f])[i] = <<f, i>>
<1>1. Files[f] \in Nat
  BY FilesNumbered
<1>2. \A i \in 1..Files[f] : <<f, i>> \in Statement
  BY DEF Statement
<1> DEFINE e == Executed(f, Files[f])
<1>3. e \in [1..Files[f] -> Statement] /\ \A i \in 1..Files[f] : e[i] = <<f, i>>
  BY <1>2 DEF Executed
<1>4. e \in Seq(Statement)
  BY <1>1, <1>3, IsASeq
<1>5. DOMAIN e = 1..Files[f] /\ DOMAIN e = 1..Len(e) /\ Len(e) \in Nat
  BY <1>3, <1>4, LenProperties
<1> QED
  BY <1>1, <1>3, <1>4, <1>5

\* What becomes of a log to which the statements of a file are appended.
AppendsFile(l, f, m) ==
    /\ m \in Seq(Statement) /\ m # << >>
    /\ Len(m) \in DOMAIN m /\ m[Len(m)] = <<f, Files[f]>>
    /\ {m[i][1] : i \in DOMAIN m} = {l[i][1] : i \in DOMAIN l} \cup {f}
    /\ \A i \in DOMAIN l : i \in DOMAIN m /\ m[i] = l[i]

\* The statements of a file are as many as it has, the last one at the end.
LEMMA AppendedFile ==
    ASSUME NEW l \in Seq(Statement), NEW f \in DOMAIN Files, NEW m,
           m = l \o Executed(f, Files[f])
    PROVE  AppendsFile(l, f, m)
<1> DEFINE n == Files[f]
           e == Executed(f, n)
<1>1. n \in Nat \ {0}
  BY FilesNumbered
<1>2. e \in Seq(Statement) /\ Len(e) = n /\ \A i \in 1..n : e[i] = <<f, i>>
  BY FileExecuted
<1>3. m = l \o e
  OBVIOUS
<1> HIDE DEF e, n
<1>4. /\ m \in Seq(Statement) /\ Len(m) = Len(l) + n
      /\ \A i \in 1..(Len(l) + n) : m[i] = IF i <= Len(l) THEN l[i] ELSE e[i - Len(l)]
  <2>1. /\ l \o e \in Seq(Statement) /\ Len(l \o e) = Len(l) + Len(e)
        /\ \A i \in 1..(Len(l) + Len(e)) :
              (l \o e)[i] = IF i <= Len(l) THEN l[i] ELSE e[i - Len(l)]
    BY <1>2, ConcatProperties
  <2> QED
    BY <1>2, <1>3, <2>1
<1>5. DOMAIN l = 1..Len(l) /\ DOMAIN m = 1..(Len(l) + n) /\ Len(l) \in Nat
  BY <1>1, <1>4, LenProperties
<1>6. \A i \in DOMAIN l : i \in DOMAIN m /\ m[i] = l[i]
  BY <1>1, <1>4, <1>5
<1>7. \A i \in DOMAIN m : i \notin DOMAIN l => m[i] = <<f, i - Len(l)>>
  <2> SUFFICES ASSUME NEW i \in DOMAIN m, i \notin DOMAIN l
               PROVE  m[i] = <<f, i - Len(l)>>
    OBVIOUS
  <2>1. i - Len(l) \in 1..n /\ ~(i <= Len(l))
    BY <1>1, <1>5
  <2> QED
    BY <1>2, <1>4, <1>5, <2>1
<1>8. Len(m) \in DOMAIN m /\ Len(m) \notin DOMAIN l /\ Len(m) - Len(l) = n
  BY <1>1, <1>4, <1>5
<1>9. m[Len(m)] = <<f, n>> /\ m # << >>
  BY <1>1, <1>4, <1>5, <1>7, <1>8
<1>10. {m[i][1] : i \in DOMAIN m} = {l[i][1] : i \in DOMAIN l} \cup {f}
  BY <1>6, <1>7, <1>8
<1> QED
  BY <1>4, <1>6, <1>8, <1>9, <1>10 DEF n, AppendsFile

-------------------------------------------------------------------------------
(* The steps. *)

\* Init has nothing recorded and nobody started.
LEMMA InitInv == Init => Inv
<1> SUFFICES ASSUME Init PROVE Inv
  OBVIOUS
<1>1. log \in Seq(Statement) /\ DOMAIN log = {}
  BY EmptySeq, LenProperties DEF Init
<1>2. 1 \in DOMAIN Files /\ \A f \in DOMAIN Files : 0 <= Files[f]
  BY FilesNumbered
<1>3. TypeOK
  <2>1. 0 \in 0..MaxStarts /\ 0 \in 0..MaxFaults
    BY BoundsNumbers
  <2>2. file \in [Runners -> DOMAIN Files] /\ did \in [Runners -> Nat]
    BY <1>2 DEF Init
  <2>3. \A r \in Runners : did[r] <= Files[file[r]]
    BY <1>2 DEF Init
  <2> QED
    BY <1>1, <2>1, <2>2, <2>3 DEF Init, TypeOK
<1>4. RunnerInv /\ OneWriter /\ LogInv
  BY <1>1 DEF Init, RunnerInv, RunnerInvOf, OneWriter, LogInv, At
<1> QED
  BY <1>3, <1>4 DEF Inv

\* A runner that starts (again) has no transaction open.
LEMMA StartInv ==
    ASSUME Inv, NEW r \in Runners, Start(r)
    PROVE  Inv'
<1> USE DEF Inv, TypeOK, Start, Goto, At
<1>1. 1 \in DOMAIN Files /\ did[r] = 0
  BY FilesNumbered DEF RunnerInv, RunnerInvOf
<1>2. TypeOK'
  <2>1. starts' \in 0..MaxStarts
    BY BoundsNumbers
  <2>2. /\ file' \in [Runners -> DOMAIN Files] /\ did' \in [Runners -> Nat]
        /\ \A q \in Runners : did'[q] <= Files[file'[q]]
    BY <1>1, FilesNumbered
  <2> QED
    BY <2>1, <2>2
<1>3. RunnerInv'
  BY <1>1 DEF RunnerInv, RunnerInvOf
<1>4. (OneWriter /\ LogInv)'
  BY <1>1 DEF OneWriter, LogInv
<1> QED
  BY <1>2, <1>3, <1>4

\* schema_migrations is created if it does not exist.
LEMMA CreateTableInv ==
    ASSUME Inv, NEW r \in Runners, CreateTable(r)
    PROVE  Inv'
<1> USE DEF Inv, TypeOK, CreateTable, Goto, At
<1>1. file[r] = 1 /\ did[r] = 0 /\ 1..(file[r] - 1) = {}
  BY DEF RunnerInv, RunnerInvOf
<1>2. TypeOK'
  OBVIOUS
<1>3. RunnerInv'
  BY <1>1 DEF RunnerInv, RunnerInvOf
<1>4. (OneWriter /\ LogInv)'
  BY DEF OneWriter, LogInv
<1> QED
  BY <1>2, <1>3, <1>4

\* The check goes past a recorded file; the earlier ones are recorded.
LEMMA CheckInv ==
    ASSUME Inv, NEW r \in Runners, Check(r)
    PROVE  Inv'
<1> USE DEF Inv, TypeOK, Check, Goto, At
<1>1. /\ did[r] = 0 /\ 1..(file[r] - 1) \subseteq recorded
      /\ file[r] \in DOMAIN Files /\ DOMAIN Files = 1..Len(Files) /\ Len(Files) \in Nat
      /\ \A f \in DOMAIN Files : Files[f] \in Nat \ {0}
  BY FilesNumbered DEF RunnerInv, RunnerInvOf
<1>2. CASE file[r] \in recorded /\ file[r] < Len(Files)
  <2>1. /\ file' = [file EXCEPT ![r] = @ + 1] /\ pc' = [pc EXCEPT ![r] = "check"]
        /\ UNCHANGED <<log, recorded, did, starts, faults>>
    BY <1>2 DEF Advance
  <2>2. file[r] + 1 \in DOMAIN Files /\ 1..file[r] \subseteq recorded
    BY <1>1, <1>2
  <2>3. TypeOK'
    BY <1>1, <2>1, <2>2
  <2>4. RunnerInv'
    BY <1>1, <2>1, <2>2 DEF RunnerInv, RunnerInvOf
  <2>5. OneWriter'
    <3>1. \A q \in Runners : did[q] > 0 => q # r /\ file'[q] = file[q]
      BY <1>1, <2>1
    <3> QED
      BY <2>1, <3>1 DEF OneWriter
  <2>6. LogInv'
    BY <2>1 DEF LogInv
  <2> QED
    BY <2>3, <2>4, <2>5, <2>6
<1>3. CASE file[r] \in recorded /\ ~(file[r] < Len(Files))
  <2>1. pc' = [pc EXCEPT ![r] = "done"] /\ UNCHANGED <<log, recorded, file, did, starts, faults>>
    BY <1>3 DEF Advance
  <2>2. recorded = DOMAIN Files
    <3>1. \A f \in DOMAIN Files : f = file[r] \/ f \in 1..(file[r] - 1)
      BY <1>1, <1>3
    <3> QED
      BY <1>1, <1>3, <3>1
  <2>3. TypeOK'
    BY <2>1
  <2>4. RunnerInv'
    BY <1>1, <2>1, <2>2 DEF RunnerInv, RunnerInvOf
  <2>5. (OneWriter /\ LogInv)'
    BY <2>1 DEF OneWriter, LogInv
  <2> QED
    BY <2>3, <2>4, <2>5
<1>4. CASE file[r] \notin recorded
  <2>1. pc' = [pc EXCEPT ![r] = "apply"] /\ UNCHANGED <<log, recorded, file, did, starts, faults>>
    BY <1>4
  <2>2. TypeOK'
    BY <2>1
  <2>3. RunnerInv'
    BY <1>1, <2>1 DEF RunnerInv, RunnerInvOf
  <2>4. (OneWriter /\ LogInv)'
    BY <2>1 DEF OneWriter, LogInv
  <2> QED
    BY <2>2, <2>3, <2>4
<1> QED
  BY <1>2, <1>3, <1>4

\* A transaction that is rolled back leaves what others rely on.
LEMMA FailInv ==
    ASSUME Inv, NEW r \in Runners, Fail(r), faults' \in 0..MaxFaults
    PROVE  Inv'
<1> USE DEF Inv, TypeOK, Fail, Goto, At
<1>1. TypeOK'
  BY FilesNumbered
<1>2. RunnerInv'
  BY DEF RunnerInv, RunnerInvOf
<1>3. OneWriter'
  <2>1. \A q \in Runners : did'[q] > 0 => did[q] > 0
    OBVIOUS
  <2> QED
    BY <2>1 DEF OneWriter
<1>4. LogInv'
  BY DEF LogInv
<1> QED
  BY <1>1, <1>2, <1>3, <1>4

\* A file's first statement waits for every other transaction that is at it.
LEMMA ApplyInv ==
    ASSUME Inv, NEW r \in Runners, Apply(r)
    PROVE  Inv'
<1> USE DEF Inv, TypeOK, Goto, At
<1>1. CASE Fail(r)
  <2>1. faults' \in 0..MaxFaults
    BY DEF Apply
  <2> QED
    BY <1>1, <2>1, FailInv
<1>2. CASE ~Fail(r)
  <2>1. /\ pc[r] = "apply" /\ did' = [did EXCEPT ![r] = @ + 1]
        /\ pc' = [pc EXCEPT ![r] = IF did[r] + 1 = Files[file[r]] THEN "record" ELSE "apply"]
        /\ did[r] = 0 => ~Blocked(r)
        /\ UNCHANGED <<log, recorded, file, starts, faults>>
    BY <1>2 DEF Apply
  <2>2. /\ did[r] < Files[file[r]] /\ 1..(file[r] - 1) \subseteq recorded
        /\ \A f \in DOMAIN Files : Files[f] \in Nat \ {0}
    BY <2>1, FilesNumbered DEF RunnerInv, RunnerInvOf
  <2>3. TypeOK'
    BY <2>1, <2>2
  <2>4. RunnerInv'
    BY <2>1, <2>2 DEF RunnerInv, RunnerInvOf
  <2>5. OneWriter'
    <3> SUFFICES ASSUME NEW q \in Runners, did[q] > 0, file[q] = file[r]
                 PROVE  q = r
      BY <2>1 DEF OneWriter
    <3> QED
      BY <2>1 DEF OneWriter, Blocked
  <2>6. LogInv'
    BY <2>1 DEF LogInv
  <2> QED
    BY <2>3, <2>4, <2>5, <2>6
<1> QED
  BY <1>1, <1>2

\* The primary key refuses a version that is there.
LEMMA RecordInv ==
    ASSUME Inv, NEW r \in Runners, Record(r)
    PROVE  Inv'
<1> USE DEF Inv, TypeOK, Goto, At
<1>1. CASE Fail(r)
  <2>1. faults' \in 0..MaxFaults
    BY DEF Record
  <2> QED
    BY <1>1, <2>1, FailInv
<1>2. CASE ~Fail(r)
  <2>1. /\ pc[r] = "record" /\ pc' = [pc EXCEPT ![r] = "commit"] /\ file[r] \notin recorded
        /\ UNCHANGED <<log, recorded, file, did, starts, faults>>
    BY <1>2 DEF Record
  <2>2. TypeOK' /\ RunnerInv'
    BY <2>1 DEF RunnerInv, RunnerInvOf
  <2>3. (OneWriter /\ LogInv)'
    BY <2>1 DEF OneWriter, LogInv
  <2> QED
    BY <2>2, <2>3
<1> QED
  BY <1>1, <1>2

\* What a commit makes of the log and the table: the next file, whole.
LEMMA CommittedFile ==
    ASSUME Inv, NEW r \in Runners, At(r, "commit"), Committed(r)
    PROVE  /\ LogInv' /\ log' \in Seq(Statement)
           /\ recorded' = recorded \cup {file[r]} /\ file[r] \notin recorded
           /\ 1..file[r] \subseteq recorded'
           /\ log' # << >> /\ log'[Len(log')][1] = file[r]
<1> DEFINE f == file[r]
<1>1. /\ did[r] = Files[f] /\ f \in DOMAIN Files /\ DOMAIN Files = 1..Len(Files)
      /\ Len(Files) \in Nat
      /\ f \notin recorded /\ 1..(f - 1) \subseteq recorded /\ recorded \subseteq DOMAIN Files
      /\ log \in Seq(Statement)
  BY FilesNumbered DEF Inv, TypeOK, RunnerInv, RunnerInvOf, At
<1>2. log' = log \o Executed(f, Files[f]) /\ recorded' = recorded \cup {f}
  BY <1>1 DEF Committed
<1> HIDE DEF f
<1>3. /\ log' \in Seq(Statement) /\ log' # << >>
      /\ Len(log') \in DOMAIN log' /\ log'[Len(log')] = <<f, Files[f]>>
      /\ {log'[i][1] : i \in DOMAIN log'} = {log[i][1] : i \in DOMAIN log} \cup {f}
      /\ \A i \in DOMAIN log : i \in DOMAIN log' /\ log'[i] = log[i]
  <2>1. log' = log \o Executed(f, Files[f]) => AppendsFile(log, f, log')
    BY <1>1, AppendedFile
  <2> QED
    BY <1>2, <2>1 DEF AppendsFile
<1>4. f \in Nat /\ 1..f \subseteq recorded'
  BY <1>1, <1>2
<1>5. \A g \in recorded' : 1..g \subseteq recorded'
  BY <1>2, <1>4 DEF Inv, LogInv
<1>6. \A g \in recorded : g < f
  <2> SUFFICES ASSUME NEW g \in recorded PROVE g < f
    OBVIOUS
  <2>1. g \in Nat /\ 1..g \subseteq recorded /\ f \in 1..Len(Files)
    BY <1>1 DEF Inv, LogInv
  <2> QED
    BY <2>1, <1>1, <1>4
<1>7. LogInv'
  <2>1. recorded' = {log'[i][1] : i \in DOMAIN log'}
    BY <1>2, <1>3 DEF Inv, LogInv
  <2>2. \A g \in recorded' : \E i \in DOMAIN log' : log'[i] = <<g, Files[g]>>
    BY <1>2, <1>3 DEF Inv, LogInv
  <2>3. \A g \in recorded' : g <= log'[Len(log')][1]
    <3>1. \A g \in recorded' : g < f \/ g = f
      BY <1>2, <1>6
    <3>2. \A g \in recorded' : g \in Nat
      BY <1>1, <1>2
    <3> QED
      BY <1>3, <1>4, <3>1, <3>2
  <2> QED
    BY <1>5, <2>1, <2>2, <2>3 DEF LogInv
<1> QED
  BY <1>1, <1>2, <1>3, <1>4, <1>7 DEF f

\* The other runners after a commit: those at the same file had executed nothing.
LEMMA CommittedOthers ==
    ASSUME Inv, NEW r \in Runners, At(r, "commit"), Committed(r),
           \A q \in Runners \ {r} : pc'[q] = pc[q] /\ file'[q] = file[q]
    PROVE  \A q \in Runners \ {r} : RunnerInvOf(q)'
<1> TAKE q \in Runners \ {r}
<1>1. did'[q] = did[q] /\ recorded' = recorded \cup {file[r]} /\ recorded' \subseteq DOMAIN Files
  BY DEF Inv, TypeOK, Committed
<1>2. pc[q] = "commit" => file[q] # file[r]
  <2>1. did[r] > 0 /\ (pc[q] = "commit" => did[q] > 0)
    BY FilesNumbered DEF Inv, TypeOK, RunnerInv, RunnerInvOf, At
  <2> QED
    BY <2>1 DEF Inv, OneWriter
<1>3. pc'[q] = pc[q] /\ file'[q] = file[q]
  OBVIOUS
<1> QED
  BY <1>1, <1>2, <1>3 DEF Inv, RunnerInv, RunnerInvOf

\* The committer goes on to the next file, or is done with the last one.
LEMMA CommitInv ==
    ASSUME Inv, NEW r \in Runners, Commit(r)
    PROVE  Inv'
<1>1. At(r, "commit") /\ Committed(r) /\ Advance(r) /\ UNCHANGED <<starts, faults>>
  BY DEF Commit, Committed
<1>2. /\ LogInv' /\ log' \in Seq(Statement) /\ recorded' = recorded \cup {file[r]}
      /\ 1..file[r] \subseteq recorded'
  BY <1>1, CommittedFile
<1>3. did' = [did EXCEPT ![r] = 0]
  BY <1>1 DEF Committed
<1>4. /\ file[r] \in DOMAIN Files /\ DOMAIN Files = 1..Len(Files) /\ Len(Files) \in Nat
      /\ \A f \in DOMAIN Files : Files[f] \in Nat \ {0}
  BY FilesNumbered DEF Inv, TypeOK
<1>5. CASE file[r] < Len(Files)
  <2>1. file' = [file EXCEPT ![r] = @ + 1] /\ pc' = [pc EXCEPT ![r] = "check"]
    BY <1>1, <1>5 DEF Advance, Goto
  <2>2. file[r] + 1 \in DOMAIN Files /\ (file[r] + 1) - 1 = file[r]
    BY <1>4, <1>5
  <2>3. TypeOK'
    BY <1>1, <1>2, <1>3, <1>4, <2>1, <2>2 DEF Inv, TypeOK
  <2>4. \A q \in Runners \ {r} : pc'[q] = pc[q] /\ file'[q] = file[q]
    BY <2>1 DEF Inv, TypeOK
  <2>5. pc'[r] = "check" /\ did'[r] = 0 /\ file'[r] = file[r] + 1
    BY <1>3, <2>1 DEF Inv, TypeOK
  <2>6. RunnerInv'
    <3>1. \A q \in Runners \ {r} : RunnerInvOf(q)'
      BY <1>1, <2>4, CommittedOthers
    <3>2. RunnerInvOf(r)'
      BY <1>2, <2>2, <2>5 DEF RunnerInvOf
    <3> QED
      BY <3>1, <3>2 DEF RunnerInv, RunnerInvOf
  <2>7. OneWriter'
    <3>1. \A q \in Runners : did'[q] > 0 => q # r /\ did[q] > 0 /\ file'[q] = file[q]
      BY <1>3, <2>4, <2>5 DEF Inv, TypeOK
    <3> QED
      BY <3>1 DEF Inv, OneWriter
  <2> QED
    BY <1>2, <2>3, <2>6, <2>7 DEF Inv
<1>6. CASE ~(file[r] < Len(Files))
  <2>1. pc' = [pc EXCEPT ![r] = "done"] /\ file' = file
    BY <1>1, <1>6 DEF Advance, Goto
  <2>2. recorded' = DOMAIN Files
    <3>1. file[r] = Len(Files)
      BY <1>4, <1>6
    <3>2. recorded' \subseteq DOMAIN Files
      BY <1>2, <1>4 DEF Inv, TypeOK
    <3> QED
      BY <1>2, <1>4, <3>1, <3>2
  <2>3. TypeOK'
    BY <1>1, <1>2, <1>3, <1>4, <2>1 DEF Inv, TypeOK
  <2>4. \A q \in Runners \ {r} : pc'[q] = pc[q] /\ file'[q] = file[q]
    BY <2>1 DEF Inv, TypeOK
  <2>5. pc'[r] = "done" /\ did'[r] = 0
    BY <1>3, <2>1 DEF Inv, TypeOK
  <2>6. RunnerInv'
    <3>1. \A q \in Runners \ {r} : RunnerInvOf(q)'
      BY <1>1, <2>4, CommittedOthers
    <3>2. RunnerInvOf(r)'
      BY <1>2, <2>2, <2>5 DEF RunnerInvOf
    <3> QED
      BY <3>1, <3>2 DEF RunnerInv, RunnerInvOf
  <2>7. OneWriter'
    <3>1. \A q \in Runners : did'[q] > 0 => did[q] > 0
      BY <1>3 DEF Inv, TypeOK
    <3> QED
      BY <2>1, <3>1 DEF Inv, OneWriter
  <2> QED
    BY <1>2, <2>3, <2>6, <2>7 DEF Inv
<1> QED
  BY <1>5, <1>6

\* A committer that did not hear of its commit has failed; what it wrote stays.
LEMMA CommitLostInv ==
    ASSUME Inv, NEW r \in Runners, CommitLost(r)
    PROVE  Inv'
<1>1. /\ At(r, "commit") /\ Committed(r) /\ UNCHANGED <<file, starts>>
      /\ faults' \in 0..MaxFaults /\ pc' = [pc EXCEPT ![r] = "failed"]
      /\ did' = [did EXCEPT ![r] = 0]
  BY BoundsNumbers DEF CommitLost, Committed, Goto, Inv, TypeOK
<1>2. /\ LogInv' /\ log' \in Seq(Statement) /\ recorded' = recorded \cup {file[r]}
  BY <1>1, CommittedFile
<1>3. TypeOK'
  BY <1>1, <1>2, FilesNumbered DEF Inv, TypeOK
<1>4. \A q \in Runners \ {r} : pc'[q] = pc[q] /\ file'[q] = file[q]
  BY <1>1 DEF Inv, TypeOK
<1>5. pc'[r] = "failed" /\ did'[r] = 0
  BY <1>1 DEF Inv, TypeOK
<1>6. RunnerInv'
  BY <1>1, <1>4, <1>5, CommittedOthers DEF RunnerInv, RunnerInvOf
<1>7. OneWriter'
  <2>1. \A q \in Runners : did'[q] > 0 => did[q] > 0
    BY <1>1 DEF Inv, TypeOK
  <2> QED
    BY <1>1, <2>1 DEF Inv, OneWriter
<1> QED
  BY <1>2, <1>3, <1>6, <1>7 DEF Inv

\* A statement that errs.
LEMMA ErrInv ==
    ASSUME Inv, NEW r \in Runners, Err(r)
    PROVE  Inv'
<1>1. faults' \in 0..MaxFaults
  BY BoundsNumbers DEF Err, Inv, TypeOK
<1> QED
  BY <1>1, FailInv DEF Err

\* Nothing happens to the database or a runner in a step that changes no variable.
LEMMA StutterInv == Inv /\ UNCHANGED vars => Inv'
<1> SUFFICES ASSUME Inv, UNCHANGED vars PROVE Inv'
  OBVIOUS
<1>1. UNCHANGED <<log, recorded, pc, file, did, starts, faults>>
  BY DEF vars
<1>2. TypeOK' /\ RunnerInv'
  BY <1>1 DEF Inv, TypeOK, RunnerInv, RunnerInvOf, At
<1>3. OneWriter' /\ LogInv'
  BY <1>1 DEF Inv, OneWriter, LogInv
<1> QED
  BY <1>2, <1>3 DEF Inv

\* Every step keeps the invariant.
LEMMA StepInv == Inv /\ [Next]_vars => Inv'
<1> SUFFICES ASSUME Inv, [Next]_vars PROVE Inv'
  OBVIOUS
<1>1. CASE UNCHANGED vars
  BY <1>1, StutterInv
<1>2. ASSUME NEW r \in Runners, Start(r) \/ Step(r) \/ CommitLost(r) \/ Err(r)
      PROVE  Inv'
  BY <1>2, StartInv, CreateTableInv, CheckInv, ApplyInv, RecordInv, CommitInv,
     CommitLostInv, ErrInv DEF Step
<1> QED
  BY <1>1, <1>2 DEF Next, Terminated

-------------------------------------------------------------------------------
(* The theorems. *)

\* Runners, table and log fit together in every reachable state.
THEOREM Invariance == Spec => []Inv
BY InitInv, StepInv, PTL DEF Spec

\* schema_migrations tells exactly the files that the database executed, none of
\* them by half, and a runner that exited with 0 left the whole schema, for any
\* files and runners, however statements fail and runs are repeated.
THEOREM RecordedFilesAreApplied == Spec => []RecordedIsApplied
<1>1. Inv => RecordedIsApplied
  BY DEF Inv, RunnerInv, RunnerInvOf, LogInv, RecordedIsApplied, At
<1> QED
  BY <1>1, Invariance, PTL

\* A commit executes the next file, whole; no other step touches the log.
LEMMA CommittedUpgrades ==
    ASSUME Inv, NEW r \in Runners, At(r, "commit"), Committed(r)
    PROVE  Promise!Upgrade(file[r])
<1> DEFINE f == file[r]
           last == log[Len(log)][1]
<1>1. /\ did[r] = Files[f] /\ f \in DOMAIN Files /\ DOMAIN Files = 1..Len(Files)
      /\ Len(Files) \in Nat /\ log \in Seq(Statement)
      /\ f \notin recorded /\ 1..(f - 1) \subseteq recorded /\ recorded \subseteq DOMAIN Files
      /\ recorded = {log[i][1] : i \in DOMAIN log}
      /\ \A g \in recorded : 1..g \subseteq recorded
      /\ log # << >> => \A g \in recorded : g <= last
  BY FilesNumbered DEF Inv, TypeOK, RunnerInv, RunnerInvOf, LogInv, At
<1>2. log' = log \o Promise!StatementsOf(f)
  BY <1>1 DEF Committed, Promise!StatementsOf, Executed
<1> HIDE DEF f
<1>3. ASSUME log = << >> PROVE f = 1
  <2>1. recorded = {}
    BY <1>1, <1>3, LenProperties
  <2>2. f \in Nat \ {0} /\ (f # 1 => 1 \in 1..(f - 1))
    BY <1>1
  <2> QED
    BY <1>1, <2>1, <2>2
<1>4. ASSUME log # << >> PROVE f = last + 1
  <2>1. Len(log) \in DOMAIN log
    BY <1>1, <1>4, LenProperties, EmptySeq
  <2>2. last \in recorded
    BY <1>1, <2>1
  <2> HIDE DEF last
  <2>3. 1..last \subseteq recorded /\ last \in 1..Len(Files) /\ \A g \in recorded : g <= last
    BY <1>1, <1>4, <2>2
  <2>4. last < f
    BY <1>1, <2>3
  <2>5. f \in Nat /\ last \in Nat \ {0}
    BY <1>1, <2>3
  <2>6. f - 1 \in 1..(f - 1)
    BY <2>4, <2>5
  <2>7. f - 1 <= last
    BY <1>1, <2>3, <2>6
  <2> QED
    BY <2>4, <2>5, <2>7
<1> QED
  BY <1>2, <1>3, <1>4 DEF Promise!Upgrade, f

\* The migration command implements SchemaUpgrade: whatever the runners do, the
\* statements that the database has executed are those of the first files, each
\* file whole, once, and in its place.
THEOREM RunnersUpgradeTheSchema == Spec => ImplementsUpgrade
<1>1. Init => Promise!Init
  BY DEF Init, Promise!Init
<1>2. Inv /\ [Next]_vars => [Promise!Next]_log
  <2> SUFFICES ASSUME Inv, [Next]_vars, log' # log PROVE Promise!Next
    OBVIOUS
  <2>1. PICK r \in Runners : Commit(r) \/ CommitLost(r)
    BY DEF Next, Terminated, vars, Start, Step, CreateTable, Check, Apply, Record, Err, Fail
  <2>2. At(r, "commit") /\ Committed(r)
    BY <2>1 DEF Commit, CommitLost
  <2>3. file[r] \in DOMAIN Files
    BY DEF Inv, TypeOK
  <2> QED
    BY <2>2, <2>3, CommittedUpgrades DEF Promise!Next
<1> QED
  BY <1>1, <1>2, Invariance, PTL DEF Spec, ImplementsUpgrade, Promise!Spec

===============================================================================
