--------------------------- MODULE IngestLockProofs ---------------------------
(***************************************************************************)
(* Proofs about IngestLock: for every set of pids, any number of crashes,  *)
(* and with a stat that prints the lock's mtime or one that does not, the  *)
(* holder of the lock keeps it and its Postgres for as long as no runner   *)
(* has moved a newer directory away.                                       *)
(***************************************************************************)
EXTENDS IngestLock, FiniteSetTheorems, TLAPS

(* Without runners the invariant holds.                                    *)
LEMMA Initially == Init => IInv
  <1> SUFFICES ASSUME Init PROVE IInv
    OBVIOUS
  <1>1. TypeOK
    <2>1. pc \in [Pid -> Commands] /\ holder \in [Pid -> Pid \cup {NoPid}]
          /\ dockerStarted \in [Pid -> BOOLEAN]
      BY DEF Init, Commands
    <2>2. crashes \in 0 .. MaxCrashes
      BY CrashesAssumption DEF Init
    <2>3. QED
      BY <2>1, <2>2 DEF Init, TypeOK
  <1>2. \A p \in Pid : pc[p] = "none" /\ ~dockerStarted[p]
    BY DEF Init
  <1>3. StartedByRun
    BY <1>2 DEF StartedByRun
  <1>4. OneOwner /\ OwnerHasLock /\ JudgesSpareOwner /\ ThievesAreLate /\ PostgresKeptForRun
    BY <1>2 DEF OneOwner, OwnerHasLock, JudgesSpareOwner, ThievesAreLate,
                PostgresKeptForRun, Owning, Holding
  <1>5. QED
    BY <1>1, <1>3, <1>4 DEF IInv, Shielded

(* What the pid file of any directory the model may have holds.            *)
LEMMA LockHoldsPid == TypeOK => lock.pid \in Pid \cup {NoPid}
  <1> SUFFICES ASSUME TypeOK PROVE lock.pid \in Pid \cup {NoPid}
    OBVIOUS
  <1>1. CASE lock = Absent
    BY <1>1 DEF Absent
  <1>2. CASE lock \in [here : {TRUE}, pid : Pid \cup {NoPid}, fresh : BOOLEAN]
    BY <1>2
  <1>3. QED
    BY <1>1, <1>2 DEF TypeOK

(* A directory just made is a lock without a pid.                          *)
LEMMA MadeIsLock == Made \in [here : {TRUE}, pid : Pid \cup {NoPid}, fresh : BOOLEAN]
  BY DEF Made

(* Each command keeps the types.                                           *)
LEMMA TypeStep == TypeOK /\ [Next]_vars => TypeOK'
  <1> SUFFICES ASSUME TypeOK, [Next]_vars PROVE TypeOK'
    OBVIOUS
  <1> USE PidAssumption, CrashesAssumption
      DEF TypeOK, Commands, Acquiring, Holding, lockVars, shellVars
  <1>1. ASSUME NEW p \in Pid, Start(p) PROVE TypeOK'
    BY <1>1 DEF Start, Continue, Goto
  <1>2. ASSUME NEW p \in Pid, Mkdir(p) PROVE TypeOK'
    <2>1. pc' \in [Pid -> Commands]
      BY <1>2 DEF Mkdir, MakeLock, Continue, Goto
    <2>2. overtaken' \subseteq Pid
      BY <1>2 DEF Mkdir, MakeLock, Continue
    <2>3. lock' = Made \/ lock' = lock
      BY <1>2 DEF Mkdir, MakeLock
    <2>4. UNCHANGED <<holder, dockerStarted, postgres, crashes, robbed, mtimeReadable>>
      BY <1>2 DEF Mkdir, MakeLock, Continue
    <2>5. QED
      BY <2>1, <2>2, <2>3, <2>4, MadeIsLock
  <1>3. ASSUME NEW p \in Pid, Cat(p) PROVE TypeOK'
    <2>1. lock.pid \in Pid \cup {NoPid}
      BY LockHoldsPid
    <2>2. holder' \in [Pid -> Pid \cup {NoPid}] /\ pc' \in [Pid -> Commands]
      BY <1>3, <2>1 DEF Cat, Goto
    <2>3. QED
      BY <1>3, <2>2 DEF Cat
  <1>4. ASSUME NEW p \in Pid, Judge(p) PROVE TypeOK'
    BY <1>4 DEF Judge, Continue, Goto, Exit
  <1>5. ASSUME NEW p \in Pid, Steal(p) PROVE TypeOK'
    BY <1>5 DEF Steal, Continue, Goto, Exit
  <1>6. ASSUME NEW p \in Pid, Remake(p) PROVE TypeOK'
    <2>1. pc' \in [Pid -> Commands]
      BY <1>6 DEF Remake, MakeLock, Exit, Goto
    <2>2. overtaken' \subseteq Pid
      BY <1>6 DEF Remake, MakeLock, Exit
    <2>3. lock' = Made \/ lock' = lock
      BY <1>6 DEF Remake, MakeLock
    <2>4. holder' \in [Pid -> Pid \cup {NoPid}] /\ dockerStarted' \in [Pid -> BOOLEAN]
      BY <1>6 DEF Remake, MakeLock, Exit
    <2>5. UNCHANGED <<postgres, crashes, robbed, mtimeReadable>>
      BY <1>6 DEF Remake
    <2>6. QED
      BY <2>1, <2>2, <2>3, <2>4, <2>5, MadeIsLock
  <1>7. ASSUME NEW p \in Pid, WritePid(p) PROVE TypeOK'
    BY <1>7 DEF WritePid, Continue, Goto, Exit, Absent
  <1>8. ASSUME NEW p \in Pid, BringUpPostgres(p) PROVE TypeOK'
    BY <1>8 DEF BringUpPostgres, Goto
  <1>9. ASSUME NEW p \in Pid, IngestEnds(p) PROVE TypeOK'
    BY <1>9 DEF IngestEnds, Continue, Goto
  <1>10. ASSUME NEW p \in Pid, StopPostgres(p) PROVE TypeOK'
    BY <1>10 DEF StopPostgres, Stopped, Continue, Goto
  <1>11. ASSUME NEW p \in Pid, Unlink(p) PROVE TypeOK'
    BY <1>11, MadeIsLock DEF Unlink, Continue, Goto
  <1>12. ASSUME NEW p \in Pid, Rmdir(p) PROVE TypeOK'
    BY <1>12 DEF Rmdir, Goto, Exit
  <1>13. ASSUME NEW p \in Pid, Crash(p) PROVE TypeOK'
    <2>1. crashes' \in 0 .. MaxCrashes
      BY <1>13 DEF Crash
    <2>2. QED
      BY <1>13, <2>1 DEF Crash, Goto, Exit
  <1>14. CASE GraceElapses
    <2>1. lock # Absent
      BY <1>14 DEF GraceElapses, Absent
    <2>2. lock' \in [here : {TRUE}, pid : Pid \cup {NoPid}, fresh : BOOLEAN]
      BY <1>14, <2>1 DEF GraceElapses
    <2>3. QED
      BY <1>14, <2>2 DEF GraceElapses
  <1>15. CASE OperatorStarts
    BY <1>15 DEF OperatorStarts
  <1>16. CASE UNCHANGED vars
    BY <1>16 DEF vars
  <1>17. QED
    BY <1>1, <1>2, <1>3, <1>4, <1>5, <1>6, <1>7, <1>8, <1>9, <1>10, <1>11, <1>12,
       <1>13, <1>14, <1>15, <1>16 DEF Next, Command

(* Only a run in progress has the flag that it started the container.      *)
LEMMA StartedStep ==
  TypeOK /\ StartedByRun /\ [Next]_vars => StartedByRun'
  <1> SUFFICES ASSUME TypeOK, StartedByRun, [Next]_vars,
                      NEW q \in Pid, dockerStarted'[q]
               PROVE pc'[q] \in {"ingest", "stop", "unlink", "rmdir"}
    BY DEF StartedByRun
  <1> USE DEF TypeOK, StartedByRun, Goto, Continue, Exit, lockVars, shellVars
  <1>1. ASSUME NEW p \in Pid, Start(p) PROVE pc'[q] \in {"ingest", "stop", "unlink", "rmdir"}
    BY <1>1 DEF Start
  <1>2. ASSUME NEW p \in Pid, Mkdir(p) \/ Remake(p)
        PROVE pc'[q] \in {"ingest", "stop", "unlink", "rmdir"}
    BY <1>2 DEF Mkdir, Remake, MakeLock
  <1>3. ASSUME NEW p \in Pid, Cat(p) \/ Judge(p) \/ Steal(p) \/ WritePid(p)
        PROVE pc'[q] \in {"ingest", "stop", "unlink", "rmdir"}
    BY <1>3 DEF Cat, Judge, Steal, WritePid
  <1>4. ASSUME NEW p \in Pid, BringUpPostgres(p) \/ IngestEnds(p) \/ StopPostgres(p)
        PROVE pc'[q] \in {"ingest", "stop", "unlink", "rmdir"}
    BY <1>4 DEF BringUpPostgres, IngestEnds, StopPostgres
  <1>5. ASSUME NEW p \in Pid, Unlink(p) \/ Rmdir(p) \/ Crash(p)
        PROVE pc'[q] \in {"ingest", "stop", "unlink", "rmdir"}
    BY <1>5 DEF Unlink, Rmdir, Crash
  <1>6. CASE GraceElapses \/ OperatorStarts \/ UNCHANGED vars
    BY <1>6 DEF GraceElapses, OperatorStarts, vars
  <1>7. QED
    BY <1>1, <1>2, <1>3, <1>4, <1>5, <1>6 DEF Next, Command

(* Steps that make nobody an owner and leave the directory and the         *)
(* container alone: owners may only leave, and nobody turns to mv.         *)
LEMMA QuietStep ==
  ASSUME TypeOK, Shielded, ~robbed',
         lock' = lock, postgres' = postgres,
         \A q \in overtaken : pc'[q] \in {"judge", "mv"} => q \in overtaken',
         \A q \in Pid : pc'[q] = pc[q] \/ pc'[q] \notin Owning \cup {"judge", "mv"}
                       \/ (pc[q] = "ingest" /\ pc'[q] = "stop"),
         \A q \in Pid : pc'[q] = "judge" => holder'[q] = holder[q],
         \A q \in Pid : pc'[q] = "ingest" => dockerStarted'[q] = dockerStarted[q],
         ~robbed
  PROVE  Shielded'
  <1> DEFINE Kept(q) == pc[q] \in Owning
  <1>1. \A q \in Pid : pc'[q] \in Owning => Kept(q)
    BY DEF Owning, Holding
  <1>2. OneOwner'
    BY <1>1 DEF Shielded, OneOwner
  <1>3. OwnerHasLock'
    BY DEF Shielded, OwnerHasLock, Owning, Holding, Made
  <1>4. JudgesSpareOwner'
    BY <1>1 DEF Shielded, JudgesSpareOwner, Owning, Holding
  <1>5. ThievesAreLate'
    BY <1>1 DEF Shielded, ThievesAreLate, Owning, Holding
  <1>6. PostgresKeptForRun'
    BY DEF Shielded, PostgresKeptForRun, Owning, Holding
  <1>7. QED
    BY <1>2, <1>3, <1>4, <1>5, <1>6 DEF Shielded

(* A successful mkdir: there was no directory, so there was no owner, and  *)
(* everyone who has looked already becomes overtaken.                      *)
LEMMA MakeLockStep ==
  ASSUME TypeOK, Shielded, ~robbed, ~robbed', NEW p \in Pid,
         MakeLock(p), UNCHANGED postgres
  PROVE  Shielded'
  <1>1. \A q \in Pid : pc[q] \notin Owning
    BY DEF MakeLock, Shielded, OwnerHasLock, Owning, Made
  <1>2. pc' = [pc EXCEPT ![p] = "echo"] /\ lock' = Made
    BY DEF MakeLock, Goto
  <1>3. \A q \in Pid : pc'[q] \in Owning => q = p
    BY <1>1, <1>2 DEF TypeOK
  <1>4. OneOwner'
    BY <1>3 DEF OneOwner
  <1>5. OwnerHasLock'
    BY <1>1, <1>2, <1>3 DEF OwnerHasLock, Owning, Holding, TypeOK
  <1>6. \A q \in Pid : pc'[q] \in {"judge", "mv"} => q \in overtaken'
    BY <1>2 DEF MakeLock, TypeOK
  <1>7. JudgesSpareOwner' /\ ThievesAreLate'
    BY <1>6 DEF JudgesSpareOwner, ThievesAreLate
  <1>8. PostgresKeptForRun'
    BY <1>1, <1>2 DEF PostgresKeptForRun, TypeOK, Owning, Holding
  <1>9. QED
    BY <1>4, <1>5, <1>7, <1>8 DEF Shielded

(* cat reads the owner's pid, or nothing from a directory that is fresh.   *)
LEMMA CatStep ==
  ASSUME TypeOK, Shielded, ~robbed, ~robbed', NEW p \in Pid, Cat(p)
  PROVE  Shielded'
  <1>1. /\ pc' = [pc EXCEPT ![p] = "judge"] /\ pc[p] = "cat"
        /\ holder' = [holder EXCEPT ![p] = lock.pid]
        /\ UNCHANGED <<lock, overtaken, postgres, dockerStarted>>
    BY DEF Cat, Goto, lockVars
  <1>2. \A q \in Pid : pc'[q] \in Owning => pc[q] \in Owning /\ pc'[q] = pc[q]
    BY <1>1 DEF Owning, Holding, TypeOK
  <1>3. OneOwner' /\ OwnerHasLock'
    BY <1>1, <1>2 DEF Shielded, OneOwner, OwnerHasLock, Owning, Holding
  <1>4. \A q \in Pid : pc[q] \in Owning =>
            lock.pid = q \/ (lock.pid = NoPid /\ lock.fresh)
    BY DEF Shielded, OwnerHasLock, Owning, Made
  <1>5. JudgesSpareOwner'
    BY <1>1, <1>2, <1>4 DEF Shielded, JudgesSpareOwner, TypeOK
  <1>6. ThievesAreLate'
    BY <1>1, <1>2 DEF Shielded, ThievesAreLate, TypeOK
  <1>7. PostgresKeptForRun'
    BY <1>1, <1>2 DEF Shielded, PostgresKeptForRun, Owning, Holding
  <1>8. QED
    BY <1>3, <1>5, <1>6, <1>7 DEF Shielded

(* Only someone overtaken goes on to mv while there is an owner: everybody *)
(* else read the pid of a live run or a file the grace period protects.    *)
LEMMA JudgeStep ==
  ASSUME TypeOK, Shielded, ~robbed, ~robbed', NEW p \in Pid,
         pc[p] = "judge", ~HeldByOther(p), Continue(p, "mv"),
         UNCHANGED <<lock, robbed, postgres, crashes, mtimeReadable>>
  PROVE  Shielded'
  <1>1. /\ pc' = [pc EXCEPT ![p] = "mv"]
        /\ UNCHANGED <<lock, holder, overtaken, postgres, dockerStarted>>
    BY DEF Continue, Goto, shellVars
  <1>2. \A q \in Pid : pc'[q] \in Owning => pc[q] \in Owning /\ pc'[q] = pc[q]
    BY <1>1 DEF Owning, Holding, TypeOK
  <1>3. \A q \in Pid : pc[q] \in Owning => q # NoPid /\ Alive(q) /\ lock.here
    BY PidAssumption DEF Shielded, OwnerHasLock, Alive, Owning, Holding, Made
  <1>4. \A q \in Pid : pc[q] \in Owning => p \in overtaken
    BY <1>3 DEF Shielded, JudgesSpareOwner, HeldByOther
  <1>5. OneOwner' /\ OwnerHasLock'
    BY <1>1, <1>2 DEF Shielded, OneOwner, OwnerHasLock, Owning, Holding
  <1>6. JudgesSpareOwner'
    BY <1>1, <1>2 DEF Shielded, JudgesSpareOwner, TypeOK
  <1>7. ThievesAreLate'
    BY <1>1, <1>2, <1>4 DEF Shielded, ThievesAreLate, TypeOK
  <1>8. PostgresKeptForRun'
    BY <1>1, <1>2 DEF Shielded, PostgresKeptForRun, Owning, Holding
  <1>9. QED
    BY <1>5, <1>6, <1>7, <1>8 DEF Shielded

(* A directory that is moved away by one who is not overtaken has no owner. *)
LEMMA StealStep ==
  ASSUME TypeOK, Shielded, ~robbed, ~robbed', NEW p \in Pid,
         pc[p] = "mv", robbed' = (robbed \/ p \in overtaken), Goto(p, "remake")
  PROVE  Shielded'
  <1>1. \A q \in Pid : pc[q] \notin Owning
    BY DEF Shielded, ThievesAreLate
  <1>2. \A q \in Pid : pc'[q] \notin Owning
    BY <1>1 DEF Goto, TypeOK, Owning, Holding
  <1>3. QED
    BY <1>2 DEF Shielded, OneOwner, OwnerHasLock, JudgesSpareOwner, ThievesAreLate,
                PostgresKeptForRun, Owning, Holding

(* The owner goes on with its run.                                         *)
LEMMA OwnerStep ==
  ASSUME TypeOK, Shielded, ~robbed, ~robbed', NEW p \in Pid, pc[p] \in Owning,
         NEW command \in Owning, Goto(p, command), UNCHANGED <<holder, overtaken>>,
         lock' = lock \/ lock'.fresh,
         command \in Holding => lock'.here /\ lock'.pid = p,
         command \in {"echo", "rmdir"} => lock' = Made,
         command = "ingest" /\ dockerStarted'[p] => postgres' = "up"
  PROVE  Shielded'
  <1>1. pc' = [pc EXCEPT ![p] = command]
    BY DEF Goto
  <1>2. \A q \in Pid : pc'[q] \in Owning => q = p
    BY <1>1 DEF Shielded, OneOwner, TypeOK
  <1>3. pc'[p] = command
    BY <1>1 DEF TypeOK
  <1>4. OneOwner'
    BY <1>2 DEF OneOwner
  <1>5. OwnerHasLock'
    BY <1>2, <1>3 DEF OwnerHasLock, Owning
  <1>6. \A q \in Pid : pc'[q] \in {"judge", "mv"} => pc'[q] = pc[q]
    BY <1>1, <1>3 DEF TypeOK, Owning, Holding
  <1>7. JudgesSpareOwner'
    BY <1>2, <1>6 DEF Shielded, JudgesSpareOwner
  <1>8. ThievesAreLate'
    BY <1>2, <1>6 DEF Shielded, ThievesAreLate
  <1>9. PostgresKeptForRun'
    BY <1>2, <1>3 DEF PostgresKeptForRun, Owning, Holding
  <1>10. QED
    BY <1>4, <1>5, <1>7, <1>8, <1>9 DEF Shielded

(* Once the owner has left there is no owner.                              *)
LEMMA OwnerLeaves ==
  ASSUME TypeOK, Shielded, NEW p \in Pid, pc[p] \in Owning, Goto(p, "none")
  PROVE  Shielded'
  <1>1. \A q \in Pid : pc'[q] \notin Owning
    BY DEF Shielded, OneOwner, Goto, TypeOK, Owning, Holding
  <1>2. QED
    BY <1>1 DEF Shielded, OneOwner, OwnerHasLock, JudgesSpareOwner, ThievesAreLate,
                PostgresKeptForRun, Owning, Holding

(* The grace period does not elapse under a judge who relies on it.        *)
LEMMA GraceStep ==
  ASSUME TypeOK, Shielded, ~robbed, ~robbed', GraceElapses
  PROVE  Shielded'
  <1>1. /\ UNCHANGED <<pc, holder, overtaken, postgres, dockerStarted>>
        /\ lock'.here = lock.here /\ lock'.pid = lock.pid
    <2>1. lock # Absent
      BY DEF GraceElapses, Absent
    <2>2. lock \in [here : {TRUE}, pid : Pid \cup {NoPid}, fresh : BOOLEAN]
      BY <2>1 DEF TypeOK
    <2>3. QED
      BY <2>2 DEF GraceElapses, shellVars
  <1>2. \A q \in Pid : /\ pc[q] \notin {"echo", "rmdir"}
                       /\ pc[q] = "judge" => holder[q] # NoPid
    BY DEF GraceElapses
  <1>3. OneOwner' /\ OwnerHasLock' /\ ThievesAreLate'
    BY <1>1, <1>2 DEF Shielded, OneOwner, OwnerHasLock, ThievesAreLate
  <1>4. JudgesSpareOwner'
    BY <1>1, <1>2 DEF Shielded, JudgesSpareOwner
  <1>5. PostgresKeptForRun'
    BY <1>1 DEF Shielded, PostgresKeptForRun
  <1>6. QED
    BY <1>3, <1>4, <1>5 DEF Shielded

(* More Postgres is no harm, and neither is nothing at all.                *)
LEMMA IdleStep ==
  ASSUME Shielded, ~robbed,
         UNCHANGED <<lock, overtaken, robbed, holder, dockerStarted, pc>>,
         postgres' \in {postgres, "up"}
  PROVE  Shielded'
  BY DEF Shielded, OneOwner, OwnerHasLock, JudgesSpareOwner, ThievesAreLate,
         PostgresKeptForRun

(* Each command keeps the owner shielded until a directory is moved away   *)
(* late.                                                                   *)
LEMMA ShieldStep ==
  TypeOK /\ StartedByRun /\ Shielded /\ ~robbed /\ ~robbed' /\ [Next]_vars => Shielded'
  <1> SUFFICES ASSUME TypeOK, StartedByRun, Shielded, ~robbed, ~robbed', [Next]_vars
               PROVE  Shielded'
    OBVIOUS
  <1> USE DEF Goto, Continue, Exit, lockVars, shellVars
  <1>1. ASSUME NEW p \in Pid, Start(p) PROVE Shielded'
    BY <1>1, QuietStep DEF Start, TypeOK, Owning, Holding
  <1>2. ASSUME NEW p \in Pid, Mkdir(p) PROVE Shielded'
    <2>1. CASE MakeLock(p)
      BY <1>2, <2>1, MakeLockStep DEF Mkdir
    <2>2. CASE ~MakeLock(p)
      BY <1>2, <2>2, QuietStep DEF Mkdir, TypeOK, Owning, Holding
    <2>3. QED
      BY <2>1, <2>2
  <1>3. ASSUME NEW p \in Pid, Cat(p) PROVE Shielded'
    BY <1>3, CatStep
  <1>4. ASSUME NEW p \in Pid, Judge(p) PROVE Shielded'
    <2>1. CASE AgeIsNoNumber(p) \/ HeldByOther(p)
      BY <1>4, <2>1, QuietStep DEF Judge, TypeOK, Owning, Holding
    <2>2. CASE ~AgeIsNoNumber(p) /\ ~HeldByOther(p)
      BY <1>4, <2>2, JudgeStep DEF Judge
    <2>3. QED
      BY <2>1, <2>2
  <1>5. ASSUME NEW p \in Pid, Steal(p) PROVE Shielded'
    <2>1. CASE lock.here
      BY <1>5, <2>1, StealStep DEF Steal
    <2>2. CASE ~lock.here
      BY <1>5, <2>2, QuietStep DEF Steal, TypeOK, Owning, Holding
    <2>3. QED
      BY <2>1, <2>2
  <1>6. ASSUME NEW p \in Pid, Remake(p) PROVE Shielded'
    <2>1. CASE MakeLock(p)
      BY <1>6, <2>1, MakeLockStep DEF Remake
    <2>2. CASE ~MakeLock(p)
      BY <1>6, <2>2, QuietStep DEF Remake, TypeOK, Owning, Holding
    <2>3. QED
      BY <2>1, <2>2
  <1>7. ASSUME NEW p \in Pid, WritePid(p) PROVE Shielded'
    <2>1. pc[p] = "echo" /\ lock = Made
      BY <1>7 DEF WritePid, Shielded, OwnerHasLock
    <2>2. /\ lock' = [Made EXCEPT !.pid = p, !.fresh = TRUE]
          /\ Goto(p, "docker") /\ UNCHANGED <<holder, overtaken>>
      BY <1>7, <2>1 DEF WritePid, Made
    <2>3. lock'.here /\ lock'.pid = p /\ lock'.fresh
      BY <2>2 DEF Made
    <2>4. QED
      BY <2>1, <2>2, <2>3, OwnerStep DEF Owning, Holding
  <1>8. ASSUME NEW p \in Pid, BringUpPostgres(p) PROVE Shielded'
    <2>1. pc[p] = "docker" /\ Goto(p, "ingest") /\ UNCHANGED <<lock, holder, overtaken>>
      BY <1>8 DEF BringUpPostgres
    <2>2. dockerStarted'[p] => postgres' = "up"
      BY <1>8 DEF BringUpPostgres, StartedByRun, TypeOK
    <2>3. lock.here /\ lock.pid = p
      BY <2>1 DEF Shielded, OwnerHasLock, Holding
    <2>4. QED
      BY <2>1, <2>2, <2>3, OwnerStep DEF Owning, Holding
  <1>9. ASSUME NEW p \in Pid, IngestEnds(p) \/ StopPostgres(p) PROVE Shielded'
    <2>1. PICK command \in {"stop", "unlink"} :
            /\ pc[p] \in {"ingest", "stop"} /\ Goto(p, command)
            /\ UNCHANGED <<lock, holder, overtaken>>
      BY <1>9 DEF IngestEnds, StopPostgres
    <2>2. lock.here /\ lock.pid = p
      BY <2>1 DEF Shielded, OwnerHasLock, Holding
    <2>3. QED
      BY <2>1, <2>2, OwnerStep DEF Owning, Holding
  <1>10. ASSUME NEW p \in Pid, Unlink(p) PROVE Shielded'
    <2>1. pc[p] = "unlink" /\ Goto(p, "rmdir") /\ UNCHANGED <<holder, overtaken>>
      BY <1>10 DEF Unlink
    <2>2. lock' = Made
      BY <1>10, <2>1 DEF Unlink, Shielded, OwnerHasLock, Holding
    <2>3. QED
      BY <2>1, <2>2, OwnerStep DEF Owning, Holding, Made
  <1>11. ASSUME NEW p \in Pid, Rmdir(p) PROVE Shielded'
    BY <1>11, OwnerLeaves DEF Rmdir, Owning
  <1>12. ASSUME NEW p \in Pid, Crash(p) PROVE Shielded'
    <2>1. CASE pc[p] \in Owning
      BY <1>12, <2>1, OwnerLeaves DEF Crash
    <2>2. CASE pc[p] \notin Owning
      BY <1>12, <2>2, QuietStep DEF Crash, TypeOK, Owning, Holding
    <2>3. QED
      BY <2>1, <2>2
  <1>13. CASE GraceElapses
    BY <1>13, GraceStep
  <1>14. CASE OperatorStarts \/ UNCHANGED vars
    BY <1>14, IdleStep DEF OperatorStarts, vars
  <1>15. QED
    BY <1>1, <1>2, <1>3, <1>4, <1>5, <1>6, <1>7, <1>8, <1>9, <1>10, <1>11, <1>12,
       <1>13, <1>14 DEF Next, Command

(* Moving a newer directory away is remembered.                            *)
LEMMA RobbedStep == TypeOK /\ [Next]_vars /\ ~robbed' => ~robbed
  <1> SUFFICES ASSUME TypeOK, [Next]_vars, robbed PROVE robbed'
    BY DEF TypeOK
  <1> QED
    BY DEF Next, Command, Start, Mkdir, Cat, Judge, Steal, Remake, WritePid,
           BringUpPostgres, IngestEnds, StopPostgres, Unlink, Rmdir, Crash,
           GraceElapses, OperatorStarts, vars, lockVars

(* The strengthening that the two properties follow from is inductive.     *)
THEOREM LockInductive == Spec => []IInv
<1>1. Init => IInv
  BY Initially
<1>2. IInv /\ [Next]_vars => IInv'
  BY TypeStep, StartedStep, ShieldStep, RobbedStep DEF IInv
<1>3. QED
  BY <1>1, <1>2, PTL DEF Spec

(* The state of the lock is well-formed, however runners interleave.       *)
THEOREM LockTypeCorrect == Spec => []TypeOK
<1>1. IInv => TypeOK
  BY DEF IInv
<1>2. QED
  BY <1>1, LockInductive, PTL

(* For any set of pids: a run in progress has the lock, with its own pid   *)
(* in it, and is alone, unless a newer directory was moved away.           *)
THEOREM HolderIsSafe == Spec => []HolderKeepsLock
<1>1. IInv => HolderKeepsLock
  <2> SUFFICES ASSUME Shielded PROVE HolderKeepsLock
    BY DEF IInv, HolderKeepsLock
  <2> DEFINE owners == {p \in Pid : pc[p] \in Owning}
  <2>1. Cardinality(owners) <= 1
    <3>1. CASE owners = {}
      BY <3>1, FS_EmptySet
    <3>2. CASE owners # {}
      <4>1. PICK p \in owners : TRUE
        BY <3>2
      <4>2. owners = {p}
        BY <4>1 DEF Shielded, OneOwner
      <4>3. QED
        BY <4>2, FS_Singleton
    <3>3. QED
      BY <3>1, <3>2
  <2>2. QED
    BY <2>1 DEF HolderKeepsLock, Shielded, OwnerHasLock
<1>2. QED
  BY <1>1, LockInductive, PTL

(* For any set of pids: the container a run has brought up is not stopped  *)
(* under it by another run.                                                *)
THEOREM PostgresIsKept == Spec => []PostgresKeptForRun
<1>1. IInv => PostgresKeptForRun
  BY DEF IInv, Shielded, PostgresKeptForRun
<1>2. QED
  BY <1>1, LockInductive, PTL
===============================================================================
