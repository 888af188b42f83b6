----------------------------- MODULE IngestLock -----------------------------
(***************************************************************************)
(* run_daily_ingest.sh: the mkdir lock that lets one run ingest at a time, *)
(* and the Postgres container a run brings up and stops again.             *)
(*                                                                         *)
(* A runner is the shell process that a scheduler or an operator starts,   *)
(* named by its pid.  One step is one command that reads or writes the     *)
(* lock directory or the container, so runners interleave between mkdir,   *)
(* cat, the test of what cat said, mv, the second mkdir, and echo.  A pid  *)
(* that has exited or died may be given to a later runner.                 *)
(*                                                                         *)
(* The lock directory is here or not; pid is the content of its pid file,  *)
(* and fresh says that its mtime is within LOCK_GRACE_SECONDS.  fresh is   *)
(* assumed to outlast the few commands between mkdir and echo, between cat *)
(* and stat, and inside rm -rf (GraceElapses); a run takes as long as it   *)
(* likes.                                                                  *)
(*                                                                         *)
(* lock_mtime asks `stat -f %m` first.  BSD's stat (macOS) prints the      *)
(* mtime; GNU's takes -f for "file system", prints a block of text and     *)
(* fails, so that `stat -c %Y` prints the mtime after it and the age is no *)
(* number.  mtimeReadable tells the two apart.                             *)
(*                                                                         *)
(* A killed run goes with its shell: launchd and systemd end what is left  *)
(* of the process group, a power cut everything.  The `uv run` child that  *)
(* survives a SIGKILL of an operator's shell alone is not modelled.        *)
(***************************************************************************)
EXTENDS Naturals, FiniteSets

CONSTANTS Pid,        \* process ids that runners get
          NoPid,      \* no pid file, or an empty one
          MaxCrashes  \* bound on runners killed by SIGKILL or a power cut

ASSUME PidAssumption == NoPid \notin Pid
ASSUME CrashesAssumption == MaxCrashes \in Nat

VARIABLES
    lock,           \* the directory LOCK_DIR
    pc,             \* pc[p]: the next command of the runner with pid p
    holder,         \* holder[p]: holder_pid, as p's cat read it
    dockerStarted,  \* dockerStarted[p]: DOCKER_STARTED of p
    postgres,       \* "up" or "down"
    crashes,        \* runners killed so far
    mtimeReadable,  \* stat -f %m prints the mtime, and nothing else
    overtaken,      \* runners whose cat is older than the current directory
    robbed          \* an overtaken runner has moved a directory away

lockVars == <<lock, overtaken, robbed>>
shellVars == <<holder, dockerStarted>>
vars == <<lockVars, postgres, shellVars, pc, crashes, mtimeReadable>>

Acquiring == {"mkdir", "cat", "judge", "mv", "remake"}
Holding == {"docker", "ingest", "stop", "unlink"}
Commands == {"none", "echo", "rmdir"} \cup Acquiring \cup Holding

Absent == [here |-> FALSE, pid |-> NoPid, fresh |-> FALSE]
Made == [here |-> TRUE, pid |-> NoPid, fresh |-> TRUE]

TypeOK ==
    /\ lock \in [here : {TRUE}, pid : Pid \cup {NoPid}, fresh : BOOLEAN] \cup {Absent}
    /\ pc \in [Pid -> Commands]
    /\ holder \in [Pid -> Pid \cup {NoPid}]
    /\ dockerStarted \in [Pid -> BOOLEAN]
    /\ postgres \in {"up", "down"}
    /\ crashes \in 0 .. MaxCrashes
    /\ mtimeReadable \in BOOLEAN
    /\ overtaken \subseteq Pid
    /\ robbed \in BOOLEAN

Init ==
    /\ lock = Absent
    /\ pc = [p \in Pid |-> "none"]
    /\ holder = [p \in Pid |-> NoPid]
    /\ dockerStarted = [p \in Pid |-> FALSE]
    /\ postgres = "down"
    /\ crashes = 0
    /\ mtimeReadable \in BOOLEAN
    /\ overtaken = {} /\ robbed = FALSE

Goto(p, command) == pc' = [pc EXCEPT ![p] = command]
Continue(p, command) == Goto(p, command) /\ UNCHANGED <<shellVars, overtaken>>

(* The shell's variables go with it.                                       *)
Exit(p) ==
    /\ Goto(p, "none")
    /\ holder' = [holder EXCEPT ![p] = NoPid]
    /\ dockerStarted' = [dockerStarted EXCEPT ![p] = FALSE]
    /\ overtaken' = overtaken \ {p}

(***************************************************************************)
(* Acquisition.                                                            *)
(***************************************************************************)

(* launchd's RunAtLoad and timer, systemd's timer, or an operator.         *)
Start(p) ==
    /\ pc[p] = "none"
    /\ Continue(p, "mkdir")
    /\ UNCHANGED <<lock, robbed, postgres, crashes, mtimeReadable>>

MakeLock_Parents(p) ==  \* mutant: mkdir -p, which also succeeds on a directory that is there
    /\ lock' = Made
    /\ overtaken' = overtaken \cup {q \in Pid : pc[q] \in {"judge", "mv"}}
    /\ Goto(p, "echo")
    /\ UNCHANGED shellVars

(* mkdir succeeds: whoever is about to judge or move the directory decided *)
(* to on the strength of an older one.                                     *)
MakeLock(p) ==
    /\ ~lock.here
    /\ lock' = Made
    /\ overtaken' = overtaken \cup {q \in Pid : pc[q] \in {"judge", "mv"}}
    /\ Goto(p, "echo")
    /\ UNCHANGED shellVars

Mkdir(p) ==
    /\ pc[p] = "mkdir"
    /\ \/ MakeLock(p)
       \/ lock.here /\ Continue(p, "cat") /\ UNCHANGED lock
    /\ UNCHANGED <<robbed, postgres, crashes, mtimeReadable>>

(* cat prints nothing for a missing file, and for a missing directory.     *)
Cat(p) ==
    /\ pc[p] = "cat"
    /\ holder' = [holder EXCEPT ![p] = lock.pid]
    /\ Goto(p, "judge")
    /\ UNCHANGED <<lockVars, postgres, dockerStarted, crashes, mtimeReadable>>

(* kill -0 and ps find a live runner under that pid.                       *)
Alive(q) == pc[q] # "none"

(* Mutants: no grace for a pid-less lock, and no thought of a dead holder. *)
HeldByOther_NoGrace(p) == holder[p] # NoPid /\ Alive(holder[p])
HeldByOther_Trusting(p) == holder[p] # NoPid \/ (lock.here /\ lock.fresh)

(* A missing directory has mtime 0, so its age is beyond any grace.        *)
HeldByOther(p) ==
    \/ holder[p] = NoPid /\ lock.here /\ lock.fresh
    \/ holder[p] # NoPid /\ Alive(holder[p])

(* The age of a pid-less directory that is there cannot be computed: under *)
(* set -u the shell dies of the arithmetic, before the EXIT trap is set.   *)
AgeIsNoNumber(p) == holder[p] = NoPid /\ lock.here /\ ~mtimeReadable

Judge(p) ==
    /\ pc[p] = "judge"
    /\ \/ /\ AgeIsNoNumber(p) \/ HeldByOther(p)
          /\ Exit(p)
       \/ /\ ~AgeIsNoNumber(p) /\ ~HeldByOther(p)
          /\ Continue(p, "mv")
    /\ UNCHANGED <<lock, robbed, postgres, crashes, mtimeReadable>>

(* mv to a name of one's own, then rm -rf of that name.                    *)
Steal(p) ==
    /\ pc[p] = "mv"
    /\ \/ /\ lock.here
          /\ lock' = Absent
          /\ robbed' = (robbed \/ p \in overtaken)
          /\ Continue(p, "remake")
       \/ /\ ~lock.here
          /\ Exit(p)
          /\ UNCHANGED <<lock, robbed>>
    /\ UNCHANGED <<postgres, crashes, mtimeReadable>>

Remake(p) ==
    /\ pc[p] = "remake"
    /\ \/ MakeLock(p)
       \/ lock.here /\ Exit(p) /\ UNCHANGED lock
    /\ UNCHANGED <<robbed, postgres, crashes, mtimeReadable>>

(* echo into the directory that now has the name, or die by set -e before  *)
(* the EXIT trap is set.                                                   *)
WritePid(p) ==
    /\ pc[p] = "echo"
    /\ \/ /\ lock.here
          /\ lock' = [lock EXCEPT !.pid = p, !.fresh = TRUE]
          /\ Continue(p, "docker")
       \/ /\ ~lock.here
          /\ Exit(p)
          /\ UNCHANGED lock
    /\ UNCHANGED <<robbed, postgres, crashes, mtimeReadable>>

(***************************************************************************)
(* The run.                                                                *)
(***************************************************************************)

(* docker compose up -d, which also succeeds on a container that is up.    *)
BringUpPostgres(p) ==
    /\ pc[p] = "docker"
    /\ \/ /\ postgres' = "up"
          /\ dockerStarted' = [dockerStarted EXCEPT ![p] = TRUE]
       \/ UNCHANGED <<postgres, dockerStarted>>
    /\ Goto(p, "ingest")
    /\ UNCHANGED <<lockVars, holder, crashes, mtimeReadable>>

(* The catch-up ends, well or badly.                                       *)
IngestEnds(p) ==
    /\ pc[p] = "ingest"
    /\ Continue(p, "stop")
    /\ UNCHANGED <<lock, robbed, postgres, crashes, mtimeReadable>>

Stopped(p) ==
    \/ dockerStarted[p] /\ postgres' = "down"
    \/ UNCHANGED postgres  \* not started by this run, or docker compose stop fails

StopPostgres_LockReleasedFirst(p) ==  \* mutant: rm -rf of the lock, then docker compose stop
    \/ /\ pc[p] = "stop"
       /\ lock' = Absent
       /\ Continue(p, "unlink")
       /\ UNCHANGED <<robbed, postgres, crashes, mtimeReadable>>
    \/ /\ pc[p] = "unlink"
       /\ Stopped(p)
       /\ Exit(p)
       /\ UNCHANGED <<lock, robbed, crashes, mtimeReadable>>

StopPostgres(p) ==
    /\ pc[p] = "stop"
    /\ Stopped(p)
    /\ Continue(p, "unlink")
    /\ UNCHANGED <<lock, robbed, crashes, mtimeReadable>>

(* rm -rf empties whatever directory has the name, ...                     *)
Unlink(p) ==
    /\ pc[p] = "unlink"
    /\ lock' = IF lock.here THEN Made ELSE lock
    /\ Continue(p, "rmdir")
    /\ UNCHANGED <<robbed, postgres, crashes, mtimeReadable>>

(* ... and removes it, unless a pid file has appeared in it meanwhile.     *)
Rmdir(p) ==
    /\ pc[p] = "rmdir"
    /\ lock' = IF lock.pid = NoPid THEN Absent ELSE lock
    /\ Exit(p)
    /\ UNCHANGED <<robbed, postgres, crashes, mtimeReadable>>

(***************************************************************************)
(* The environment.                                                        *)
(***************************************************************************)

(* No EXIT trap runs: the lock and the container stay as they are.         *)
Crash(p) ==
    /\ pc[p] # "none"
    /\ crashes < MaxCrashes
    /\ crashes' = crashes + 1
    /\ Exit(p)
    /\ UNCHANGED <<lock, robbed, postgres, mtimeReadable>>

(* Five minutes pass, with nobody inside a window of a few commands.       *)
GraceElapses ==
    /\ lock.fresh
    /\ \A p \in Pid : /\ pc[p] \notin {"echo", "rmdir"}
                      /\ pc[p] = "judge" => holder[p] # NoPid
    /\ lock' = [lock EXCEPT !.fresh = FALSE]
    /\ UNCHANGED <<overtaken, robbed, postgres, shellVars, pc, crashes, mtimeReadable>>

(* The operator brings Postgres up for work of their own.                  *)
OperatorStarts ==
    /\ postgres = "down"
    /\ postgres' = "up"
    /\ UNCHANGED <<lockVars, shellVars, pc, crashes, mtimeReadable>>

Command(p) ==
    \/ Mkdir(p) \/ Cat(p) \/ Judge(p) \/ Steal(p) \/ Remake(p) \/ WritePid(p)
    \/ BringUpPostgres(p) \/ IngestEnds(p) \/ StopPostgres(p) \/ Unlink(p) \/ Rmdir(p)

Next ==
    \/ \E p \in Pid : Start(p) \/ Command(p) \/ Crash(p)
    \/ GraceElapses \/ OperatorStarts

Spec == Init /\ [][Next]_vars

(* Live runners go on, nights pass, the schedulers keep starting runners.  *)
Fairness ==
    /\ \A p \in Pid : WF_vars(Start(p)) /\ WF_vars(Command(p))
    /\ SF_vars(GraceElapses)

FairSpec == Spec /\ Fairness

(***************************************************************************)
(* Properties.                                                             *)
(***************************************************************************)
Owning == Holding \cup {"echo", "rmdir"}

(* As long as no runner moved away a directory made after it had looked, a *)
(* run whose shell lives owns the lock, its own pid is in it until it lets *)
(* go, and so no second such run is in progress (the mkdir lock, its grace *)
(* period and its liveness test), whichever stat the system has.           *)
HolderKeepsLock ==
    ~robbed =>
        /\ \A p \in Pid : pc[p] \in Holding => lock.here /\ lock.pid = p
        /\ Cardinality({p \in Pid : pc[p] \in Owning}) <= 1

(* A run whose shell lives and that brought Postgres up finds it up until  *)
(* its own cleanup: no other run's cleanup stops the container under it.   *)
PostgresKeptForRun ==
    ~robbed => \A p \in Pid : pc[p] = "ingest" /\ dockerStarted[p] => postgres = "up"

(* From some point on, a runner starts only when no other is alive, as the *)
(* one daily timer does it.                                                *)
RunsApart == <>[][\A p \in Pid : Start(p) => \A q \in Pid : pc[q] = "none"]_vars

(* No runner can make this directory out to be abandoned: it has no pid,   *)
(* and its age is no number.                                               *)
BlockedForGood == ~mtimeReadable /\ lock.here /\ lock.pid = NoPid

(* A lock left behind by a run killed at any command does not block        *)
(* ingestion for good, not even when a later runner is given its pid.  One *)
(* left without a pid does where stat -f does not print the mtime          *)
(* (GNU/Linux; run_daily_ingest.sh:38), and nothing else does anywhere.    *)
IngestsAgain ==
    RunsApart => \/ []<>(\E p \in Pid : pc[p] = "ingest")
                 \/ <>[]BlockedForGood

(* The parts of the inductive invariant behind the two properties above.   *)
OneOwner ==
    \A p, q \in Pid : pc[p] \in Owning /\ pc[q] \in Owning => p = q

(* The directory an owner has: its own pid in it, or none yet, or no more. *)
OwnerHasLock ==
    \A p \in Pid : /\ pc[p] \in Holding => lock.here /\ lock.pid = p
                   /\ pc[p] \in {"echo", "rmdir"} => lock = Made

(* Who read the current directory and has not judged it yet read its owner *)
(* or an empty file, and in the second case the grace period protects it.  *)
JudgesSpareOwner ==
    \A p, q \in Pid :
        pc[p] \in Owning /\ pc[q] = "judge" /\ q \notin overtaken
        => holder[q] = p \/ (holder[q] = NoPid /\ lock.fresh)

(* Whoever is about to move away an owner's directory looked before it was *)
(* made.                                                                   *)
ThievesAreLate ==
    \A p, q \in Pid : pc[p] \in Owning /\ pc[q] = "mv" => q \in overtaken

StartedByRun ==
    \A p \in Pid : dockerStarted[p] => pc[p] \in {"ingest", "stop", "unlink", "rmdir"}

Shielded ==
    /\ OneOwner /\ OwnerHasLock /\ JudgesSpareOwner /\ ThievesAreLate
    /\ PostgresKeptForRun

IInv == TypeOK /\ StartedByRun /\ (~robbed => Shielded)

(***************************************************************************)
(* What documents of the repository say, and the script does not do.       *)
(***************************************************************************)

(* "It takes a single-instance lock (no overlapping runs)".                *)
NoOverlappingRuns == Cardinality({p \in Pid : pc[p] = "ingest"}) <= 1
=============================================================================
