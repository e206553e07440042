------------------------------- MODULE Smash --------------------------------
(***************************************************************************)
(* The job control of smash (hw1): the jobs list, the timeout list and the *)
(* three signal handlers, over the life cycle of the shell's children.    *)
(*                                                                         *)
(* The main loop (smash.cpp) reads a line, runs its command and, when the *)
(* command left a foreground child in wait_job_pid, blocks in waitForJob. *)
(* A command is one atomic step.  Ctrl-Z, Ctrl-C and SIGALRM run their    *)
(* handlers between commands or while main is blocked in waitpid.  The    *)
(* children run, stop, exit and are reaped on their own.                   *)
(*                                                                         *)
(* Command lines, prompts and output are left out: a command is its kind  *)
(* and its numeric arguments.  Job entries keep job_id, pid and stopped.   *)
(***************************************************************************)
EXTENDS Integers, FiniteSets, FiniteSetsExt, Functions, TLC

CONSTANTS
  MaxProcs,     \* children the shell may fork; pids are 1..MaxProcs
  MaxTime,      \* the clock (time(NULL)) runs from 0 to MaxTime
  Durations,    \* durations the user gives to timeout
  KillSignals,  \* signal numbers the user gives to kill
  Commands      \* the kinds of input the user gives in this run

ASSUME KillSignals \subseteq {9, 18, 19}

SIGKILL == 9
SIGCONT == 18
SIGSTOP == 19
NoPid == -1      \* wait_job_pid == -1: nothing to wait for
NoJob == -1      \* job_id of a JobEntry that was never added to the list
NoAlarm == -1    \* no alarm pending (alarm(0) cancels one)
NoDeadline == -1

Pids == 1 .. MaxProcs
JobIds == 1 .. MaxProcs
Times == 0 .. MaxTime + Max(Durations)

VARIABLES
  now,        \* time(NULL)
  alarmAt,    \* when the pending alarm expires
  proc,       \* each child: "none" (not forked), "run", "stop", "zombie", "reaped"
  jobs,       \* jobs_list.m_job_list: job_id -> [pid, stopped]
  fgJob,      \* foreground_job
  waitPid,    \* wait_job_pid
  fgKilled,   \* foreground_job_killed
  tlist,      \* timeout_list: completion time -> [id, pid]
  minct,      \* TimeoutCommand::execute's static min_completion_time
  exitShell,  \* exit_shell
  deadline    \* ghost: the completion time timeout gave each child

vars == <<now, alarmAt, proc, jobs, fgJob, waitPid, fgKilled, tlist, minct,
          exitShell, deadline>>

Alive == {"run", "stop"}

(* kill(pid, sig) for SIGKILL, SIGSTOP and SIGCONT.  It fails on a reaped *)
(* child; a zombie ignores every signal.                                   *)
Kill(pr, p, sig) ==
  CASE sig = SIGKILL /\ pr[p] \in Alive -> [pr EXCEPT ![p] = "zombie"]
    [] sig = SIGSTOP /\ pr[p] = "run"   -> [pr EXCEPT ![p] = "stop"]
    [] sig = SIGCONT /\ pr[p] = "stop"  -> [pr EXCEPT ![p] = "run"]
    [] OTHER -> pr

(* waitpid(pid, NULL, WNOHANG) reaps a child that has terminated. *)
ReapIfDone(pr, p) == IF pr[p] = "zombie" THEN [pr EXCEPT ![p] = "reaped"] ELSE pr

(* fork(): the kernel hands out pids in increasing order. *)
NewPid == Min({p \in Pids : proc[p] = "none"})
CanFork(n) == Cardinality({p \in Pids : proc[p] = "none"}) >= n

(* JobEntry(cmd_line, pid): job_id -1, not stopped. *)
MkJob(p) == [pid |-> p, stopped |-> FALSE]

(* JobsList::addJob: an entry with job_id -1 gets the largest id plus one *)
(* (1 in an empty list); any other entry is stored under its own id.      *)
(* Mutant: the new id skips one. *)
NewJobIdSkip(jb) == IF DOMAIN jb = {} THEN 1 ELSE Max(DOMAIN jb) + 2
NewJobId(jb) == IF DOMAIN jb = {} THEN 1 ELSE Max(DOMAIN jb) + 1
AddJob(jb, id, e) == ((IF id = NoJob THEN NewJobId(jb) ELSE id) :> e) @@ jb

RemoveJob(jb, id) == Restrict(jb, DOMAIN jb \ {id})

(* removeFinishedJobs: every listed child that waitpid(WNOHANG) reaps    *)
(* leaves the list.                                                        *)
RemoveFinished(jb, pr) == Restrict(jb, {i \in DOMAIN jb : pr[jb[i].pid] # "zombie"})
ReapListed(jb, pr) ==
  [p \in Pids |-> IF pr[p] = "zombie" /\ \E i \in DOMAIN jb : jb[i].pid = p
                  THEN "reaped" ELSE pr[p]]

(* getLastStoppedJob, called only when stoppedJobs() holds. *)
LastStopped(jb) == Max({i \in DOMAIN jb : jb[i].stopped})

(* killAllJobs: a listed child that waitpid(WNOHANG) does not reap gets   *)
(* SIGKILL and a blocking waitpid.  Either way it ends reaped.            *)
KillAll(jb, pr) ==
  [p \in Pids |-> IF pr[p] \in Alive \cup {"zombie"} /\ \E i \in DOMAIN jb : jb[i].pid = p
                  THEN "reaped" ELSE pr[p]]

(* The shell reads a command only at the prompt: nothing to wait for. *)
AtPrompt == ~exitShell /\ waitPid = NoPid

(* Main returns from waitpid(wait_job_pid, WUNTRACED) once the child is  *)
(* stopped or dead, or at once when it was already reaped.                 *)
WaitReady == waitPid # NoPid /\ proc[waitPid] # "run"

-----------------------------------------------------------------------------
(***************************************************************************)
(* Commands.  Each runs from CreateCommand to the end of execute().       *)
(***************************************************************************)
(* ExternalCommand::execute in the foreground. *)
RunForeground ==
  /\ AtPrompt /\ "external" \in Commands /\ CanFork(1)
  /\ proc' = [proc EXCEPT ![NewPid] = "run"]
  /\ fgJob' = [id |-> NoJob, pid |-> NewPid, stopped |-> FALSE]
  /\ waitPid' = NewPid
  /\ UNCHANGED <<now, alarmAt, jobs, fgKilled, tlist, minct, exitShell, deadline>>

(* ExternalCommand::execute of a line ending in &. *)
RunBackground ==
  /\ AtPrompt /\ "external&" \in Commands /\ CanFork(1)
  /\ proc' = [proc EXCEPT ![NewPid] = "run"]
  /\ jobs' = AddJob(jobs, NoJob, MkJob(NewPid))
  /\ UNCHANGED <<now, alarmAt, fgJob, waitPid, fgKilled, tlist, minct, exitShell, deadline>>

(* TimeoutCommand::execute: run the inner external command, arm the alarm *)
(* when the new completion time is below min_completion_time or the list *)
(* is empty, and insert the entry.  std::map::insert keeps an entry that  *)
(* already has the key.  The ghost deadline records what timeout promised *)
(* for a positive duration.                                                *)
Timeout(d, background) ==
  /\ AtPrompt /\ "timeout" \in Commands /\ CanFork(1)
  /\ LET p == NewPid
         c == now + d
         arm == minct > c \/ DOMAIN tlist = {}
     IN /\ proc' = [proc EXCEPT ![p] = "run"]
        /\ IF background
           THEN /\ jobs' = AddJob(jobs, NoJob, MkJob(p))
                /\ UNCHANGED <<fgJob, waitPid>>
           ELSE /\ fgJob' = [id |-> NoJob, pid |-> p, stopped |-> FALSE]
                /\ waitPid' = p
                /\ UNCHANGED jobs
        /\ alarmAt' = IF ~arm THEN alarmAt ELSE IF d = 0 THEN NoAlarm ELSE c
        /\ minct' = IF arm THEN c ELSE minct
        /\ tlist' = tlist @@ (c :> [id |-> IF background THEN NewJobId(jobs) ELSE NoJob,
                                    pid |-> p])
        /\ deadline' = IF d > 0 THEN [deadline EXCEPT ![p] = c] ELSE deadline
  /\ UNCHANGED <<now, fgKilled, exitShell>>

(* JobsCommand::execute: removeFinishedJobs, then print. *)
JobsCmd ==
  /\ AtPrompt /\ "jobs" \in Commands
  /\ jobs' = RemoveFinished(jobs, proc)
  /\ proc' = ReapListed(jobs, proc)
  /\ UNCHANGED <<now, alarmAt, fgJob, waitPid, fgKilled, tlist, minct, exitShell, deadline>>

(* Mutant: fg leaves the job in the list. *)
FgKeepsJob(arg) ==
  /\ AtPrompt /\ "fg" \in Commands
  /\ LET jb == RemoveFinished(jobs, proc)
         pr == ReapListed(jobs, proc)
         id == IF arg = NoJob THEN Max(DOMAIN jb) ELSE arg
     IN IF (arg = NoJob /\ DOMAIN jb = {}) \/ (arg # NoJob /\ arg \notin DOMAIN jb)
        THEN jobs' = jb /\ proc' = pr /\ UNCHANGED <<fgJob, waitPid>>
        ELSE /\ fgJob' = [id |-> id, pid |-> jb[id].pid, stopped |-> jb[id].stopped]
             /\ jobs' = jb
             /\ waitPid' = jb[id].pid
             /\ proc' = Kill(pr, jb[id].pid, SIGCONT)
  /\ UNCHANGED <<now, alarmAt, fgKilled, tlist, minct, exitShell, deadline>>

(* ForegroundCommand::execute; arg NoJob is fg without an argument.  The  *)
(* job leaves the list, becomes foreground_job and gets SIGCONT.          *)
Fg(arg) ==
  /\ AtPrompt /\ "fg" \in Commands
  /\ LET jb == RemoveFinished(jobs, proc)
         pr == ReapListed(jobs, proc)
         id == IF arg = NoJob THEN Max(DOMAIN jb) ELSE arg
     IN IF (arg = NoJob /\ DOMAIN jb = {}) \/ (arg # NoJob /\ arg \notin DOMAIN jb)
        THEN jobs' = jb /\ proc' = pr /\ UNCHANGED <<fgJob, waitPid>>
        ELSE /\ fgJob' = [id |-> id, pid |-> jb[id].pid, stopped |-> jb[id].stopped]
             /\ jobs' = RemoveJob(jb, id)
             /\ waitPid' = jb[id].pid
             /\ proc' = Kill(pr, jb[id].pid, SIGCONT)
  /\ UNCHANGED <<now, alarmAt, fgKilled, tlist, minct, exitShell, deadline>>

(* BackgroundCommand::execute: SIGCONT to the given stopped job, or to   *)
(* the stopped job with the largest id.                                    *)
Bg(arg) ==
  /\ AtPrompt /\ "bg" \in Commands
  /\ LET jb == RemoveFinished(jobs, proc)
         pr == ReapListed(jobs, proc)
         id == IF arg = NoJob THEN LastStopped(jb) ELSE arg
     IN IF \/ arg = NoJob /\ \A i \in DOMAIN jb : ~jb[i].stopped
           \/ arg # NoJob /\ (arg \notin DOMAIN jb \/ ~jb[arg].stopped)
        THEN jobs' = jb /\ proc' = pr
        ELSE /\ proc' = Kill(pr, jb[id].pid, SIGCONT)
             /\ jobs' = [jb EXCEPT ![id].stopped = FALSE]
  /\ UNCHANGED <<now, alarmAt, fgJob, waitPid, fgKilled, tlist, minct, exitShell, deadline>>

(* KillCommand::execute: send the signal, then record a stop or a        *)
(* continue, or for SIGKILL try waitpid(WNOHANG) once and drop the job.  *)
(* The child dies asynchronously, so that waitpid may come too early      *)
(* (reaped = FALSE) and leave a zombie nobody reaps.                      *)
KillCmd(sig, arg) ==
  /\ AtPrompt /\ "kill" \in Commands
  /\ LET jb == RemoveFinished(jobs, proc)
         pr == ReapListed(jobs, proc)
     IN IF arg \notin DOMAIN jb
        THEN jobs' = jb /\ proc' = pr
        ELSE LET p == jb[arg].pid
                 pr1 == Kill(pr, p, sig)
             IN CASE sig = SIGSTOP -> proc' = pr1 /\ jobs' = [jb EXCEPT ![arg].stopped = TRUE]
                  [] sig = SIGCONT -> proc' = pr1 /\ jobs' = [jb EXCEPT ![arg].stopped = FALSE]
                  [] sig = SIGKILL -> /\ \E reaped \in BOOLEAN :
                                           proc' = IF reaped THEN ReapIfDone(pr1, p) ELSE pr1
                                      /\ jobs' = RemoveJob(jb, arg)
  /\ UNCHANGED <<now, alarmAt, fgJob, waitPid, fgKilled, tlist, minct, exitShell, deadline>>

(* QuitCommand::execute, with or without the kill argument. *)
Quit(withKill) ==
  /\ AtPrompt /\ "quit" \in Commands
  /\ LET jb == RemoveFinished(jobs, proc)
         pr == ReapListed(jobs, proc)
     IN /\ jobs' = jb
        /\ proc' = IF withKill THEN KillAll(jb, pr) ELSE pr
  /\ exitShell' = TRUE
  /\ UNCHANGED <<now, alarmAt, fgJob, waitPid, fgKilled, tlist, minct, deadline>>

(* PipeCommand::execute of two external commands.  Both run through      *)
(* ExternalCommand::execute in the foreground; the second overwrites      *)
(* foreground_job and wait_job_pid, so main waits for it alone.           *)
Pipe ==
  /\ AtPrompt /\ "pipe" \in Commands /\ CanFork(2)
  /\ proc' = [proc EXCEPT ![NewPid] = "run", ![NewPid + 1] = "run"]
  /\ fgJob' = [id |-> NoJob, pid |-> NewPid + 1, stopped |-> FALSE]
  /\ waitPid' = NewPid + 1
  /\ UNCHANGED <<now, alarmAt, jobs, fgKilled, tlist, minct, exitShell, deadline>>

-----------------------------------------------------------------------------
(***************************************************************************)
(* waitForJob and the signal handlers.                                     *)
(***************************************************************************)
(* waitpid(wait_job_pid, &status, WUNTRACED) returns.  A stopped child    *)
(* joins the list under foreground_job's id (a new one if it has none).  *)
(* When the child was already reaped, waitpid fails and status is never   *)
(* written: WIFSTOPPED reads an uninitialised int, either way.            *)
WaitReturns ==
  /\ ~exitShell /\ WaitReady
  /\ \E stopped \in IF proc[waitPid] = "reaped" THEN BOOLEAN
                    ELSE {proc[waitPid] = "stop"} :
       IF stopped
       THEN /\ fgJob' = [fgJob EXCEPT !.stopped = TRUE]
            /\ jobs' = AddJob(jobs, fgJob.id, [pid |-> fgJob.pid, stopped |-> TRUE])
            /\ UNCHANGED <<proc, fgKilled>>
       ELSE /\ proc' = ReapIfDone(proc, waitPid)
            /\ fgKilled' = FALSE
            /\ UNCHANGED <<fgJob, jobs>>
  /\ waitPid' = NoPid
  /\ UNCHANGED <<now, alarmAt, tlist, minct, exitShell, deadline>>

(* ctrlZHandler: SIGSTOP to the child main waits for. *)
CtrlZ ==
  /\ ~exitShell /\ waitPid # NoPid /\ "ctrl-z" \in Commands
  /\ proc' = Kill(proc, waitPid, SIGSTOP)
  /\ UNCHANGED <<now, alarmAt, jobs, fgJob, waitPid, fgKilled, tlist, minct, exitShell, deadline>>

(* ctrlCHandler: SIGKILL to it, and foreground_job_killed. *)
CtrlC ==
  /\ ~exitShell /\ waitPid # NoPid /\ "ctrl-c" \in Commands
  /\ proc' = Kill(proc, waitPid, SIGKILL)
  /\ fgKilled' = TRUE
  /\ UNCHANGED <<now, alarmAt, jobs, fgJob, waitPid, tlist, minct, exitShell, deadline>>

(* alarmHandler's loop over timeout_list in key order: re-arm for the     *)
(* first entry still a second or more away, else reap it if it is done,   *)
(* SIGKILL it if it still exists, drop the job with its id and erase the  *)
(* entry.  S holds proc, jobs, the timeout list and the pending alarm.    *)
RECURSIVE Expire(_)
Expire(S) ==
  IF DOMAIN S.tl = {} THEN S
  ELSE LET t == Min(DOMAIN S.tl)
       IN IF t - now >= 1 THEN [S EXCEPT !.al = now + (t - now)]
          ELSE Expire([proc |-> Kill(ReapIfDone(S.proc, S.tl[t].pid), S.tl[t].pid, SIGKILL),
                       jobs |-> RemoveJob(S.jobs, S.tl[t].id),
                       tl   |-> Restrict(S.tl, DOMAIN S.tl \ {t}),
                       al   |-> S.al])

(* SIGALRM is delivered when the alarm expires.  A waitpid that already   *)
(* has its child's change of state completes first.                        *)
AlarmFires ==
  /\ ~exitShell /\ alarmAt # NoAlarm /\ now >= alarmAt /\ ~WaitReady
  /\ LET S == Expire([proc |-> proc, jobs |-> jobs, tl |-> tlist, al |-> NoAlarm])
     IN proc' = S.proc /\ jobs' = S.jobs /\ tlist' = S.tl /\ alarmAt' = S.al
  /\ UNCHANGED <<now, fgJob, waitPid, fgKilled, minct, exitShell, deadline>>

(* A child finishes on its own. *)
ChildExits(p) ==
  /\ ~exitShell /\ proc[p] = "run"
  /\ proc' = [proc EXCEPT ![p] = "zombie"]
  /\ UNCHANGED <<now, alarmAt, jobs, fgJob, waitPid, fgKilled, tlist, minct, exitShell, deadline>>

(* A second passes.  A due alarm is delivered before the clock moves on. *)
Tick ==
  /\ ~exitShell /\ now < MaxTime
  /\ alarmAt = NoAlarm \/ now < alarmAt
  /\ now' = now + 1
  /\ UNCHANGED <<alarmAt, proc, jobs, fgJob, waitPid, fgKilled, tlist, minct, exitShell, deadline>>

-----------------------------------------------------------------------------
(* SmallShell(): no foreground job (foreground_job is default-constructed *)
(* and read only after a command sets it), empty lists.                    *)
Init ==
  /\ now = 0 /\ alarmAt = NoAlarm
  /\ proc = [p \in Pids |-> "none"]
  /\ jobs = <<>> /\ tlist = <<>>
  /\ fgJob = [id |-> NoJob, pid |-> NoPid, stopped |-> FALSE]
  /\ waitPid = NoPid /\ fgKilled = FALSE
  /\ minct = 0 /\ exitShell = FALSE
  /\ deadline = [p \in Pids |-> NoDeadline]

(* The main loop dispatches each line through CreateCommand. *)
Next ==
  \/ RunForeground
  \/ RunBackground
  \/ \E d \in Durations, b \in BOOLEAN : Timeout(d, b)
  \/ JobsCmd
  \/ \E arg \in JobIds \cup {NoJob} : Fg(arg) \/ Bg(arg)
  \/ \E sig \in KillSignals, arg \in JobIds : KillCmd(sig, arg)
  \/ \E k \in BOOLEAN : Quit(k)
  \/ Pipe
  \/ WaitReturns
  \/ CtrlZ
  \/ CtrlC
  \/ AlarmFires
  \/ \E p \in Pids : ChildExits(p)
  \/ Tick

Spec == Init /\ [][Next]_vars

-----------------------------------------------------------------------------
(***************************************************************************)
(* Properties.                                                             *)
(***************************************************************************)
JobRec == [pid : Pids, stopped : BOOLEAN]

TypeOK ==
  /\ now \in 0 .. MaxTime
  /\ alarmAt \in Times \cup {NoAlarm}
  /\ proc \in [Pids -> {"none", "run", "stop", "zombie", "reaped"}]
  /\ DOMAIN jobs \subseteq JobIds /\ \A i \in DOMAIN jobs : jobs[i] \in JobRec
  /\ fgJob \in [id : JobIds \cup {NoJob}, pid : Pids \cup {NoPid}, stopped : BOOLEAN]
  /\ waitPid \in Pids \cup {NoPid}
  /\ DOMAIN tlist \subseteq Times
  /\ \A t \in DOMAIN tlist : tlist[t] \in [id : JobIds \cup {NoJob}, pid : Pids]
  /\ minct \in Times
  /\ deadline \in [Pids -> Times \cup {NoDeadline}]

(* The jobs list and the foreground job agree with each other and with   *)
(* the children: no child is listed twice, the child main waits for is   *)
(* not listed, and a listed child that still runs or is stopped has the   *)
(* stopped flag that says which.  fg, bg, kill -19/-18, Ctrl-Z and        *)
(* waitForJob each change a part of this.                                 *)
JobsConsistent ==
  /\ \A i, j \in DOMAIN jobs : i # j => jobs[i].pid # jobs[j].pid
  /\ waitPid # NoPid => \A i \in DOMAIN jobs : jobs[i].pid # waitPid
  /\ \A i \in DOMAIN jobs :
       proc[jobs[i].pid] \in Alive => (jobs[i].stopped <=> proc[jobs[i].pid] = "stop")

(* Every child the shell has not lost track of is reachable: a child that *)
(* runs or is stopped is the one main waits for or is in the jobs list,   *)
(* and every listed job's child can still be waited for (it is not        *)
(* reaped), so removeFinishedJobs, fg and kill act on a real process.     *)
(* It is about the running shell; after quit the lists are never read.    *)
JobsExact ==
  ~exitShell =>
  /\ \A p \in Pids : proc[p] \in Alive => p = waitPid \/ \E i \in DOMAIN jobs : jobs[i].pid = p
  /\ \A i \in DOMAIN jobs : proc[jobs[i].pid] # "reaped"

(* timeout N kills its command once N seconds have passed: when the clock *)
(* is past a child's deadline, that child neither runs nor is stopped.    *)
(* alarmHandler does the killing, on the alarm TimeoutCommand arms.       *)
TimedOutKilled ==
  \A p \in Pids : deadline[p] # NoDeadline /\ now > deadline[p] => proc[p] \notin Alive

=============================================================================
