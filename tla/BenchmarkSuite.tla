---------------------------- MODULE BenchmarkSuite ----------------------------
(***************************************************************************)
(* The suite of all benchmarks.  A job is a command of its own, which for  *)
(* each of its runs resets the simulation, ends every process, starts the  *)
(* controllers and the planner again and lets the task run.  The tables    *)
(* are made of the rows that are there in the end.                         *)
(***************************************************************************)
EXTENDS PlannerStack

CONSTANTS SimplePlanners, SimpleCases, HybridCases, HybridProfiles, PickPlanners,
          Runs,   \* runs of a job
          MaxSlow \* bound: jobs, from the first, in which a wait may end before the script
                  \* has launched anything
ASSUME SuiteAssumption ==
  /\ Runs \in Nat \ {0} /\ MaxStacks \in Nat \ {0} /\ MaxLingering \in Nat /\ MaxSlow \in Nat
  /\ SimplePlanners \in Seq(Planners) /\ PickPlanners \in Seq(Planners)
  /\ \A names \in {SimpleCases, HybridCases, HybridProfiles} : names \in Seq(ToSet(names))

VARIABLES main,  \* where the suite is: its job and run, whether the run is a second try,
                 \* whether a run of the job failed, and whether a job did
          own,   \* the stacks of the run: the controllers and the planner
          rows,  \* the runs that are a success in the tables
          sim    \* the last command that was given to the simulation

suiteVars == <<stack, logged, main, own, rows, sim>>

Job(suite, planner, what) == [suite |-> suite, planner |-> planner, what |-> what]
(* A loop in a loop: every element of outer with every one of inner.       *)
Turn(outer, inner, i) == <<outer[((i - 1) \div Len(inner)) + 1], inner[((i - 1) % Len(inner)) + 1]>>
SimpleJobs == [i \in 1..(Len(SimplePlanners) * Len(SimpleCases)) |->
  LET turn == Turn(SimplePlanners, SimpleCases, i) IN Job("simple", turn[1], turn[2])]
HybridJobs == [i \in 1..(Len(HybridCases) * Len(HybridProfiles)) |->
  Job("hybrid", "hybrid", Turn(HybridCases, HybridProfiles, i))]
PickJobs == [p \in DOMAIN PickPlanners |-> Job("pick", PickPlanners[p], "pick_and_place")]
Jobs == SimpleJobs \o HybridJobs \o PickJobs
Planned == (DOMAIN Jobs) \X (1..Runs)

Suite == Jobs[main.job].suite
Planner == Jobs[main.job].planner
Neither == [ros |-> 0, planner |-> 0]

SuiteInit ==
  /\ InitStacks
  /\ main = [at |-> "next", job |-> 0, run |-> 1, again |-> FALSE, bad |-> FALSE, failed |-> FALSE]
  /\ own = Neither /\ rows = {} /\ sim = "stop"

At(phase) == main' = [main EXCEPT !.at = phase]
stacks == <<stack, logged>>

-----------------------------------------------------------------------------
(* A command to the timeline of the simulation is a file.  Nobody waits    *)
(* for the simulation to read it, nor looks whether writing it failed once *)
(* the task has ended.  So it may be lost, and what is kept is the last    *)
(* command that was given.                                                 *)
Tell(command) == sim' = command

-----------------------------------------------------------------------------
(* The jobs.  What a job returns does not stop the suite.                  *)
NextJob ==
  /\ main.at = "next"
  /\ LET failed == main.failed \/ main.bad IN
     main' = IF main.job = Len(Jobs) THEN [main EXCEPT !.at = "done", !.failed = failed]
             ELSE [at |-> "stop", job |-> main.job + 1, run |-> 1, again |-> FALSE,
                   bad |-> FALSE, failed |-> failed]
  /\ UNCHANGED <<stacks, own, rows, sim>>

(* The preparation of a run.  A step that fails ends the job.              *)
GiveUpJob == main' = [main EXCEPT !.at = "endStop", !.bad = TRUE]

StopSimulation ==
  /\ main.at = "stop" /\ Tell("stop") /\ At("kill")
  /\ UNCHANGED <<stacks, own, rows>>

KillProcesses ==
  /\ main.at = "kill" /\ stack' = Kill(stack) /\ At("restart")
  /\ UNCHANGED <<logged, own, rows, sim>>

(* restart_ros kills in the container of the controllers only.             *)
KillRos(from) == [k \in Stacks |-> IF from[k].kind = "ros" THEN Kill(from)[k] ELSE from[k]]
RestartRos ==
  /\ main.at = "restart" /\ At("waitRos")
  /\ \E k \in Stacks : AskFor(KillRos(stack), k, "ros") /\ own' = [own EXCEPT !.ros = k]
  /\ UNCHANGED <<logged, rows, sim>>

RosStarted ==
  /\ main.at = "waitRos" /\ RosReady /\ At("play")
  /\ UNCHANGED <<stacks, own, rows, sim>>

PlaySimulation ==
  /\ main.at = "play" /\ Tell("play") /\ At("start")
  /\ UNCHANGED <<stacks, own, rows>>

(* Mutant of Truncated: the log is left to the shell of the planner.       *)
TruncatedLater(planner) == logged
Truncated(planner) == IF Logs(planner) THEN logged \ LogOf(planner) ELSE logged

StartPlanner ==
  /\ main.at = "start" /\ At("look")
  /\ \E k \in Stacks : AskFor(stack, k, Planner) /\ own' = [own EXCEPT !.planner = k]
  /\ logged' = Truncated(Planner)
  /\ UNCHANGED <<rows, sim>>

(* The servers are looked for first, the line in the log after them.       *)
LookForServers ==
  /\ main.at = "look" /\ Answers(Planner)
  /\ At(IF Logs(Planner) THEN "readLog" ELSE "attempt")
  /\ UNCHANGED <<stacks, own, rows, sim>>

ReadLog ==
  /\ main.at = "readLog" /\ At(IF LogOf(Planner) # {} THEN "attempt" ELSE "look")
  /\ UNCHANGED <<stacks, own, rows, sim>>

WaitEnds ==
  /\ main.at \in {"waitRos", "look"} /\ GiveUpJob
  /\ \/ main.job <= MaxSlow
     \/ stack[IF main.at = "look" THEN own.planner ELSE own.ros].at \in {"launched", "none"}
  /\ UNCHANGED <<stacks, own, rows, sim>>

CommandFails ==
  /\ main.at \in {"stop", "play"} /\ GiveUpJob
  /\ UNCHANGED <<stacks, own, rows, sim>>

-----------------------------------------------------------------------------
(* The task, and what the results say of it.  The row of a simple motion   *)
(* is the one of the last try.  A run of the obstacle benchmark writes its *)
(* own row, about the motion only, and the row of a pick and place tells   *)
(* the phases as they were measured: they may differ from the outcome.     *)
RowsAfter(outcome) ==
  IF Suite = "pick" \/ (Suite = "hybrid" /\ outcome # "success") THEN BOOLEAN
  ELSE {outcome = "success"}

(* Mutant of AfterRun: one run too many.                                   *)
AfterRunMore(m) == [m EXCEPT !.at = "stop", !.run = @ + 1, !.again = FALSE]
AfterRun(m) ==
  IF m.run < Runs THEN [m EXCEPT !.at = "stop", !.run = @ + 1, !.again = FALSE]
  ELSE [m EXCEPT !.at = "endStop"]
Counted(outcome) == main.bad \/ outcome # "success"

Attempt ==
  /\ main.at = "attempt"
  /\ \E outcome \in {"success", "setup", "failed"} :
       IF outcome = "setup" /\ Suite = "simple" /\ ~main.again
       THEN main' = [main EXCEPT !.at = "stop", !.again = TRUE] /\ UNCHANGED rows
       ELSE LET m == [main EXCEPT !.bad = Counted(outcome)] IN
            /\ \E success \in RowsAfter(outcome) :
                 rows' = IF success THEN rows \cup {<<main.job, main.run>>} ELSE rows
            /\ main' = IF Suite = "pick" THEN [m EXCEPT !.at = "simStop"] ELSE AfterRun(m)
  /\ UNCHANGED <<stacks, own, sim>>

StopAfterRun ==
  /\ main.at = "simStop" /\ Tell("stop") /\ main' = AfterRun(main)
  /\ UNCHANGED <<stacks, own, rows>>

(* finally                                                                 *)
EndJobStop ==
  /\ main.at = "endStop" /\ Tell("stop") /\ At("endKill")
  /\ UNCHANGED <<stacks, own, rows>>

EndJobKill ==
  /\ main.at = "endKill" /\ stack' = Kill(stack) /\ At("next") /\ own' = Neither
  /\ UNCHANGED <<logged, rows, sim>>

Environment == StackStep /\ UNCHANGED <<main, own, rows, sim>>
Scripts ==
  \/ NextJob \/ StopSimulation \/ KillProcesses \/ RestartRos \/ RosStarted \/ PlaySimulation
  \/ StartPlanner \/ LookForServers \/ ReadLog \/ WaitEnds \/ CommandFails
  \/ Attempt \/ StopAfterRun \/ EndJobStop \/ EndJobKill
SuiteNext == Environment \/ Scripts

(* The scripts go on, and each of their waits has a deadline, which a wait *)
(* that looks again and again meets in the end.  What was told to end does *)
(* so in the end, and a script that was asked for runs.  That a planner    *)
(* comes up is not assumed.                                                *)
SuiteSpec ==
  /\ SuiteInit /\ [][SuiteNext]_suiteVars
  /\ WF_suiteVars(Scripts) /\ SF_suiteVars(WaitEnds)
  /\ \A k \in Stacks : WF_suiteVars(Goes(k) /\ UNCHANGED <<main, own, rows, sim>>)

-----------------------------------------------------------------------------
(* Type invariant: in particular, there is a row for planned runs only,    *)
(* and no process answers or is to end that does not run.                  *)
SuiteTypes ==
  /\ stack \in [Stacks -> [kind : Kinds, at : {"none", "asked", "script", "launched"},
                           running : SUBSET UNION {Nodes(kind) \cup {"launch"} : kind \in Kinds},
                           up : SUBSET AllServers,
                           told : SUBSET UNION {Nodes(kind) \cup {"launch"} : kind \in Kinds},
                           late : BOOLEAN]]
  /\ \A k \in Stacks : /\ stack[k].told \subseteq stack[k].running
                       /\ {Host(server) : server \in stack[k].up} \subseteq stack[k].running
  /\ logged \subseteq Planners \X BOOLEAN
  /\ main \in [at : {"next", "stop", "kill", "restart", "waitRos", "play", "start", "look", "readLog",
                     "attempt", "simStop", "endStop", "endKill", "done"},
               job : 0..Len(Jobs), run : 1..Runs, again : BOOLEAN, bad : BOOLEAN, failed : BOOLEAN]
  /\ own \in [ros : 0..MaxStacks, planner : 0..MaxStacks]
  /\ rows \subseteq Planned /\ sim \in {"play", "stop"}

(* A run with a planner that says in its log that it is ready, OMPL or     *)
(* cuMotion, is let go with the one that was started for it, although the  *)
(* check looks at the servers and at the log one after the other and the   *)
(* servers of earlier runs may answer still.  With any planner, whatever   *)
(* is left of earlier runs has been told to end while a run is measured.   *)
(* Starts that were given up as too slow are excepted: the kill does not   *)
(* find the script of OMPL, and it goes on; it may even be the one that    *)
(* says that it is ready.                                                  *)
LetGo == main.at # "attempt" /\ main'.at = "attempt"
PlannerIsThere ==
  Logs(Planner) => Speaker(Planner) \in stack[own.planner].up \/ <<Planner, TRUE>> \in logged
RestIsToEnd ==
  \A k \in Stacks \ {own.ros, own.planner} : ~stack[k].late => stack[k].running = stack[k].told
MeasuredOnOwnStack ==
  [](main.at = "attempt" => RestIsToEnd) /\ [][LetGo => PlannerIsThere]_suiteVars

(* The suite ends, whatever fails or never starts.  Then no process is     *)
(* left of it, the simulation was told to stop, and if it reports success, *)
(* then every planned run of a simple motion or of the obstacle benchmark  *)
(* is in the tables, as a success.                                         *)
SuiteEnds ==
  <>[](/\ main.at = "done"
       /\ \A k \in Stacks : ~stack[k].late => stack[k].running = {}
       /\ sim = "stop"
       /\ ~main.failed => {r \in Planned : Jobs[r[1]].suite # "pick"} \subseteq rows)
=============================================================================
