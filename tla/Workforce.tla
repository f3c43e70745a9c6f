------------------------------ MODULE Workforce ------------------------------
(***************************************************************************)
(* The worker and team manager of training/09-nvidia-technology/           *)
(* ai-workers.c: nvidia_ai_workforce_t with its fixed arrays of workers    *)
(* and teams, create_worker, create_team, assign_worker_to_team,           *)
(* process_validation_task and optimize_workforce, driven by the program's *)
(* main: its fixed sequence of calls, whose return values it ignores.      *)
(*                                                                         *)
(* A worker or team id is its index in the array, from 1 here (the C ids   *)
(* start at 0).  Names, GPU figures, times and the floating-point          *)
(* efficiencies are left out: they are written and printed, and no        *)
(* branch reads them.  rand() % 100 < 95 is the choice "ok".                *)
(***************************************************************************)
EXTENDS Integers, Sequences, FiniteSets, Functions, FiniteSetsExt

CONSTANTS
  MaxWorkers,   \* MAX_WORKERS (64 in the source): workers, and members per team
  MaxTeams      \* MAX_TEAMS (8 in the source)

ASSUME MaxWorkers \in Nat /\ MaxTeams \in Nat

\* worker_type_t.
Types == {"FRAUD_DETECTION", "IDENTITY_VERIFICATION", "COMPLIANCE_CHECK",
          "RISK_ASSESSMENT", "TRANSACTION_VALIDATION", "ANOMALY_DETECTION"}

\* worker_state_t; no function sets WORKER_PROCESSING past its own return,
\* and none sets WORKER_MAINTENANCE.
States == {"IDLE", "PROCESSING", "COMPLETED", "ERROR", "MAINTENANCE"}

VARIABLES
  workers,   \* workforce->workers[0 .. worker_count - 1]
  teams,     \* workforce->teams[0 .. team_count - 1]
  pc         \* the call of main executed next

vars == <<workers, teams, pc>>

\* nvidia_ai_worker_t and nvidia_ai_team_t, the fields control reads.
Worker == [type : Types, state : States, tasks_completed : Nat, tasks_failed : Nat]
Team == [workers : Seq(Nat), total_tasks_processed : Nat, active_tasks : Nat]

TypeOK ==
  /\ workers \in Seq(Worker) /\ Len(workers) <= MaxWorkers
  /\ teams \in Seq(Team) /\ Len(teams) <= MaxTeams
  /\ \A t \in DOMAIN teams :
       /\ Len(teams[t].workers) <= MaxWorkers
       /\ Range(teams[t].workers) \subseteq DOMAIN workers

\* initialize_workforce (lines 92-102): memset to zero.
Init ==
  /\ workers = <<>>
  /\ teams = <<>>
  /\ pc = 1

\* create_worker (lines 105-124): the next array slot, idle, no tasks.
CreateWorker(type) ==
  /\ Len(workers) < MaxWorkers
  /\ workers' = Append(workers, [type |-> type, state |-> "IDLE",
                                 tasks_completed |-> 0, tasks_failed |-> 0])
  /\ UNCHANGED teams

\* create_team (lines 127-141): the next array slot, no members.
CreateTeam ==
  /\ Len(teams) < MaxTeams
  /\ teams' = Append(teams, [workers |-> <<>>, total_tasks_processed |-> 0,
                             active_tasks |-> 0])
  /\ UNCHANGED workers

\* Mutant: the pointer stored is that of the worker after worker_id.
AssignWorkerToTeamNextSlot(w, t) ==
  /\ w \in DOMAIN workers /\ t \in DOMAIN teams
  /\ Len(teams[t].workers) < MaxWorkers
  /\ teams' = [teams EXCEPT ![t].workers = Append(@, w + 1)]
  /\ UNCHANGED workers

\* assign_worker_to_team (lines 144-155): ids in range and room in the
\* team; nothing stops a worker joining a team twice or several teams.
AssignWorkerToTeam(w, t) ==
  /\ w \in DOMAIN workers /\ t \in DOMAIN teams
  /\ Len(teams[t].workers) < MaxWorkers
  /\ teams' = [teams EXCEPT ![t].workers = Append(@, w)]
  /\ UNCHANGED workers

\* The members of team t that are idle workers of the given type, by their
\* position in the team's array.
IdleOfType(t, type) ==
  {i \in DOMAIN teams[t].workers :
     /\ workers[teams[t].workers[i]].type = type
     /\ workers[teams[t].workers[i]].state = "IDLE"}

(***************************************************************************)
(* process_validation_task (lines 158-191): the first idle member of the  *)
(* type runs the task, which succeeds (COMPLETED, counted by the team) or *)
(* fails (ERROR); either way the team's active_tasks grows.  With no such *)
(* member the call returns -1 and changes nothing (a step of main).       *)
(***************************************************************************)
ProcessValidationTask(t, type, ok) ==
  /\ t \in DOMAIN teams
  /\ IdleOfType(t, type) # {}
  /\ LET w == teams[t].workers[Min(IdleOfType(t, type))]
     IN /\ workers' = [workers EXCEPT ![w] =
                         IF ok THEN [@ EXCEPT !.state = "COMPLETED",
                                              !.tasks_completed = @ + 1]
                               ELSE [@ EXCEPT !.state = "ERROR",
                                              !.tasks_failed = @ + 1]]
        /\ teams' = [teams EXCEPT ![t].total_tasks_processed =
                                    @ + (IF ok THEN 1 ELSE 0),
                                  ![t].active_tasks = @ + 1]

(***************************************************************************)
(* optimize_workforce (lines 255-285): for every team, every member in    *)
(* WORKER_ERROR is set back to WORKER_IDLE; COMPLETED workers are left    *)
(* as they are.  The efficiencies it computes are floats, left out.       *)
(***************************************************************************)
OptimizeWorkforce ==
  /\ workers' = [w \in DOMAIN workers |->
                   IF /\ workers[w].state = "ERROR"
                      /\ \E t \in DOMAIN teams : w \in Range(teams[t].workers)
                   THEN [workers[w] EXCEPT !.state = "IDLE"]
                   ELSE workers[w]]
  /\ UNCHANGED teams

\* One call of main: the function, and its team, worker and type arguments
\* (ids from 1; 0 and "none" where the function takes no such argument).
Call(op, team, worker, type) == [op |-> op, team |-> team, worker |-> worker, type |-> type]
Repeat(c, n) == [i \in 1 .. n |-> c]

(***************************************************************************)
(* main (lines 288-365): three teams, nine workers of six types, each     *)
(* assigned to one team, 5 fraud, 3 identity and 4 compliance tasks, then  *)
(* optimize_workforce.  display_workforce_status and the printfs only     *)
(* print.                                                                  *)
(***************************************************************************)
MainCalls ==
  Repeat(Call("team", 0, 0, "none"), 3)
  \o << Call("worker", 0, 0, "FRAUD_DETECTION"), Call("worker", 0, 0, "FRAUD_DETECTION"),
       Call("worker", 0, 0, "FRAUD_DETECTION"),
       Call("worker", 0, 0, "IDENTITY_VERIFICATION"),
       Call("worker", 0, 0, "IDENTITY_VERIFICATION"),
       Call("worker", 0, 0, "COMPLIANCE_CHECK"), Call("worker", 0, 0, "RISK_ASSESSMENT"),
       Call("worker", 0, 0, "TRANSACTION_VALIDATION"),
       Call("worker", 0, 0, "ANOMALY_DETECTION") >>
  \o [i \in 1 .. 9 |-> Call("assign", IF i <= 3 THEN 1 ELSE IF i <= 5 THEN 2 ELSE 3, i, "none")]
  \o Repeat(Call("task", 1, 0, "FRAUD_DETECTION"), 5)
  \o Repeat(Call("task", 2, 0, "IDENTITY_VERIFICATION"), 3)
  \o Repeat(Call("task", 3, 0, "COMPLIANCE_CHECK"), 4)
  \o << Call("optimize", 0, 0, "none") >>

(***************************************************************************)
(* The call main makes now.  A task finding no idle member returns -1,    *)
(* which main ignores.  The create and assign calls of main stay below    *)
(* MAX_WORKERS and MAX_TEAMS and name existing ids, so their early        *)
(* returns never happen here.                                              *)
(***************************************************************************)
Perform(c) ==
  CASE c.op = "team"     -> CreateTeam
    [] c.op = "worker"   -> CreateWorker(c.type)
    [] c.op = "assign"   -> AssignWorkerToTeam(c.worker, c.team)
    [] c.op = "task"     -> \/ \E ok \in BOOLEAN : ProcessValidationTask(c.team, c.type, ok)
                            \/ /\ IdleOfType(c.team, c.type) = {}
                               /\ UNCHANGED <<workers, teams>>
    [] c.op = "optimize" -> OptimizeWorkforce

Next ==
  /\ pc <= Len(MainCalls)
  /\ Perform(MainCalls[pc])
  /\ pc' = pc + 1

Spec == Init /\ [][Next]_vars
=============================================================================
