\* MAX_WORKERS and MAX_TEAMS as ai-workers.c defines them; main creates
\* nine workers and three teams, so no create call reaches them.
CONSTANTS
  MaxWorkers = 64
  MaxTeams = 8
SPECIFICATION Spec
INVARIANT TypeOK
\* main returns after its last call.
CHECK_DEADLOCK FALSE
