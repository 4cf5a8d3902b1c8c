---------------------------- MODULE MCScheduler ----------------------------
EXTENDS Scheduler
CONSTANTS s1, c1, c2, u1, ender, runner
MCOccurs == [c \in Crons |-> IF c = c1 THEN {1, 2} ELSE {1}]
=============================================================================
