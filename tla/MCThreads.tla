------------------------------ MODULE MCThreads ------------------------------
(***************************************************************************)
(* The small thread and process programs of d6, d7, d8, d9 and d11.  They    *)
(* are separate programs: program says which one a behaviour is of.  The     *)
(* workers' variables keep one first value in the behaviours of the others,  *)
(* and the other variables are 0 where they are not used.                    *)
(***************************************************************************)
EXTENDS PartitionedWork, Sequences

CONSTANTS THREADS, TURNS, ROUNDS

ASSUME ThreadsAssumption ==
    THREADS \in Nat \ {0} /\ TURNS \in Nat \ {0} /\ ROUNDS \in Nat

VARIABLES
    program,
    shared_counter, reg, demo, main, final, pc,     \* SharedCounter
    prod, cons, shared_data, data_ready, received, round,   \* Handoff
    mutex, i,                                       \* several
    pipe, parent, child, parentTurns, childTurns    \* PipePingPong

counterVars == <<shared_counter, reg, demo, main, final, pc>>
cellVars == <<prod, cons, shared_data, data_ready, received, round>>
pipeVars == <<pipe, parent, child, parentTurns, childTurns>>
allVars == <<program, vars, counterVars, cellVars, mutex, i, pipeVars>>

Race == INSTANCE SharedCounter
            WITH thread_nums <- THREADS, count <- TURNS, Demos <- <<"none", "loop">>
Each == INSTANCE SharedCounter
            WITH thread_nums <- THREADS, count <- TURNS, Demos <- <<"each">>
Cell == INSTANCE Handoff WITH cnt <- ROUNDS, SAMPLES <- ROUNDS
Pipe == INSTANCE PipePingPong WITH NUM_SWITCHES <- ROUNDS

NoCounter ==
    shared_counter = 0 /\ reg = 0 /\ demo = 0 /\ main = 0 /\ final = 0 /\ pc = 0
NoCell ==
    prod = 0 /\ cons = 0 /\ shared_data = 0 /\ data_ready = 0 /\ received = 0 /\ round = 0
NoPipe == pipe = 0 /\ parent = 0 /\ child = 0 /\ parentTurns = 0 /\ childTurns = 0

NoWork == Init /\ kind = "thread"

MCInit ==
    \/ /\ program = "work" /\ Init
       /\ NoCounter /\ NoCell /\ mutex = 0 /\ i = 0 /\ NoPipe
    \/ program = "race" /\ Race!Init /\ NoWork /\ NoCell /\ NoPipe
    \/ program = "each" /\ Each!Init /\ NoWork /\ NoCell /\ NoPipe
    \/ program = "handoff" /\ Cell!Init /\ NoWork /\ NoCounter /\ i = 0 /\ NoPipe
    \/ program = "realtime" /\ Cell!RealTimeInit /\ NoWork /\ NoCounter /\ i = 0 /\ NoPipe
    \/ /\ program = "pipe" /\ Pipe!Init
       /\ NoWork /\ NoCounter /\ NoCell /\ mutex = 0 /\ i = 0

\* What each program leaves alone.
OnlyWork == UNCHANGED <<program, counterVars, cellVars, mutex, i, pipeVars>>
OnlyCounter == UNCHANGED <<program, vars, cellVars, pipeVars>>
OnlyCell == UNCHANGED <<program, vars, counterVars, i, pipeVars>>
OnlyPipe == UNCHANGED <<program, vars, counterVars, cellVars, mutex, i>>

\* The main thread, or the parent process, of each program.
MainStep ==
    \/ program = "work" /\ Main /\ OnlyWork
    \/ /\ program = "race"
       /\ Race!CreateThread \/ Race!JoinThread \/ Race!NextDemo
       /\ OnlyCounter
    \/ /\ program = "each"
       /\ Each!CreateThread \/ Each!JoinThread \/ Each!NextDemo
       /\ OnlyCounter
    \/ program = "handoff" /\ Cell!Main /\ OnlyCell
    \/ program = "pipe" /\ Pipe!ParentLoop /\ OnlyPipe

CounterStep(t) ==
    \/ program = "race" /\ Race!increment(t) /\ OnlyCounter
    \/ program = "each" /\ Each!increment(t) /\ OnlyCounter

WorkStep(w) == program = "work" /\ thread_worker(w) /\ OnlyWork

ProducerStep ==
    \/ program = "handoff" /\ Cell!producer /\ OnlyCell
    \/ program = "realtime" /\ Cell!real_time_producer /\ OnlyCell

ConsumerStep ==
    \/ program = "handoff" /\ Cell!consumer /\ OnlyCell
    \/ program = "realtime" /\ Cell!real_time_consumer /\ OnlyCell
    \/ program = "pipe" /\ Pipe!ChildLoop /\ OnlyPipe

SpuriousStep == program \in {"handoff", "realtime"} /\ Cell!SpuriousWake /\ OnlyCell

MCNext ==
    \/ MainStep \/ ProducerStep \/ ConsumerStep \/ SpuriousStep
    \/ \E t \in 1 .. THREADS : CounterStep(t)
    \/ \E w \in Workers : WorkStep(w)

\* A thread or process that can run is scheduled in the end; spurious wakeups
\* do not go on for ever.
Fairness ==
    /\ WF_allVars(MainStep) /\ WF_allVars(ProducerStep) /\ WF_allVars(ConsumerStep)
    /\ \A t \in 1 .. THREADS : WF_allVars(CounterStep(t))
    /\ \A w \in Workers : WF_allVars(WorkStep(w))
    /\ <>[][~SpuriousStep]_allVars

MCSpec == MCInit /\ [][MCNext]_allVars /\ Fairness

-----------------------------------------------------------------------------

\* A lock around the loop or around each increment loses no increment; without
\* one, anything from 2 up may be printed.
CounterValues ==
    /\ program = "race" => Race!FinalValues
    /\ program = "each" => Each!FinalValues

\* The consumers' view of a cell that is handed over: in demo_thread_communication.c
\* at most one round old, in real_time_communication.c each sample at most once
\* and in order.
CellValues ==
    /\ program = "handoff" => Cell!AtMostOneRoundOld
    /\ program = "realtime" => Cell!InOrderOnce

\* No program hangs: each main or parent returns, and the endless consumer of
\* real_time_communication.c gets the last sample.
ProgramsEnd ==
    <>(CASE program = "work" -> Returned
         [] program = "race" -> Race!Ends
         [] program = "each" -> Each!Ends
         [] program = "handoff" -> Cell!Ends
         [] program = "realtime" -> Cell!LastReceived
         [] program = "pipe" -> Pipe!ParentReturns)
=============================================================================
