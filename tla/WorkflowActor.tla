--------------------------- MODULE WorkflowActor ---------------------------
(***************************************************************************)
(* One durable execution of a workflow actor (src/internal/workflow-       *)
(* actor.ts, src/step.ts), from the calls of its facade to the replay of   *)
(* its handler.  Four kinds of durable rows make up an execution:          *)
(*   - the request of the current run, with its last reply;                *)
(*   - at the workflow's address, one record per Activity and per          *)
(*     deferred (a signal, the end of a sleep, the winner of a race);      *)
(*   - at an address of its own, one row per durable clock.                *)
(* The first write of a record wins, and a clock row stays when it has     *)
(* fired: the row then absorbs the next request for that clock.  prune     *)
(* clears the two addresses in two steps, rerun signals the fiber first    *)
(* and waits for nothing, so both race the handler, the clock and the next *)
(* execute.  Runs are numbered to tell whose row is whose; the program     *)
(* itself has no such number.                                              *)
(***************************************************************************)
EXTENDS Naturals, Sequences, FiniteSets

CONSTANTS
    Programs,       \* handlers: sequences of "run", "race", "sleep", "signal"
    Racers,         \* the Activities of a race
    Callers,        \* concurrent calls of the actor's facade
    May,            \* the operations each caller chooses from
    MaxRuns,        \* bound: runs requested
    MaxDisruptions  \* bound: crashes of the runner and failed clears

Operations ==
    {"execute", "send", "waitFor", "peek", "interrupt", "resume", "rerun",
     "prune", "signal"}

ASSUME ProgramsAssumption == Programs \subseteq Seq({"run", "race", "sleep", "signal"})
ASSUME RacersAssumption == Racers # {} /\ "self" \notin Racers
ASSUME MayAssumption == May \in [Callers -> SUBSET Operations]
ASSUME BoundsAssumption == MaxRuns \in Nat /\ MaxDisruptions \in Nat

VARIABLES
    program,     \* the handler of this execution
    request,     \* the run whose request is stored, 0 when there is none
    runs,        \* runs requested so far
    reply,       \* the last reply of the stored request
    record,      \* Activity replies and deferreds at the workflow's address
    clock,       \* rows at the address of the workflow's clock
    wake,        \* a resume is on its way to the engine
    signalled,   \* runs an interrupt was signalled to
    fiber,       \* the run the engine's fiber works for, 0 when it is idle
    at,          \* the step the handler has reached
    seen,        \* history: what the last run's handler saw of each step
    pc,          \* where each caller is
    got,         \* the reply each caller was given
    since,       \* history: runs cleared when the caller began
    disturbed,   \* history: rows were cleared or written at a bad moment
    disruptions  \* crashes and failed clears so far

engine == <<wake, signalled, fiber, at, seen>>
rows == <<request, runs, reply, record, clock>>
callers == <<pc, got, since>>
settled == <<program, disruptions>>  \* the code does not change under an execution
vars == <<rows, engine, callers, disturbed, settled>>

Steps == 1..Len(program)
Keys == Steps \X (Racers \cup {"self"})
None == [of |-> 0, exit |-> "None"]

\* What a poll may report of a run, None for Pending.
Exits == {"None", "Suspended", "Success", "Failure", "Interrupted"}

\* What is neither Pending nor Suspended ends a wait.
Terminal(answer) == answer.exit \in {"Success", "Failure", "Interrupted"}
Unset == [by |-> 0, ok |-> FALSE, value |-> <<"self", 0>>]
NoClock == [by |-> 0, fired |-> FALSE]
Values == (Racers \cup Callers \cup {"self"}) \X (0..MaxDisruptions)

TypeOK ==
    /\ program \in Programs
    /\ request \in 0..MaxRuns /\ runs \in 0..MaxRuns
    /\ reply \in [of : 0..MaxRuns, exit : Exits]
    /\ record \in [Keys -> [by : 0..(MaxRuns + 1), ok : BOOLEAN, value : Values]]
    /\ clock \in [Steps -> [by : 0..MaxRuns, fired : BOOLEAN]]
    /\ wake \in BOOLEAN /\ signalled \subseteq 1..MaxRuns
    /\ fiber \in 0..MaxRuns /\ at \in 1..(Len(program) + 1)
    /\ seen \in [run : 0..MaxRuns,
                saw : [Steps -> [by : 0..(MaxRuns + 1), ok : BOOLEAN, value : Values]]]
    /\ pc \in [Callers -> {"idle", "waiting", "clearRun", "clearClock",
                           "halfCleared", "failed", "done"}]
    /\ got \in [Callers -> [of : 0..MaxRuns, exit : Exits]]
    /\ since \in [Callers -> 0..MaxRuns]
    /\ disturbed \in BOOLEAN /\ disruptions \in 0..MaxDisruptions

Init ==
    /\ program \in Programs
    /\ request = 0 /\ runs = 0 /\ reply = None
    /\ record = [k \in Keys |-> Unset]
    /\ clock = [i \in Steps |-> NoClock]
    /\ wake = FALSE /\ signalled = {}
    /\ fiber = 0 /\ at = 1
    /\ seen = [run |-> 0, saw |-> [i \in Steps |-> Unset]]
    /\ pc = [c \in Callers |-> "idle"]
    /\ got = [c \in Callers |-> None]
    /\ since = [c \in Callers |-> 0]
    /\ disturbed = FALSE /\ disruptions = 0

-----------------------------------------------------------------------------
(* The durable rows. *)

\* The run a row written now belongs to: the stored one, else the next.
Current == IF request = 0 THEN runs + 1 ELSE request

Cleared == IF request = 0 THEN runs ELSE request - 1

BetweenClears == \E c \in Callers : pc[c] \in {"clearClock", "halfCleared"}

\* Mutant: the last write of a key wins.
LastWrite(key, entry) == record' = [record EXCEPT ![key] = entry]

\* The first write of a key wins.
Write(key, entry) ==
    record' = IF record[key] = Unset THEN [record EXCEPT ![key] = entry]
                                     ELSE record

\* Mutant: a reply is stored for whatever request there is.
AnswerAnyRequest(run, exit) == reply' = [of |-> run, exit |-> exit]

\* A reply goes to the request the fiber was started for, if it is still there.
Answer(run, exit) ==
    reply' = IF request = run THEN [of |-> run, exit |-> exit] ELSE reply

-----------------------------------------------------------------------------
(* The facade: execute, send, peek, waitFor, signal, interrupt, resume.    *)

Begin(c, op) == pc[c] = "idle" /\ op \in May[c]

Moves(c, to) == pc' = [pc EXCEPT ![c] = to]

\* send discards what execute waits for.
Awaits(op) == op = "execute"

\* execute and send: the request is stored under the execution id, unless one is.
Request(c) ==
    \E op \in {"execute", "send"} :
        /\ Begin(c, op)
        /\ IF request # 0
             THEN UNCHANGED <<request, runs, disturbed>>
             ELSE /\ runs < MaxRuns
                  /\ runs' = runs + 1
                  /\ request' = runs'
                  /\ disturbed' = (disturbed \/ BetweenClears)
        /\ Moves(c, IF Awaits(op) THEN "waiting" ELSE "done")
        /\ since' = [since EXCEPT ![c] = Cleared]
        /\ UNCHANGED <<reply, record, clock, engine, got, settled>>

WaitFor(c) ==
    /\ Begin(c, "waitFor")
    /\ Moves(c, "waiting")
    /\ since' = [since EXCEPT ![c] = Cleared]
    /\ UNCHANGED <<rows, engine, got, disturbed, settled>>

\* An unknown execution is Pending; a Suspended one is not the end of a wait.
Poll(c) ==
    /\ \/ pc[c] = "waiting" /\ Terminal(reply) /\ UNCHANGED since
       \/ Begin(c, "peek") /\ since' = [since EXCEPT ![c] = Cleared]
    /\ got' = [got EXCEPT ![c] = reply]
    /\ Moves(c, "done")
    /\ UNCHANGED <<rows, engine, disturbed, settled>>

\* A signal completes a deferred, with a value or an error, whether or not a run
\* awaits it.
Signal(c) ==
    \E i \in Steps, ok \in BOOLEAN :
        /\ Begin(c, "signal") /\ program[i] = "signal"
        /\ Write(<<i, "self">>, [by |-> Current, ok |-> ok, value |-> <<c, 0>>])
        /\ wake' = TRUE
        /\ Moves(c, "done")
        /\ UNCHANGED <<request, runs, reply, clock, signalled, fiber, at, seen,
                       got, since, disturbed, settled>>

Resume(c) ==
    /\ Begin(c, "resume")
    /\ wake' = TRUE
    /\ Moves(c, "done")
    /\ UNCHANGED <<rows, signalled, fiber, at, seen, got, since, disturbed,
                   settled>>

\* Mutant: an unknown execution is interrupted too.
InterruptUnknown(c) ==
    \E op \in {"interrupt", "rerun"} :
        /\ Begin(c, op)
        /\ signalled' = signalled \cup {request}
        /\ Moves(c, IF op = "rerun" THEN "clearRun" ELSE "done")
        /\ UNCHANGED <<rows, wake, fiber, at, seen, got, since, disturbed, settled>>

\* A suspended run ends at once, a running one when its fiber takes the signal.
Interrupt(c) ==
    \E op \in {"interrupt", "rerun"} :
        /\ Begin(c, op)
        /\ IF request = 0 \/ Terminal(reply) THEN UNCHANGED <<reply, signalled>>
           ELSE IF reply.exit = "Suspended" /\ fiber = 0
             THEN Answer(request, "Interrupted") /\ UNCHANGED signalled
             ELSE signalled' = signalled \cup {request} /\ UNCHANGED reply
        /\ Moves(c, IF op = "rerun" THEN "clearRun" ELSE "done")
        /\ UNCHANGED <<request, runs, record, clock, wake, fiber, at, seen, got,
                       since, disturbed, settled>>

-----------------------------------------------------------------------------
(* prune, alone or as the end of rerun: two clears, each of which may fail. *)

\* Mutant: the run's request goes, its Activity replies stay.
ClearRequestOnly(c) ==
    /\ pc[c] = "clearRun" \/ Begin(c, "prune")
    /\ request' = 0 /\ reply' = None
    /\ disturbed' = (disturbed \/ fiber # 0)
    /\ Moves(c, "clearClock")
    /\ UNCHANGED <<runs, record, clock, engine, got, since, settled>>

ClearRun(c) ==
    /\ pc[c] = "clearRun" \/ Begin(c, "prune")
    /\ request' = 0 /\ reply' = None
    /\ record' = [k \in Keys |-> Unset]
    /\ disturbed' = (disturbed \/ fiber # 0)
    /\ Moves(c, "clearClock")
    /\ UNCHANGED <<runs, clock, engine, got, since, settled>>

\* Mutant: prune forgets the clock's address.
ClearNoClock(c) ==
    /\ pc[c] = "clearClock"
    /\ Moves(c, "done")
    /\ UNCHANGED <<rows, engine, got, since, disturbed, settled>>

ClearClock(c) ==
    /\ pc[c] = "clearClock"
    /\ clock' = [i \in Steps |-> NoClock]
    /\ Moves(c, "done")
    /\ UNCHANGED <<request, runs, reply, record, engine, got, since, disturbed,
                   settled>>

ClearFails(c) ==
    /\ pc[c] \in {"clearRun", "clearClock"} /\ disruptions < MaxDisruptions
    /\ disruptions' = disruptions + 1
    /\ Moves(c, IF pc[c] = "clearRun" THEN "failed" ELSE "halfCleared")
    /\ UNCHANGED <<rows, engine, got, since, disturbed, program>>

-----------------------------------------------------------------------------
(* The engine: one fiber at a time works for the execution.                *)

Run(run) ==
    /\ fiber' = run /\ at' = 1
    /\ seen' = IF run \in {0, seen.run} THEN seen
               ELSE [run |-> run, saw |-> [i \in Steps |-> Unset]]
    /\ UNCHANGED <<request, runs, record, clock, signalled, callers, disturbed,
                   settled>>

\* A request without a reply is delivered, again after a crash.
Start ==
    /\ fiber = 0 /\ request # 0 /\ reply = None
    /\ Run(request) /\ UNCHANGED <<wake, reply>>

Resumed ==
    /\ fiber = 0 /\ wake
    /\ wake' = FALSE
    /\ IF reply.exit = "Suspended" THEN reply' = None /\ Run(request)
                                   ELSE UNCHANGED reply /\ Run(0)

Crash ==
    /\ fiber # 0 /\ disruptions < MaxDisruptions
    /\ disruptions' = disruptions + 1
    /\ fiber' = 0
    /\ UNCHANGED <<rows, wake, signalled, at, seen, callers, disturbed, program>>

\* The fiber ends with an exit, or suspends.
Ends(exit) ==
    /\ Answer(fiber, exit)
    /\ fiber' = 0
    /\ UNCHANGED <<request, runs, record, wake, signalled, at, seen, callers,
                   disturbed, settled>>

\* An exit of interrupts only skips compensation.
InterruptFiber ==
    /\ fiber \in signalled
    /\ Ends("Interrupted") /\ UNCHANGED clock

\* The clock delivers its end to the workflow's address and wakes the run.
ClockFires(i) ==
    /\ clock[i] # NoClock /\ ~clock[i].fired
    /\ clock' = [clock EXCEPT ![i].fired = TRUE]
    /\ Write(<<i, "self">>, [by |-> clock[i].by, ok |-> TRUE, value |-> <<"self", 0>>])
    /\ wake' = TRUE
    /\ disturbed' = (disturbed \/ BetweenClears)
    /\ UNCHANGED <<request, runs, reply, signalled, fiber, at, seen, callers,
                   settled>>

-----------------------------------------------------------------------------
(* The handler, replayed from its first step by each fiber.                *)

Reaches(kinds) == fiber # 0 /\ at \in Steps /\ program[at] \in kinds

Recorded == record[<<at, "self">>]

Records(key, entry) ==
    /\ Write(key, entry)
    /\ UNCHANGED <<request, runs, reply, clock, engine, callers, disturbed,
                   settled>>

\* A step that has a record returns it.
Continue ==
    /\ Reaches({"run", "race", "sleep", "signal"}) /\ Recorded.ok
    /\ seen' = [seen EXCEPT !.saw[at] = Recorded]
    /\ at' = at + 1
    /\ UNCHANGED <<rows, wake, signalled, fiber, callers, disturbed, settled>>

\* step.run: the Activity runs and its exit is recorded.
RunActivity ==
    /\ Reaches({"run"}) /\ Recorded = Unset
    /\ \E ok \in BOOLEAN :
        Records(<<at, "self">>, [by |-> fiber, ok |-> ok, value |-> <<"self", disruptions>>])

\* step.race: each racer is an Activity with a record of its own...
RunRacer(r) ==
    /\ Reaches({"race"}) /\ Recorded = Unset /\ record[<<at, r>>] = Unset
    /\ \E ok \in BOOLEAN :
        Records(<<at, r>>, [by |-> fiber, ok |-> ok, value |-> <<r, disruptions>>])

\* ...and the exit of the first to complete is recorded as the race's.
DecideRace(r) ==
    /\ Reaches({"race"}) /\ Recorded = Unset /\ record[<<at, r>>] # Unset
    /\ Records(<<at, "self">>, record[<<at, r>>])

\* step.sleep asks for a clock, which an older row of it absorbs.
Sleep ==
    /\ Reaches({"sleep"}) /\ Recorded = Unset
    /\ clock' = [clock EXCEPT ![at] = IF @ = NoClock THEN [by |-> fiber, fired |-> FALSE]
                                                     ELSE @]
    /\ Ends("Suspended")

AwaitSignal ==
    /\ Reaches({"signal"}) /\ Recorded = Unset
    /\ Ends("Suspended") /\ UNCHANGED clock

\* A failed step fails the handler: it is compensated and the run fails.
HandlerFails ==
    /\ Reaches({"run", "race", "signal"}) /\ Recorded # Unset /\ ~Recorded.ok
    /\ Ends("Failure") /\ UNCHANGED clock

Finish ==
    /\ fiber # 0 /\ at = Len(program) + 1
    /\ Ends("Success") /\ UNCHANGED clock

-----------------------------------------------------------------------------
Call(c) ==
    \/ Request(c) \/ WaitFor(c) \/ Poll(c) \/ Signal(c) \/ Resume(c)
    \/ Interrupt(c) \/ ClearRun(c) \/ ClearClock(c) \/ ClearFails(c)

Handler ==
    \/ Continue \/ RunActivity \/ Sleep \/ AwaitSignal \/ HandlerFails \/ Finish
    \/ \E r \in Racers : RunRacer(r) \/ DecideRace(r)

Progress ==
    \/ Start \/ Resumed \/ InterruptFiber \/ Handler
    \/ \E i \in Steps : ClockFires(i)

Next == Progress \/ Crash \/ \E c \in Callers : Call(c)

Spec == Init /\ [][Next]_vars

\* The engine delivers requests, resumes and timers, and the handler's
\* Effects run: nothing is promised of the callers.
Fairness ==
    /\ WF_vars(Start) /\ WF_vars(Resumed)
    /\ WF_vars(InterruptFiber) /\ WF_vars(Handler)
    /\ WF_vars(\E i \in Steps : ClockFires(i))

FairSpec == Spec /\ Fairness

-----------------------------------------------------------------------------
\* What a run's handler saw of a step is what every replay of the run sees
\* again for as long as its request is stored, through crashes, repeated
\* signals and races that are run again: the handler is deterministic only if
\* the records under it are.  (A prune under a running handler ends that.)
ReplaysAgree ==
    [][seen'.run = seen.run /\ seen.run = request' =>
         \A i \in Steps : seen.saw[i] \in {Unset, seen'.saw[i]}]_vars

\* The next run starts from scratch: unless an execution was cleared under its
\* running fiber, or requested or woken between the two clears, every Activity
\* reply, deferred and clock that the current run can meet is its own.
RerunFromScratch ==
    ~disturbed /\ request # 0 =>
        /\ \A k \in Keys : record[k] # Unset => record[k].by = request
        /\ \A i \in Steps : clock[i] # NoClock => clock[i].by = request

\* Whatever races a prune or a rerun, nobody is told the result of a run that
\* was cleared before the call began: a reply of a fiber that outlives its
\* request is dropped, and the request does not come back with an old reply.
ResultsAreCurrent ==
    \A c \in Callers : got[c] # None => got[c].of > since[c]

\* A run nobody disturbs ends, through crashes and whatever wakes it too
\* early, unless it is cleared or waits for a signal that nobody gives.
AwaitsGivenUp(r) ==
    reply = [of |-> r, exit |-> "Suspended"] /\ at \in Steps
        /\ program[at] = "signal" /\ Recorded = Unset

RunsEnd ==
    \A r \in 1..MaxRuns :
        request = r ~> request # r \/ Terminal(reply) \/ disturbed \/ AwaitsGivenUp(r)

=============================================================================
