------------------------ MODULE WorkflowActorProofs ------------------------
(***************************************************************************)
(* What TLAPS proves of WorkflowActor, for every handler, set of callers   *)
(* and bound: types, that callers are told results of the current run      *)
(* only, that replays agree, and that a rerun starts from scratch unless   *)
(* it was disturbed.                                                       *)
(***************************************************************************)
EXTENDS WorkflowActor, TLAPS

Entry == [by : 0..(MaxRuns + 1), ok : BOOLEAN, value : Values]
Answers == [of : 0..MaxRuns, exit : Exits]
Clocks == [by : 0..MaxRuns, fired : BOOLEAN]
Places == {"idle", "waiting", "clearRun", "clearClock", "halfCleared", "failed", "done"}

\* TypeOK by the part of the state.
RowTypes ==
    /\ request \in 0..MaxRuns /\ runs \in 0..MaxRuns /\ reply \in Answers
    /\ record \in [Keys -> Entry] /\ clock \in [Steps -> Clocks]
FiberTypes ==
    /\ wake \in BOOLEAN /\ signalled \subseteq 1..MaxRuns /\ fiber \in 0..MaxRuns
    /\ at \in 1..(Len(program) + 1)
    /\ seen \in [run : 0..MaxRuns, saw : [Steps -> Entry]]
CallerTypes ==
    /\ pc \in [Callers -> Places] /\ got \in [Callers -> Answers]
    /\ since \in [Callers -> 0..MaxRuns]
HistoryTypes ==
    program \in Programs /\ disturbed \in BOOLEAN /\ disruptions \in 0..MaxDisruptions

Types == RowTypes /\ FiberTypes /\ CallerTypes /\ HistoryTypes

\* A reply belongs to the stored request, which is the last one.
ReplyOfRequest ==
    /\ request \in {0, runs}
    /\ reply = None \/ (request # 0 /\ reply.of = request)

\* A caller began after the runs it takes for cleared were cleared.
CallersCurrent ==
    \A c \in Callers :
        /\ since[c] <= Cleared
        /\ pc[c] = "idle" => got[c] = None
        /\ got[c] # None => got[c].of > since[c]

\* Until it is disturbed, an execution has the rows of the current or, before a
\* request, of the next run, but for clocks that are about to be cleared.
RowsOwned ==
    ~disturbed =>
        /\ fiber # 0 => fiber = request
        /\ BetweenClears => request = 0
        /\ \A k \in Keys : record[k] # Unset => record[k].by = Current
        /\ \A i \in Steps : clock[i] # NoClock =>
              BetweenClears \/ (request # 0 /\ clock[i].by = request)

\* What the handler has seen of a step is the step's record.
SeenRecorded ==
    /\ fiber # 0 => seen.run = fiber
    /\ seen.run <= runs
    /\ seen.run # 0 /\ seen.run = request =>
          \A i \in Steps : seen.saw[i] \in {Unset, record[<<i, "self">>]}

---------------------------------------------------------------------------
LEMMA Bounds == MaxRuns \in Nat /\ MaxDisruptions \in Nat
  BY BoundsAssumption

LEMMA TypesAreTypeOK == Types <=> TypeOK
  BY DEF Types, TypeOK, RowTypes, FiberTypes, CallerTypes, HistoryTypes, Entry,
         Answers, Clocks, Places

LEMMA Lengths == ASSUME Types PROVE Len(program) \in Nat
  <1>1. program \in Seq({"run", "race", "sleep", "signal"})
    BY ProgramsAssumption DEF Types, HistoryTypes
  <1> QED
    BY <1>1

LEMMA SameProgram == ASSUME UNCHANGED program PROVE Steps' = Steps /\ Keys' = Keys
  BY DEF Steps, Keys

\* The rows that are there stay, and what is new is what is written.
LEMMA FirstWriteWins ==
    ASSUME record \in [Keys -> Entry], NEW key \in Keys, NEW entry \in Entry,
           Write(key, entry)
    PROVE  /\ record' \in [Keys -> Entry]
           /\ \A k \in Keys : record'[k] \in {record[k], entry}
           /\ \A k \in Keys : record[k] # Unset => record'[k] = record[k]
  BY DEF Write

LEMMA OwnKey == ASSUME NEW i \in Steps PROVE <<i, "self">> \in Keys
  BY DEF Keys

LEMMA RacerKey == ASSUME NEW i \in Steps, NEW r \in Racers PROVE <<i, r>> \in Keys
  BY DEF Keys

LEMMA Members ==
    /\ None \in Answers /\ Unset \in Entry /\ NoClock \in Clocks
    /\ \A run \in 0..MaxRuns, exit \in Exits : [of |-> run, exit |-> exit] \in Answers
    /\ \A run \in 0..MaxRuns, fired \in BOOLEAN : [by |-> run, fired |-> fired] \in Clocks
    /\ \A run \in 0..(MaxRuns + 1), ok \in BOOLEAN, v \in Values :
          [by |-> run, ok |-> ok, value |-> v] \in Entry
    /\ {"None", "Suspended", "Success", "Failure", "Interrupted"} \subseteq Exits
  <1>1. Unset.value \in Values
    BY Bounds DEF Unset, Values
  <1>2. None \in Answers
    BY Bounds DEF None, Answers, Exits
  <1>3. Unset \in Entry
    BY <1>1, Bounds DEF Unset, Entry
  <1>4. NoClock \in Clocks
    BY Bounds DEF NoClock, Clocks
  <1> QED
    BY <1>2, <1>3, <1>4 DEF Answers, Clocks, Entry, Exits

LEMMA OwnValues ==
    ASSUME Types, NEW who \in Racers \cup Callers \cup {"self"}
    PROVE  <<who, disruptions>> \in Values /\ <<who, 0>> \in Values
  BY Bounds DEF Values, Types, HistoryTypes

LEMMA RunNumbers ==
    ASSUME Types
    PROVE  Current \in 0..(MaxRuns + 1) /\ Cleared \in 0..MaxRuns
           /\ fiber \in 0..(MaxRuns + 1)
  BY Bounds DEF Types, RowTypes, FiberTypes, Current, Cleared

---------------------------------------------------------------------------
\* A step that leaves a part alone keeps its types.
LEMMA RowTypesKept ==
    ASSUME RowTypes, UNCHANGED <<rows, program>> PROVE RowTypes'
  BY SameProgram DEF RowTypes, rows

LEMMA FiberTypesKept ==
    ASSUME FiberTypes, UNCHANGED <<engine, program>> PROVE FiberTypes'
  BY SameProgram DEF FiberTypes, engine

LEMMA CallerTypesKept ==
    ASSUME CallerTypes, UNCHANGED callers PROVE CallerTypes'
  BY DEF CallerTypes, callers

\* A caller that moves keeps the types of all callers.
LEMMA CallerMoves ==
    ASSUME CallerTypes, NEW c \in Callers, NEW to \in Places, Moves(c, to),
           got' = got \/ \E a \in Answers : got' = [got EXCEPT ![c] = a],
           since' = since \/ \E r \in 0..MaxRuns : since' = [since EXCEPT ![c] = r]
    PROVE  CallerTypes'
  BY DEF CallerTypes, Moves

\* A reply of a run keeps the type of replies.
LEMMA AnswerTypes ==
    ASSUME RowTypes, NEW run \in 0..MaxRuns, NEW exit \in Exits, Answer(run, exit)
    PROVE  reply' \in Answers
  BY Members DEF Answer, RowTypes

\* A fiber that ends or suspends keeps the types.
LEMMA EndTypes ==
    ASSUME Types, NEW exit \in Exits, Ends(exit), clock' \in [Steps -> Clocks]
    PROVE  Types'
  <1>1. fiber \in 0..MaxRuns /\ 0 \in 0..MaxRuns
    BY Bounds DEF Types, FiberTypes
  <1>2. reply' \in Answers
    BY <1>1, AnswerTypes DEF Types, Ends
  <1>3. RowTypes'
    BY <1>2, SameProgram DEF Ends, Types, RowTypes, settled
  <1>4. FiberTypes'
    BY <1>1, SameProgram DEF Ends, Types, FiberTypes, settled
  <1> QED
    BY <1>3, <1>4, CallerTypesKept DEF Ends, Types, HistoryTypes, settled

---------------------------------------------------------------------------
\* Types, for the calls of the facade...
LEMMA FacadeTypes ==
    ASSUME Types, NEW c \in Callers, Call(c) PROVE Types'
  <1> USE DEF Types
  <1>1. RowTypes /\ FiberTypes /\ CallerTypes /\ HistoryTypes
    OBVIOUS
  <1>2. CASE Request(c)
    <2>1. RowTypes'
      BY <1>2, Bounds, SameProgram DEF Request, RowTypes, settled
    <2>2. FiberTypes'
      BY <1>2, FiberTypesKept DEF Request, settled
    <2>3. CallerTypes'
      BY <1>2, CallerMoves, RunNumbers DEF Request, Places
    <2>4. HistoryTypes'
      <3>1. disturbed' \in BOOLEAN
        BY <1>2, Zenon DEF Request, HistoryTypes
      <3> QED
        BY <1>2, <3>1 DEF Request, settled, HistoryTypes
    <2> QED
      BY <2>1, <2>2, <2>3, <2>4
  <1>3. CASE WaitFor(c)
    BY <1>3, RowTypesKept, FiberTypesKept, CallerMoves, RunNumbers
    DEF WaitFor, settled, Places, HistoryTypes
  <1>4. CASE Poll(c)
    <2>1. reply \in Answers
      BY DEF RowTypes
    <2> QED
      BY <1>4, <2>1, RowTypesKept, FiberTypesKept, CallerMoves, RunNumbers
      DEF Poll, settled, Places, HistoryTypes
  <1>5. CASE Signal(c)
    <2> PICK i \in Steps, ok \in BOOLEAN :
            /\ Write(<<i, "self">>, [by |-> Current, ok |-> ok, value |-> <<c, 0>>])
            /\ wake' = TRUE /\ Moves(c, "done")
            /\ UNCHANGED <<request, runs, reply, clock, signalled, fiber, at, seen,
                           got, since, disturbed, settled>>
      BY <1>5 DEF Signal
    <2>1. [by |-> Current, ok |-> ok, value |-> <<c, 0>>] \in Entry
      BY Members, OwnValues, RunNumbers
    <2>2. RowTypes'
      BY <2>1, OwnKey, FirstWriteWins, SameProgram DEF RowTypes, settled
    <2>3. FiberTypes'
      BY SameProgram DEF FiberTypes, settled
    <2>4. CallerTypes'
      BY CallerMoves DEF Places
    <2> QED
      BY <2>2, <2>3, <2>4 DEF HistoryTypes, settled
  <1>6. CASE Resume(c)
    <2>1. FiberTypes'
      BY <1>6, SameProgram DEF Resume, FiberTypes, settled
    <2> QED
      BY <1>6, <2>1, RowTypesKept, CallerMoves DEF Resume, settled, Places, HistoryTypes
  <1>7. CASE Interrupt(c)
    <2>1. reply' \in Answers
      BY <1>7, AnswerTypes, Members DEF Interrupt, RowTypes
    <2>2. RowTypes'
      BY <1>7, <2>1, SameProgram DEF Interrupt, RowTypes, settled
    <2>3. signalled' \subseteq 1..MaxRuns
      <3>1. signalled' = signalled \/ (request # 0 /\ signalled' = signalled \cup {request})
        BY <1>7 DEF Interrupt
      <3>2. request = 0 \/ request \in 1..MaxRuns
        BY Bounds DEF RowTypes
      <3> QED
        BY <3>1, <3>2 DEF FiberTypes
    <2>4. FiberTypes'
      BY <1>7, <2>3, SameProgram DEF Interrupt, FiberTypes, settled
    <2>5. CallerTypes'
      BY <1>7, CallerMoves DEF Interrupt, Places
    <2> QED
      BY <1>7, <2>2, <2>4, <2>5 DEF Interrupt, HistoryTypes, settled
  <1>8. CASE ClearRun(c)
    <2>1. RowTypes'
      BY <1>8, Bounds, Members, SameProgram DEF ClearRun, RowTypes, settled
    <2>2. disturbed' \in BOOLEAN
      BY <1>8, Zenon DEF ClearRun, HistoryTypes
    <2> QED
      BY <1>8, <2>1, <2>2, FiberTypesKept, CallerMoves
      DEF ClearRun, settled, Places, HistoryTypes
  <1>9. CASE ClearClock(c)
    <2>1. RowTypes'
      BY <1>9, Members, SameProgram DEF ClearClock, RowTypes, settled
    <2> QED
      BY <1>9, <2>1, FiberTypesKept, CallerMoves
      DEF ClearClock, settled, Places, HistoryTypes
  <1>10. CASE ClearFails(c)
    <2>1. disruptions' \in 0..MaxDisruptions
      BY <1>10, Bounds DEF ClearFails, HistoryTypes
    <2>2. RowTypes' /\ FiberTypes'
      BY <1>10, RowTypesKept, FiberTypesKept DEF ClearFails
    <2>3. CallerTypes'
      BY <1>10, CallerMoves DEF ClearFails, Places
    <2> QED
      BY <1>10, <2>1, <2>2, <2>3 DEF ClearFails, HistoryTypes
  <1> QED
    BY <1>2, <1>3, <1>4, <1>5, <1>6, <1>7, <1>8, <1>9, <1>10 DEF Call

\* ...for the engine...
LEMMA FiberBegins ==
    ASSUME Types, NEW run \in 0..MaxRuns, Run(run), wake' \in BOOLEAN PROVE FiberTypes'
  <1>1. Len(program) \in Nat
    BY Lengths
  <1>2. [run |-> run, saw |-> [i \in Steps |-> Unset]]
            \in [run : 0..MaxRuns, saw : [Steps -> Entry]]
    BY Members
  <1> QED
    BY <1>1, <1>2, SameProgram DEF Run, Types, FiberTypes, settled

LEMMA EngineTypes ==
    ASSUME Types, Start \/ Resumed \/ Crash \/ InterruptFiber \/ \E i \in Steps : ClockFires(i)
    PROVE  Types'
  <1> USE DEF Types
  <1>1. 0 \in 0..MaxRuns /\ request \in 0..MaxRuns /\ wake \in BOOLEAN
    BY Bounds DEF RowTypes, FiberTypes
  <1>2. CASE Start
    <2>1. FiberTypes'
      BY <1>1, <1>2, FiberBegins DEF Start
    <2>2. RowTypes'
      BY <1>2, SameProgram DEF Start, Run, RowTypes, settled
    <2> QED
      BY <1>2, <2>1, <2>2, CallerTypesKept DEF Start, Run, settled, HistoryTypes
  <1>3. CASE Resumed
    <2>1. FiberTypes'
      BY <1>1, <1>3, FiberBegins DEF Resumed
    <2>2. RowTypes'
      BY <1>3, Members, SameProgram DEF Resumed, Run, RowTypes, settled
    <2> QED
      BY <1>3, <2>1, <2>2, CallerTypesKept DEF Resumed, Run, settled, HistoryTypes
  <1>4. CASE Crash
    <2>1. FiberTypes'
      BY <1>1, <1>4, SameProgram DEF Crash, FiberTypes
    <2>2. disruptions' \in 0..MaxDisruptions
      BY <1>4, Bounds DEF Crash, HistoryTypes
    <2> QED
      BY <1>4, <2>1, <2>2, RowTypesKept, CallerTypesKept DEF Crash, HistoryTypes
  <1>5. CASE InterruptFiber
    BY <1>5, EndTypes, Members DEF InterruptFiber, RowTypes
  <1>6. CASE \E i \in Steps : ClockFires(i)
    <2> PICK i \in Steps : ClockFires(i)
      BY <1>6
    <2>1. clock[i].by \in 0..(MaxRuns + 1)
      BY Bounds DEF RowTypes, Clocks
    <2>2. [by |-> clock[i].by, ok |-> TRUE, value |-> <<"self", 0>>] \in Entry
      BY <2>1, Members, OwnValues
    <2>3. record' \in [Keys -> Entry]
      BY <2>2, OwnKey, FirstWriteWins DEF ClockFires, RowTypes
    <2>4. clock' \in [Steps -> Clocks]
      BY DEF ClockFires, RowTypes, Clocks
    <2>5. RowTypes'
      BY <2>3, <2>4, SameProgram DEF ClockFires, RowTypes, settled
    <2>6. FiberTypes'
      BY SameProgram DEF ClockFires, FiberTypes, settled
    <2>7. disturbed' \in BOOLEAN
      BY Zenon DEF ClockFires, HistoryTypes
    <2> QED
      BY <2>5, <2>6, <2>7, CallerTypesKept DEF ClockFires, settled, HistoryTypes
  <1> QED
    BY <1>2, <1>3, <1>4, <1>5, <1>6

\* ...and for the handler.
LEMMA HandlerTypes == ASSUME Types, Handler PROVE Types'
  <1> USE DEF Types
  <1>1. CASE Continue
    <2>1. at \in Steps /\ Recorded \in Entry
      BY <1>1, OwnKey DEF Continue, Reaches, Recorded, RowTypes
    <2>2. at + 1 \in 1..(Len(program) + 1)
      BY <2>1, Lengths DEF Steps
    <2>3. FiberTypes'
      BY <1>1, <2>1, <2>2, SameProgram DEF Continue, FiberTypes, settled
    <2> QED
      BY <1>1, <2>3, RowTypesKept, CallerTypesKept DEF Continue, settled, HistoryTypes
  <1>2. ASSUME NEW key \in Keys, NEW entry \in Entry, Records(key, entry)
        PROVE  Types'
    <2>1. record' \in [Keys -> Entry]
      BY <1>2, FirstWriteWins DEF Records, RowTypes
    <2>2. RowTypes'
      BY <1>2, <2>1, SameProgram DEF Records, RowTypes, settled
    <2> QED
      BY <1>2, <2>2, FiberTypesKept, CallerTypesKept DEF Records, settled, HistoryTypes
  <1>3. fiber \in 0..(MaxRuns + 1)
    BY RunNumbers
  <1>4. CASE RunActivity
    <2>1. at \in Steps
      BY <1>4 DEF RunActivity, Reaches
    <2>2. \A ok \in BOOLEAN :
              [by |-> fiber, ok |-> ok, value |-> <<"self", disruptions>>] \in Entry
      BY <1>3, Members, OwnValues
    <2> QED
      BY <1>2, <1>4, <2>1, <2>2, OwnKey DEF RunActivity
  <1>5. CASE \E r \in Racers : RunRacer(r)
    <2> PICK r \in Racers : RunRacer(r)
      BY <1>5
    <2>1. at \in Steps
      BY DEF RunRacer, Reaches
    <2>2. \A ok \in BOOLEAN :
              [by |-> fiber, ok |-> ok, value |-> <<r, disruptions>>] \in Entry
      BY <1>3, Members, OwnValues
    <2> QED
      BY <1>2, <2>1, <2>2, RacerKey DEF RunRacer
  <1>6. CASE \E r \in Racers : DecideRace(r)
    <2> PICK r \in Racers : DecideRace(r)
      BY <1>6
    <2>1. at \in Steps
      BY DEF DecideRace, Reaches
    <2>2. record[<<at, r>>] \in Entry
      BY <2>1, RacerKey DEF RowTypes
    <2> QED
      BY <1>2, <2>1, <2>2, OwnKey DEF DecideRace
  <1>7. CASE Sleep
    <2>1. fiber \in 0..MaxRuns
      BY DEF FiberTypes
    <2>2. clock' \in [Steps -> Clocks]
      BY <1>7, <2>1, Members DEF Sleep, RowTypes
    <2> QED
      BY <1>7, <2>2, EndTypes, Members DEF Sleep
  <1>8. CASE AwaitSignal \/ HandlerFails \/ Finish
    BY <1>8, EndTypes, Members DEF AwaitSignal, HandlerFails, Finish, RowTypes
  <1> QED
    BY <1>1, <1>4, <1>5, <1>6, <1>7, <1>8 DEF Handler

LEMMA TypesInit == Init => Types
  <1> SUFFICES ASSUME Init PROVE Types
    OBVIOUS
  <1>1. Len(program) \in Nat
    BY ProgramsAssumption DEF Init
  <1>2. 0 \in 0..MaxRuns /\ 0 \in 0..MaxDisruptions /\ 1 \in 1..(Len(program) + 1)
    BY <1>1, Bounds
  <1>3. RowTypes
    BY <1>2, Members DEF Init, RowTypes
  <1>4. [run |-> 0, saw |-> [i \in Steps |-> Unset]] \in [run : 0..MaxRuns, saw : [Steps -> Entry]]
    BY <1>2, Members
  <1>5. FiberTypes
    BY <1>2, <1>4 DEF Init, FiberTypes
  <1>6. CallerTypes
    BY <1>2, Members DEF Init, CallerTypes, Places
  <1>7. HistoryTypes
    BY <1>2 DEF Init, HistoryTypes
  <1> QED
    BY <1>3, <1>5, <1>6, <1>7 DEF Types

LEMMA TypesKept == Types /\ [Next]_vars => Types'
  <1> SUFFICES ASSUME Types, [Next]_vars PROVE Types'
    OBVIOUS
  <1>1. CASE Next
    BY <1>1, FacadeTypes, EngineTypes, HandlerTypes DEF Next, Progress
  <1>2. CASE UNCHANGED vars
    BY <1>2, RowTypesKept, FiberTypesKept, CallerTypesKept
    DEF vars, settled, Types, HistoryTypes
  <1> QED
    BY <1>1, <1>2

\* Every step keeps the type of every variable: an execution has one request
\* at most, records for its steps only, and every caller a place in its call.
THEOREM TypeCorrectness == Spec => []TypeOK
  <1> QED
    BY TypesInit, TypesKept, TypesAreTypeOK, PTL DEF Spec

---------------------------------------------------------------------------
\* What a step may do to the request and its reply.
LEMMA RequestMoves ==
    ASSUME Types, [Next]_vars
    PROVE  \/ UNCHANGED <<request, runs>> /\ reply' \in {reply, None}
           \/ UNCHANGED <<request, runs>> /\ request # 0 /\ reply'.of = request
           \/ request = 0 /\ runs' = runs + 1 /\ request' = runs' /\ UNCHANGED reply
           \/ request' = 0 /\ reply' = None /\ UNCHANGED runs
  <1>1. ASSUME NEW exit \in Exits, fiber # 0, Ends(exit)
        PROVE  /\ UNCHANGED <<request, runs>>
               /\ reply' = reply \/ (request # 0 /\ reply'.of = request)
    BY <1>1 DEF Ends, Answer
  <1>2. ASSUME NEW c \in Callers, Call(c)
        PROVE  \/ UNCHANGED <<request, runs>> /\ reply' \in {reply, None}
               \/ UNCHANGED <<request, runs>> /\ request # 0 /\ reply'.of = request
               \/ request = 0 /\ runs' = runs + 1 /\ request' = runs' /\ UNCHANGED reply
               \/ request' = 0 /\ reply' = None /\ UNCHANGED runs
    <2>1. CASE Interrupt(c)
      BY <2>1 DEF Interrupt, Answer
    <2>2. CASE Request(c)
      BY <2>2 DEF Request
    <2>3. CASE ClearRun(c)
      BY <2>3 DEF ClearRun
    <2>4. CASE WaitFor(c) \/ Poll(c) \/ Signal(c) \/ Resume(c) \/ ClearClock(c) \/ ClearFails(c)
      BY <2>4 DEF WaitFor, Poll, Signal, Resume, ClearClock, ClearFails, rows
    <2> QED
      BY <1>2, <2>1, <2>2, <2>3, <2>4 DEF Call
  <1>3. CASE InterruptFiber
    BY <1>1, <1>3, Members, Bounds DEF InterruptFiber, Types, FiberTypes
  <1>4. CASE Sleep \/ AwaitSignal \/ HandlerFails \/ Finish
    BY <1>1, <1>4, Members DEF Sleep, AwaitSignal, HandlerFails, Finish, Reaches
  <1>5. CASE Continue \/ RunActivity \/ \E r \in Racers : RunRacer(r) \/ DecideRace(r)
    BY <1>5 DEF Continue, RunActivity, RunRacer, DecideRace, Records, rows
  <1>6. CASE Start \/ Resumed \/ Crash \/ \E i \in Steps : ClockFires(i)
    BY <1>6 DEF Start, Resumed, Crash, ClockFires, Run, rows
  <1>7. CASE UNCHANGED vars
    BY <1>7 DEF vars, rows
  <1> QED
    BY <1>2, <1>3, <1>4, <1>5, <1>6, <1>7 DEF Next, Progress, Handler

\* What a step may do to a caller.
LEMMA CallerSteps ==
    ASSUME Types, [Next]_vars, NEW d \in Callers
    PROVE  /\ pc'[d] = "idle" => pc[d] = "idle" /\ got'[d] = got[d]
           /\ since'[d] = since[d] \/ (pc[d] = "idle" /\ since'[d] = Cleared)
           /\ got'[d] \in {got[d], reply}
  <1>1. pc \in [Callers -> Places] /\ got \in [Callers -> Answers]
        /\ since \in [Callers -> 0..MaxRuns]
    BY DEF Types, CallerTypes
  <1>2. CASE UNCHANGED callers
    BY <1>2 DEF callers
  <1>3. ASSUME NEW c \in Callers, NEW to \in Places, to # "idle", Moves(c, to),
               got' \in {got, [got EXCEPT ![c] = reply]},
               since' = since \/ (pc[c] = "idle" /\ since' = [since EXCEPT ![c] = Cleared])
        PROVE  /\ pc'[d] = "idle" => pc[d] = "idle" /\ got'[d] = got[d]
               /\ since'[d] = since[d] \/ (pc[d] = "idle" /\ since'[d] = Cleared)
               /\ got'[d] \in {got[d], reply}
    BY <1>1, <1>3 DEF Moves
  <1>4. ASSUME NEW c \in Callers, Call(c)
        PROVE  /\ pc'[d] = "idle" => pc[d] = "idle" /\ got'[d] = got[d]
               /\ since'[d] = since[d] \/ (pc[d] = "idle" /\ since'[d] = Cleared)
               /\ got'[d] \in {got[d], reply}
    <2>1. CASE Request(c)
      BY <1>3, <2>1 DEF Request, Begin, Places
    <2>2. CASE WaitFor(c)
      BY <1>3, <2>2 DEF WaitFor, Begin, Places
    <2>3. CASE Poll(c)
      BY <1>3, <2>3 DEF Poll, Begin, Places
    <2>4. CASE Signal(c)
      BY <1>3, <2>4 DEF Signal, Places
    <2>5. CASE Resume(c)
      BY <1>3, <2>5 DEF Resume, Places
    <2>6. CASE Interrupt(c)
      BY <1>3, <2>6 DEF Interrupt, Places
    <2>7. CASE ClearRun(c)
      BY <1>3, <2>7 DEF ClearRun, Places
    <2>8. CASE ClearClock(c)
      BY <1>3, <2>8 DEF ClearClock, Places
    <2>9. CASE ClearFails(c)
      BY <1>3, <2>9 DEF ClearFails, Places
    <2> QED
      BY <1>4, <2>1, <2>2, <2>3, <2>4, <2>5, <2>6, <2>7, <2>8, <2>9 DEF Call
  <1>5. Progress \/ Crash => UNCHANGED callers
    BY DEF Progress, Crash, Start, Resumed, Run, InterruptFiber, Ends, ClockFires, Handler,
           Continue, RunActivity, RunRacer, DecideRace, Records, Sleep, AwaitSignal,
           HandlerFails, Finish
  <1> QED
    BY <1>2, <1>4, <1>5 DEF Next, vars

LEMMA ReplyKept ==
    ASSUME Types, ReplyOfRequest, CallersCurrent, [Next]_vars
    PROVE  ReplyOfRequest' /\ CallersCurrent'
  <1>1. /\ request \in Nat /\ runs \in Nat
        /\ \A c \in Callers : since[c] \in Nat
    BY Bounds DEF Types, RowTypes, CallerTypes
  <1>2. ReplyOfRequest' /\ Cleared <= Cleared'
    BY <1>1, RequestMoves DEF ReplyOfRequest, Cleared, None
  <1>3. reply = None \/ reply.of = Cleared + 1
    BY <1>1 DEF ReplyOfRequest, Cleared
  <1>4. Cleared \in Nat /\ Cleared' \in Nat
    BY <1>1, RequestMoves DEF ReplyOfRequest, Cleared
  <1>5. ASSUME NEW c \in Callers
        PROVE  /\ since'[c] <= Cleared'
               /\ pc'[c] = "idle" => got'[c] = None
               /\ got'[c] # None => got'[c].of > since'[c]
    BY <1>1, <1>2, <1>3, <1>4, CallerSteps DEF CallersCurrent
  <1> QED
    BY <1>2, <1>5 DEF CallersCurrent

\* Whatever clears, requests and late replies race, no caller is told the
\* result of a run that was cleared before its call began.
THEOREM CurrentResults == Spec => []ResultsAreCurrent
  <1> DEFINE I == Types /\ ReplyOfRequest /\ CallersCurrent
  <1>1. Init => I
    <2> SUFFICES ASSUME Init PROVE I
      OBVIOUS
    <2>1. Cleared = 0
      BY DEF Init, Cleared
    <2> QED
      BY <2>1, TypesInit DEF Init, ReplyOfRequest, CallersCurrent
  <1>2. I /\ [Next]_vars => I'
    BY TypesKept, ReplyKept
  <1>3. I => ResultsAreCurrent
    BY DEF CallersCurrent, ResultsAreCurrent
  <1> QED
    BY <1>1, <1>2, <1>3, PTL DEF Spec

---------------------------------------------------------------------------
Clearing == {"clearClock", "halfCleared"}

\* A caller that moves within or outside of the two clears hides nothing.
LEMMA ClearsKept ==
    ASSUME pc \in [Callers -> Places], NEW c \in Callers, NEW to \in Places,
           Moves(c, to), pc[c] \in Clearing <=> to \in Clearing
    PROVE  BetweenClears' <=> BetweenClears
  BY DEF Moves, BetweenClears, Clearing

\* A step that leaves the rows and their owner alone keeps them owned.
LEMMA OwnersKept ==
    ASSUME RowsOwned, UNCHANGED <<request, runs, record, clock, program, disturbed>>,
           fiber' \in {0, fiber, request}, BetweenClears' <=> BetweenClears
    PROVE  RowsOwned'
  <1>1. Current' = Current
    BY DEF Current
  <1> QED
    BY <1>1, SameProgram DEF RowsOwned

\* A record of the current run may be added.
LEMMA OwnRecord ==
    ASSUME Types, RowsOwned, UNCHANGED <<request, runs, fiber, program>>,
           BetweenClears' <=> BetweenClears, disturbed' \/ UNCHANGED disturbed,
           NEW key \in Keys, NEW entry \in Entry, Write(key, entry),
           ~disturbed' => entry.by = Current,
           ~disturbed' => \A i \in Steps : clock'[i] # NoClock =>
               BetweenClears \/ (request # 0 /\ clock'[i].by = request)
    PROVE  RowsOwned'
  <1> SUFFICES ASSUME ~disturbed' PROVE RowsOwned'
    BY DEF RowsOwned
  <1>1. ~disturbed
    OBVIOUS
  <1>2. Current' = Current
    BY DEF Current
  <1>3. \A k \in Keys : record'[k] \in {record[k], entry}
    BY FirstWriteWins DEF Types, RowTypes
  <1>4. \A k \in Keys : record'[k] # Unset => record'[k].by = Current
    BY <1>1, <1>3 DEF RowsOwned
  <1> QED
    BY <1>1, <1>2, <1>4, SameProgram DEF RowsOwned

LEMMA FacadeOwned ==
    ASSUME Types, ReplyOfRequest, RowsOwned, NEW c \in Callers, Call(c) PROVE RowsOwned'
  <1>1. pc \in [Callers -> Places] /\ request \in Nat /\ runs \in Nat
    BY Bounds DEF Types, RowTypes, CallerTypes
  <1>2. CASE Request(c)
    <2>1. pc[c] = "idle" /\ pc' \in {[pc EXCEPT ![c] = "waiting"], [pc EXCEPT ![c] = "done"]}
      BY <1>2 DEF Request, Begin, Moves
    <2>2. BetweenClears' <=> BetweenClears
      BY <1>1, <2>1 DEF BetweenClears
    <2>3. CASE request # 0
      BY <1>2, <2>2, <2>3, OwnersKept DEF Request, engine, settled
    <2>4. CASE request = 0
      <3>1. request' = runs + 1 /\ runs' = runs + 1 /\ request' # 0
            /\ UNCHANGED <<record, clock, fiber, program>>
        BY <1>1, <1>2, <2>4 DEF Request, engine, settled
      <3>2. disturbed' = (disturbed \/ BetweenClears)
        BY <1>2, <2>4 DEF Request
      <3>3. ~disturbed' => ~disturbed /\ ~BetweenClears
        BY <3>2
      <3>4. Current = runs + 1 /\ Current' = runs + 1
        BY <2>4, <3>1 DEF Current
      <3> QED
        BY <2>2, <2>4, <3>1, <3>3, <3>4, SameProgram DEF RowsOwned
    <2> QED
      BY <2>3, <2>4
  <1>3. CASE WaitFor(c) \/ Poll(c) \/ Resume(c)
    <2>1. pc[c] \in {"idle", "waiting"} /\ pc' \in {[pc EXCEPT ![c] = "waiting"], [pc EXCEPT ![c] = "done"]}
      BY <1>3 DEF WaitFor, Poll, Resume, Begin, Moves
    <2>2. BetweenClears' <=> BetweenClears
      BY <1>1, <2>1 DEF BetweenClears
    <2> QED
      BY <1>3, <2>2, OwnersKept DEF WaitFor, Poll, Resume, rows, engine, settled
  <1>4. CASE Signal(c)
    <2> PICK i \in Steps, ok \in BOOLEAN :
            /\ Begin(c, "signal")
            /\ Write(<<i, "self">>, [by |-> Current, ok |-> ok, value |-> <<c, 0>>])
            /\ Moves(c, "done")
            /\ UNCHANGED <<request, runs, clock, fiber, disturbed, settled>>
      BY <1>4 DEF Signal
    <2>1. [by |-> Current, ok |-> ok, value |-> <<c, 0>>] \in Entry
      BY Members, OwnValues, RunNumbers
    <2>2. BetweenClears' <=> BetweenClears
      BY <1>1, ClearsKept DEF Begin, Clearing, Places
    <2>3. [by |-> Current, ok |-> ok, value |-> <<c, 0>>].by = Current
      OBVIOUS
    <2> QED
      BY <2>1, <2>2, <2>3, OwnKey, OwnRecord DEF settled, RowsOwned
  <1>5. CASE Interrupt(c)
    <2>1. pc[c] = "idle" /\ pc' \in {[pc EXCEPT ![c] = "clearRun"], [pc EXCEPT ![c] = "done"]}
      BY <1>5 DEF Interrupt, Begin, Moves
    <2>2. BetweenClears' <=> BetweenClears
      BY <1>1, <2>1 DEF BetweenClears
    <2> QED
      BY <1>5, <2>2, OwnersKept DEF Interrupt, settled
  <1>6. CASE ClearRun(c)
    <2>1. disturbed' = (disturbed \/ fiber # 0)
      BY <1>6 DEF ClearRun
    <2>2. ~disturbed' => fiber = 0
      BY <2>1
    <2>3. request' = 0 /\ record' = [k \in Keys |-> Unset] /\ fiber' = fiber
          /\ program' = program /\ pc'[c] = "clearClock"
      BY <1>1, <1>6 DEF ClearRun, Moves, engine, settled
    <2> QED
      BY <2>2, <2>3, SameProgram DEF RowsOwned, BetweenClears
  <1>7. CASE ClearClock(c)
    <2>1. BetweenClears
      BY <1>7 DEF ClearClock, BetweenClears
    <2>2. clock' = [i \in Steps |-> NoClock]
          /\ UNCHANGED <<request, runs, record, fiber, program, disturbed>>
      BY <1>7 DEF ClearClock, engine, settled
    <2>3. Current' = Current
      BY <2>2 DEF Current
    <2> QED
      BY <2>1, <2>2, <2>3, SameProgram DEF RowsOwned
  <1>8. CASE ClearFails(c)
    <2>1. BetweenClears' <=> BetweenClears
      BY <1>1, <1>8, ClearsKept DEF ClearFails, Clearing, Places
    <2> QED
      BY <1>8, <2>1, OwnersKept DEF ClearFails, rows, engine
  <1> QED
    BY <1>2, <1>3, <1>4, <1>5, <1>6, <1>7, <1>8 DEF Call

LEMMA ProgressOwned ==
    ASSUME Types, ReplyOfRequest, RowsOwned, Progress \/ Crash PROVE RowsOwned'
  <1>1. pc' = pc
    BY DEF Progress, Crash, Start, Resumed, Run, InterruptFiber, Ends, ClockFires, Handler,
           Continue, RunActivity, RunRacer, DecideRace, Records, Sleep, AwaitSignal,
           HandlerFails, Finish, callers
  <1>2. BetweenClears' <=> BetweenClears
    BY <1>1 DEF BetweenClears
  <1>3. CASE Start \/ Resumed \/ Crash \/ InterruptFiber \/ Continue \/ AwaitSignal
             \/ HandlerFails \/ Finish
    BY <1>2, <1>3, OwnersKept
    DEF Start, Resumed, Run, Crash, InterruptFiber, Continue, AwaitSignal, HandlerFails,
        Finish, Ends, rows, settled
  <1>4. ASSUME NEW i \in Steps, ClockFires(i) PROVE RowsOwned'
    <2> DEFINE entry == [by |-> clock[i].by, ok |-> TRUE, value |-> <<"self", 0>>]
    <2>1. clock[i] \in Clocks /\ clock[i].by \in 0..(MaxRuns + 1)
      BY Bounds DEF Types, RowTypes, Clocks
    <2>2. entry \in Entry
      BY <2>1, Members, OwnValues
    <2>3. disturbed' = (disturbed \/ BetweenClears)
      BY <1>4 DEF ClockFires
    <2>4. ~disturbed' => ~disturbed /\ ~BetweenClears
      BY <2>3
    <2>5. ~disturbed' => request # 0 /\ clock[i].by = request
      BY <1>4, <2>4 DEF RowsOwned, ClockFires
    <2>6. \A j \in Steps : clock'[j] # NoClock => clock[j] # NoClock /\ clock'[j].by = clock[j].by
      BY <1>4, <2>1 DEF ClockFires, Types, RowTypes, Clocks, NoClock
    <2>7. ~disturbed' => \A j \in Steps : clock'[j] # NoClock =>
              BetweenClears \/ (request # 0 /\ clock'[j].by = request)
      BY <2>4, <2>6 DEF RowsOwned
    <2>8. ~disturbed' => entry.by = Current
      BY <2>5 DEF Current
    <2>9. UNCHANGED <<request, runs, fiber, program>> /\ Write(<<i, "self">>, entry)
      BY <1>4 DEF ClockFires, settled
    <2>10. disturbed' \/ disturbed' = disturbed
      BY <2>3, Zenon DEF Types, HistoryTypes
    <2> HIDE DEF entry
    <2> QED
      BY <1>2, <2>2, <2>7, <2>8, <2>9, <2>10, OwnKey, OwnRecord
  <1>5. ASSUME NEW key \in Keys, NEW entry \in Entry, Records(key, entry),
               ~disturbed => entry.by = Current
        PROVE  RowsOwned'
    <2>1. UNCHANGED <<request, runs, fiber, program, clock, disturbed>> /\ Write(key, entry)
      BY <1>5 DEF Records, engine, settled
    <2> QED
      BY <1>2, <1>5, <2>1, OwnRecord DEF RowsOwned
  <1>6. fiber # 0 /\ ~disturbed => fiber = Current
    BY DEF RowsOwned, Current
  <1>7. fiber \in 0..(MaxRuns + 1)
    BY RunNumbers
  <1>8. CASE RunActivity
    <2>1. at \in Steps /\ fiber # 0
      BY <1>8 DEF RunActivity, Reaches
    <2>2. \A ok \in BOOLEAN :
              LET e == [by |-> fiber, ok |-> ok, value |-> <<"self", disruptions>>]
              IN  e \in Entry /\ e.by = fiber
      BY <1>7, Members, OwnValues
    <2> QED
      BY <1>5, <1>6, <1>8, <2>1, <2>2, OwnKey DEF RunActivity
  <1>9. ASSUME NEW r \in Racers, RunRacer(r) PROVE RowsOwned'
    <2>1. at \in Steps /\ fiber # 0
      BY <1>9 DEF RunRacer, Reaches
    <2>2. \A ok \in BOOLEAN :
              LET e == [by |-> fiber, ok |-> ok, value |-> <<r, disruptions>>]
              IN  e \in Entry /\ e.by = fiber
      BY <1>7, Members, OwnValues
    <2> QED
      BY <1>5, <1>6, <1>9, <2>1, <2>2, RacerKey DEF RunRacer
  <1>10. ASSUME NEW r \in Racers, DecideRace(r) PROVE RowsOwned'
    <2>1. at \in Steps /\ record[<<at, r>>] # Unset
      BY <1>10 DEF DecideRace, Reaches
    <2>2. record[<<at, r>>] \in Entry /\ (~disturbed => record[<<at, r>>].by = Current)
      BY <2>1, RacerKey DEF Types, RowTypes, RowsOwned
    <2> QED
      BY <1>5, <1>10, <2>1, <2>2, OwnKey DEF DecideRace
  <1>11. CASE Sleep
    <2>1. at \in Steps /\ fiber # 0 /\ fiber' = 0
          /\ UNCHANGED <<request, runs, record, program, disturbed>>
      BY <1>11 DEF Sleep, Reaches, Ends, settled
    <2>2. ~disturbed => fiber = request
      BY <2>1 DEF RowsOwned
    <2>3. \A i \in Steps : clock'[i] = clock[i] \/ clock'[i].by = fiber
      BY <1>11 DEF Sleep, Types, RowTypes
    <2>4. Current' = Current
      BY <2>1 DEF Current
    <2> QED
      BY <1>2, <2>1, <2>2, <2>3, <2>4, SameProgram DEF RowsOwned
  <1> QED
    BY <1>3, <1>4, <1>8, <1>9, <1>10, <1>11 DEF Progress, Handler

\* A run that was not cleared under its own fiber, nor requested or woken
\* between the two clears, meets no Activity reply, deferred or clock of a
\* run before it: prune and rerun forget the whole execution.
THEOREM RerunIsFresh == Spec => []RerunFromScratch
  <1> DEFINE I == Types /\ ReplyOfRequest /\ CallersCurrent /\ RowsOwned
  <1>1. Init => I
    <2> SUFFICES ASSUME Init PROVE I
      OBVIOUS
    <2>1. Cleared = 0 /\ ~BetweenClears
      BY DEF Init, Cleared, BetweenClears
    <2> QED
      BY <2>1, TypesInit DEF Init, ReplyOfRequest, CallersCurrent, RowsOwned
  <1>2. I /\ [Next]_vars => I'
    <2> SUFFICES ASSUME I, [Next]_vars PROVE RowsOwned'
      BY TypesKept, ReplyKept
    <2>1. CASE UNCHANGED vars
      BY <2>1, OwnersKept DEF vars, rows, engine, callers, settled, BetweenClears
    <2> QED
      BY <2>1, FacadeOwned, ProgressOwned DEF Next
  <1>3. I => RerunFromScratch
    BY DEF RowsOwned, RerunFromScratch, Current
  <1> QED
    BY <1>1, <1>2, <1>3, PTL DEF Spec

---------------------------------------------------------------------------
\* What a step may do to the records that the handler has seen.
RecordsStay == \A i \in Steps : record[<<i, "self">>] \in {Unset, record'[<<i, "self">>]}

LEMMA ProgramStays == [Next]_vars => program' = program
  BY DEF Next, Progress, Call, Handler, Request, WaitFor, Poll, Signal, Resume, Interrupt,
         ClearRun, ClearClock, ClearFails, Start, Resumed, Run, Crash, InterruptFiber,
         Ends, ClockFires, Continue, RunActivity, RunRacer, DecideRace, Records, Sleep,
         AwaitSignal, HandlerFails, Finish, settled, vars

LEMMA RecordMoves ==
    ASSUME Types, ReplyOfRequest, [Next]_vars
    PROVE  request' = request => RecordsStay \/ request = 0
  <1>1. record \in [Keys -> Entry]
    BY DEF Types, RowTypes
  <1>2. ASSUME NEW key \in Keys, NEW entry \in Entry, Write(key, entry)
        PROVE  RecordsStay
    BY <1>1, <1>2, FirstWriteWins, OwnKey DEF RecordsStay
  <1>3. CASE UNCHANGED record
    BY <1>3 DEF RecordsStay
  <1>4. ASSUME NEW c \in Callers, Call(c)
        PROVE  request' = request => RecordsStay \/ request = 0
    <2>1. CASE Signal(c)
      <3> PICK i \in Steps, ok \in BOOLEAN :
              Write(<<i, "self">>, [by |-> Current, ok |-> ok, value |-> <<c, 0>>])
        BY <2>1 DEF Signal
      <3> QED
        BY <1>2, OwnKey, Members, OwnValues, RunNumbers
    <2>2. CASE ClearRun(c)
      BY <2>2 DEF ClearRun
    <2>3. CASE Request(c) \/ WaitFor(c) \/ Poll(c) \/ Resume(c) \/ Interrupt(c)
               \/ ClearClock(c) \/ ClearFails(c)
      BY <1>3, <2>3
      DEF Request, WaitFor, Poll, Resume, Interrupt, ClearClock, ClearFails, rows
    <2> QED
      BY <1>4, <2>1, <2>2, <2>3 DEF Call
  <1>5. ASSUME NEW i \in Steps, ClockFires(i) PROVE RecordsStay
    <2>1. clock[i].by \in 0..(MaxRuns + 1)
      BY Bounds DEF Types, RowTypes, Clocks
    <2>2. Write(<<i, "self">>, [by |-> clock[i].by, ok |-> TRUE, value |-> <<"self", 0>>])
      BY <1>5 DEF ClockFires
    <2> QED
      BY <1>2, <2>1, <2>2, OwnKey, Members, OwnValues
  <1>6. fiber \in 0..(MaxRuns + 1)
    BY RunNumbers
  <1>7. CASE RunActivity
    <2>1. at \in Steps
      BY <1>7 DEF RunActivity, Reaches
    <2>2. \A ok \in BOOLEAN :
              [by |-> fiber, ok |-> ok, value |-> <<"self", disruptions>>] \in Entry
      BY <1>6, Members, OwnValues
    <2> QED
      BY <1>2, <1>7, <2>1, <2>2, OwnKey DEF RunActivity, Records
  <1>8. ASSUME NEW r \in Racers, RunRacer(r) PROVE RecordsStay
    <2>1. at \in Steps
      BY <1>8 DEF RunRacer, Reaches
    <2>2. \A ok \in BOOLEAN :
              [by |-> fiber, ok |-> ok, value |-> <<r, disruptions>>] \in Entry
      BY <1>6, Members, OwnValues
    <2> QED
      BY <1>2, <1>8, <2>1, <2>2, RacerKey DEF RunRacer, Records
  <1>9. ASSUME NEW r \in Racers, DecideRace(r) PROVE RecordsStay
    <2>1. at \in Steps
      BY <1>9 DEF DecideRace, Reaches
    <2>2. record[<<at, r>>] \in Entry
      BY <1>1, <2>1, RacerKey
    <2> QED
      BY <1>2, <1>9, <2>1, <2>2, OwnKey DEF DecideRace, Records
  <1>10. CASE \/ Start \/ Resumed \/ Crash \/ InterruptFiber \/ Continue \/ Sleep
              \/ AwaitSignal \/ HandlerFails \/ Finish \/ UNCHANGED vars
    BY <1>3, <1>10
    DEF Start, Resumed, Run, Crash, InterruptFiber, Continue, Sleep, AwaitSignal,
        HandlerFails, Finish, Ends, rows, vars
  <1> QED
    BY <1>4, <1>5, <1>7, <1>8, <1>9, <1>10 DEF Next, Progress, Handler

\* What a step may do to what the handler has seen.
LEMMA SeenMoves ==
    ASSUME Types, SeenRecorded, [Next]_vars
    PROVE  \/ seen' = seen /\ fiber' \in {0, fiber}
           \/ seen' = seen /\ fiber' = request /\ request = seen.run /\ UNCHANGED request
           \/ /\ seen' = [run |-> request, saw |-> [i \in Steps |-> Unset]]
              /\ fiber' = request /\ request \notin {0, seen.run}
              /\ UNCHANGED <<request, runs>>
           \/ /\ fiber # 0 /\ at \in Steps /\ UNCHANGED <<fiber, request, runs, record>>
              /\ seen' = [seen EXCEPT !.saw[at] = record[<<at, "self">>]]
  <1>1. CASE Start
    BY <1>1 DEF Start, Run
  <1>2. CASE Resumed
    BY <1>2 DEF Resumed, Run
  <1>3. CASE Continue
    BY <1>3 DEF Continue, Reaches, Recorded, rows
  <1>4. ASSUME NEW c \in Callers, Call(c) PROVE seen' = seen /\ fiber' = fiber
    BY <1>4
    DEF Call, Request, WaitFor, Poll, Signal, Resume, Interrupt, ClearRun, ClearClock,
        ClearFails, engine
  <1>5. CASE UNCHANGED vars \/ Crash \/ \E i \in Steps : ClockFires(i)
    BY <1>5 DEF Crash, ClockFires, vars, engine
  <1>6. CASE InterruptFiber \/ Sleep \/ AwaitSignal \/ HandlerFails \/ Finish
    BY <1>6 DEF InterruptFiber, Sleep, AwaitSignal, HandlerFails, Finish, Ends
  <1>7. CASE RunActivity \/ \E r \in Racers : RunRacer(r) \/ DecideRace(r)
    BY <1>7 DEF RunActivity, RunRacer, DecideRace, Records, engine
  <1> QED
    BY <1>1, <1>2, <1>3, <1>4, <1>5, <1>6, <1>7 DEF Next, Progress, Handler

LEMMA SeenKept ==
    ASSUME Types, ReplyOfRequest, SeenRecorded, [Next]_vars PROVE SeenRecorded'
  <1> DEFINE Recalled == seen.run # 0 /\ seen.run = request =>
                 \A i \in Steps : seen.saw[i] \in {Unset, record[<<i, "self">>]}
  <1>1. /\ request \in Nat /\ runs \in Nat /\ fiber \in Nat /\ seen.run \in Nat
        /\ seen.saw \in [Steps -> Entry]
        /\ seen = [run |-> seen.run, saw |-> seen.saw]
    BY Bounds DEF Types, RowTypes, FiberTypes
  <1>2. Steps' = Steps
    BY ProgramStays, SameProgram
  <1>3. \/ request' = request /\ runs' = runs
        \/ request' = runs + 1 /\ runs' = runs + 1
        \/ request' = 0 /\ runs' = runs
    BY RequestMoves
  <1>4. CASE UNCHANGED seen
    <2>1. fiber' # 0 => seen'.run = fiber'
      BY <1>1, <1>4, SeenMoves DEF SeenRecorded
    <2>2. seen'.run <= runs'
      BY <1>1, <1>3, <1>4 DEF SeenRecorded
    <2>3. seen'.run # 0 /\ seen'.run = request' => request' = request
      BY <1>1, <1>3, <1>4 DEF SeenRecorded
    <2>4. Recalled'
      BY <1>2, <1>4, <2>3, RecordMoves DEF SeenRecorded, RecordsStay
    <2> QED
      BY <2>1, <2>2, <2>4 DEF SeenRecorded
  <1>5. CASE /\ seen' = [run |-> request, saw |-> [i \in Steps |-> Unset]]
             /\ fiber' = request /\ UNCHANGED <<request, runs>>
    BY <1>1, <1>2, <1>5 DEF SeenRecorded, ReplyOfRequest
  <1>6. CASE /\ fiber # 0 /\ at \in Steps /\ UNCHANGED <<fiber, request, runs, record>>
             /\ seen' = [seen EXCEPT !.saw[at] = record[<<at, "self">>]]
    <2>1. seen'.run = seen.run
          /\ seen'.saw = [seen.saw EXCEPT ![at] = record[<<at, "self">>]]
      BY <1>1, <1>6
    <2>2. \A i \in Steps : seen'.saw[i] \in {seen.saw[i], record[<<i, "self">>]}
      BY <1>1, <2>1
    <2> QED
      BY <1>2, <1>6, <2>1, <2>2 DEF SeenRecorded
  <1> QED
    BY <1>4, <1>5, <1>6, SeenMoves

\* For as long as its request is stored, a run's handler sees again of each
\* step what it saw before: records are written once, so a replay after a
\* crash, a wake-up or a race that ran again takes the same way.
THEOREM ReplaysAgreed == Spec => ReplaysAgree
  <1> DEFINE I == Types /\ ReplyOfRequest /\ CallersCurrent /\ SeenRecorded
  <1> DEFINE Agree == seen'.run = seen.run /\ seen.run = request' =>
                        \A i \in Steps : seen.saw[i] \in {Unset, seen'.saw[i]}
  <1>1. Init => I
    <2> SUFFICES ASSUME Init PROVE I
      OBVIOUS
    <2>1. Cleared = 0
      BY DEF Init, Cleared
    <2> QED
      BY <2>1, TypesInit DEF Init, ReplyOfRequest, CallersCurrent, SeenRecorded
  <1>2. I /\ [Next]_vars => I'
    BY TypesKept, ReplyKept, SeenKept
  <1>3. I /\ [Next]_vars => [Agree]_vars
    <2> SUFFICES ASSUME I, [Next]_vars, seen'.run = seen.run, seen.run = request',
                        NEW i \in Steps
                 PROVE  seen.saw[i] \in {Unset, seen'.saw[i]}
      OBVIOUS
    <2>1. seen.saw \in [Steps -> Entry] /\ seen = [run |-> seen.run, saw |-> seen.saw]
      BY DEF Types, FiberTypes
    <2>2. CASE UNCHANGED seen
      BY <2>2
    <2>3. CASE /\ fiber # 0 /\ at \in Steps /\ UNCHANGED <<fiber, request, runs, record>>
               /\ seen' = [seen EXCEPT !.saw[at] = record[<<at, "self">>]]
      <3>1. seen'.saw = [seen.saw EXCEPT ![at] = record[<<at, "self">>]]
        BY <2>1, <2>3
      <3>2. seen.run # 0 /\ seen.run = request
        BY <2>3 DEF SeenRecorded
      <3>3. seen.saw[i] \in {Unset, record[<<i, "self">>]}
        BY <3>2 DEF SeenRecorded
      <3> QED
        BY <2>1, <3>1, <3>3
    <2> QED
      BY <2>2, <2>3, SeenMoves
  <1> QED
    BY <1>1, <1>2, <1>3, PTL DEF Spec, ReplaysAgree

=============================================================================
