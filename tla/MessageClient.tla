--------------------------- MODULE MessageClient ---------------------------
(***************************************************************************)
(* Persisted operations of an entity, from the caller's side: client.ts,   *)
(* the storage mailbox, deletion in storage.ts, the reply lookup of        *)
(* receipt.ts, execution-observation.ts and the operation handles of       *)
(* actor.ts.                                                               *)
(*                                                                         *)
(* An identity (entity, tag, primary key) has at most one stored request;  *)
(* a request is named by the id that is minted for it, so that a request   *)
(* deleted by rerun and the one sent after it differ.  Every access to the *)
(* storage is a step of its own: callers, operators and the consumer that  *)
(* runs the requests move in between.                                      *)
(***************************************************************************)
EXTENDS Integers, FiniteSets

CONSTANTS
    Identities,   \* identities of operations of one entity
    Persisted,    \* those whose rpc is annotated Persisted
    Calls,        \* calls of the API, each made at most once
    Kind,         \* the function each calls
    Of,           \* the identity each is about
    Exits,        \* how handlers end, as mapExitToPeekResult tells them apart
    Scheduled,    \* the calls whose polling schedule ends by itself
    MaxRequests,  \* bound: request ids, at least one for every send
    MaxFaults     \* bound: failed writes and consumers that crash

Sends == {"send", "sendAndAwait"}
Observers == {"peek", "waitFor", "watch"}
Operators == {"rerun", "flush", "redeliver"}

ASSUME CallAssumption ==
    /\ Persisted \subseteq Identities
    /\ Kind \in [Calls -> Sends \cup Observers \cup Operators]
    /\ Of \in [Calls -> Identities]
    /\ Scheduled \subseteq Calls
ASSUME ExitAssumption == Exits \subseteq {"Success", "Failure", "Defect", "Interrupted"}
ASSUME BoundAssumption == MaxRequests \in Nat /\ MaxFaults \in Nat

Ids == 1 .. MaxRequests
NoRequest == 0

VARIABLES
    requestFor,  \* the primary key index: the stored request of an identity
    reply,       \* the last reply stored for each request
    unread,      \* stored requests no consumer has taken
    running,     \* requests a consumer has taken and not answered
    minted,      \* how many ids were minted
    faults,      \* counts what MaxFaults bounds
    pc,          \* where each call stands
    found,       \* the request a call's lookup found
    outcome,     \* how each call ended
    known,       \* the ids minted when the call began
    victims,     \* the requests the call deleted
    revoked      \* the requests deleted by reruns that returned before it began

storage == <<requestFor, reply, unread, running, minted, faults>>
callers == <<pc, found, outcome, known, victims, revoked>>
vars == <<storage, callers>>

Init ==
    /\ requestFor = [k \in Identities |-> NoRequest]
    /\ reply = [i \in Ids |-> "none"]
    /\ unread = {}
    /\ running = {}
    /\ minted = 0
    /\ faults = 0
    /\ pc = [c \in Calls |-> "idle"]
    /\ found = [c \in Calls |-> NoRequest]
    /\ outcome = [c \in Calls |-> "none"]
    /\ known = [c \in Calls |-> {}]
    /\ victims = [c \in Calls |-> {}]
    /\ revoked = [c \in Calls |-> {}]

Stored == {requestFor[k] : k \in Identities} \ {NoRequest}
Answered(k) == requestFor[k] # NoRequest /\ reply[requestFor[k]] \in Exits

Goto(c, place) == pc' = [pc EXCEPT ![c] = place]
End(c, how) == Goto(c, "over") /\ outcome' = [outcome EXCEPT ![c] = how]

\* What a call that begins now can tell apart later.
Begin(c) ==
    /\ pc[c] = "idle"
    /\ known' = [known EXCEPT ![c] = 1 .. minted]
    /\ revoked' = [revoked EXCEPT ![c] =
           {found[d] : d \in {d \in Calls : Kind[d] = "rerun" /\ outcome[d] = "done"}}]

---------------------------------------------------------------------------
(* send: compile, and enqueue through the storage mailbox                  *)

\* Mutant: the storage mailbox takes requests no consumer will look for.
SaveUnpersisted(c) ==
    /\ Kind[c] \in Sends
    /\ Begin(c)
    /\ minted < MaxRequests /\ minted' = minted + 1
    /\ requestFor[Of[c]] = NoRequest
    /\ requestFor' = [requestFor EXCEPT ![Of[c]] = minted + 1]
    /\ unread' = unread \cup {minted + 1}
    /\ IF Kind[c] = "send" THEN End(c, "sent") ELSE Goto(c, "lookup") /\ UNCHANGED outcome
    /\ UNCHANGED <<reply, running, faults, found, victims>>

\* A rpc that is not persisted is refused.
Refuse(c) ==
    /\ Kind[c] \in Sends /\ Of[c] \notin Persisted
    /\ Begin(c)
    /\ End(c, "refused")
    /\ UNCHANGED <<storage, found, victims>>

\* saveRequest: Success for a new identity.
Save(c) ==
    /\ Kind[c] \in Sends /\ Of[c] \in Persisted
    /\ Begin(c)
    /\ minted < MaxRequests /\ minted' = minted + 1
    /\ requestFor[Of[c]] = NoRequest
    /\ requestFor' = [requestFor EXCEPT ![Of[c]] = minted + 1]
    /\ unread' = unread \cup {minted + 1}
    /\ IF Kind[c] = "send" THEN End(c, "sent") ELSE Goto(c, "lookup") /\ UNCHANGED outcome
    /\ UNCHANGED <<reply, running, faults, found, victims>>

\* saveRequest: Duplicate, for which the mailbox does nothing; the id that
\* was minted is not used.
SaveDuplicate(c) ==
    /\ Kind[c] \in Sends /\ Of[c] \in Persisted
    /\ Begin(c)
    /\ minted < MaxRequests /\ minted' = minted + 1
    /\ requestFor[Of[c]] # NoRequest
    /\ IF Kind[c] = "send" THEN End(c, "sent") ELSE Goto(c, "lookup") /\ UNCHANGED outcome
    /\ UNCHANGED <<requestFor, reply, unread, running, faults, found, victims>>

\* Mutant: the mailbox drops the error of a write, as it drops a duplicate.
SaveErrorDropped(c) ==
    /\ Kind[c] \in Sends /\ Of[c] \in Persisted
    /\ Begin(c)
    /\ faults < MaxFaults /\ faults' = faults + 1
    /\ IF Kind[c] = "send" THEN End(c, "sent") ELSE Goto(c, "lookup") /\ UNCHANGED outcome
    /\ UNCHANGED <<requestFor, reply, unread, running, minted, found, victims>>

\* saveRequest fails: nothing is stored and the caller is told.
SaveFails(c) ==
    /\ Kind[c] \in Sends /\ Of[c] \in Persisted
    /\ Begin(c)
    /\ faults < MaxFaults /\ faults' = faults + 1
    /\ End(c, "failed")
    /\ UNCHANGED <<requestFor, reply, unread, running, minted, found, victims>>

---------------------------------------------------------------------------
(* peek, watch, waitFor and the polls of sendAndAwait                      *)

Observe(c) ==
    /\ Kind[c] \in Observers
    /\ Begin(c)
    /\ Goto(c, "lookup")
    /\ UNCHANGED <<storage, found, outcome, victims>>

\* peekStoredReply, first read: requestIdForPrimaryKey.
Lookup(c) ==
    /\ pc[c] = "lookup"
    /\ found' = [found EXCEPT ![c] = requestFor[Of[c]]]
    /\ Goto(c, "replies")
    /\ UNCHANGED <<storage, outcome, known, victims, revoked>>

\* What peekStoredReply makes of the last reply: without an exit, Pending.
Result(c) ==
    IF found[c] # NoRequest /\ reply[found[c]] \in Exits THEN reply[found[c]] ELSE "Pending"

\* Second read: repliesForUnfiltered.  peek returns what it reads; the others
\* return a terminal result.
Report(c) ==
    /\ pc[c] = "replies"
    /\ Kind[c] = "peek" \/ Result(c) \in Exits
    /\ End(c, Result(c))
    /\ UNCHANGED <<storage, found, known, victims, revoked>>

\* Mutant: the polls read the replies of the request that was found first.
PollSameRequest(c) ==
    /\ pc[c] = "replies"
    /\ Kind[c] # "peek" /\ Result(c) = "Pending"
    /\ IF found[c] = NoRequest THEN Goto(c, "lookup") ELSE UNCHANGED pc
    /\ UNCHANGED <<storage, found, outcome, known, victims, revoked>>

\* Not terminal: the schedule lets the poll be repeated, both reads of it.
PollAgain(c) ==
    /\ pc[c] = "replies"
    /\ Kind[c] # "peek" /\ Result(c) = "Pending"
    /\ Goto(c, "lookup")
    /\ UNCHANGED <<storage, found, outcome, known, victims, revoked>>

\* Not terminal, and the schedule that was given is at its end: waitFor
\* returns what it has, and sendAndAwait dies of it.
ScheduleEnds(c) ==
    /\ pc[c] = "replies" /\ c \in Scheduled
    /\ Kind[c] # "peek" /\ Result(c) = "Pending"
    /\ End(c, IF Kind[c] = "sendAndAwait" THEN "died" ELSE "Pending")
    /\ UNCHANGED <<storage, found, known, victims, revoked>>

\* Mutant: the timeout is looked at when a poll has its result.
TimeoutBetweenPolls(c) ==
    /\ Kind[c] = "sendAndAwait" /\ pc[c] = "replies"
    /\ End(c, "timeout")
    /\ UNCHANGED <<storage, found, known, victims, revoked>>

\* sendAndAwait: Effect.timeoutOrElse interrupts the polls wherever they are.
Timeout(c) ==
    /\ Kind[c] = "sendAndAwait" /\ pc[c] \in {"lookup", "replies"}
    /\ End(c, "timeout")
    /\ UNCHANGED <<storage, found, known, victims, revoked>>

---------------------------------------------------------------------------
(* rerun, flush, redeliver                                                 *)

Forget(ids) ==
    /\ requestFor' = [k \in Identities |-> IF requestFor[k] \in ids THEN NoRequest ELSE requestFor[k]]
    /\ reply' = [i \in Ids |-> IF i \in ids THEN "none" ELSE reply[i]]
    /\ unread' = unread \ ids

\* deleteInvocation, first step: requestIdForPrimaryKey.
RerunLookup(c) ==
    /\ Kind[c] = "rerun"
    /\ Begin(c)
    /\ found' = [found EXCEPT ![c] = requestFor[Of[c]]]
    /\ IF requestFor[Of[c]] = NoRequest THEN End(c, "done") ELSE Goto(c, "delete") /\ UNCHANGED outcome
    /\ UNCHANGED <<storage, victims>>

\* Mutant: what is deleted is looked up again by the primary key.
DeleteByPrimaryKey(c) ==
    /\ pc[c] = "delete"
    /\ Forget({requestFor[Of[c]]} \ {NoRequest})
    /\ victims' = [victims EXCEPT ![c] = {requestFor[Of[c]]} \ {NoRequest}]
    /\ End(c, "done")
    /\ UNCHANGED <<running, minted, faults, found, known, revoked>>

\* Mutant: the replies are deleted and the message is not.
DeleteReplies(c) ==
    /\ pc[c] = "delete"
    /\ reply' = [reply EXCEPT ![found[c]] = "none"]
    /\ victims' = [victims EXCEPT ![c] = {found[c]}]
    /\ End(c, "done")
    /\ UNCHANGED <<requestFor, unread, running, minted, faults, found, known, revoked>>

\* Second step: deleteEnvelope, replies and message in one transaction.
Delete(c) ==
    /\ pc[c] = "delete"
    /\ Forget({found[c]})
    /\ victims' = [victims EXCEPT ![c] = {found[c]}]
    /\ End(c, "done")
    /\ UNCHANGED <<running, minted, faults, found, known, revoked>>

\* clearAddress: every request of the entity, with its replies.
Flush(c) ==
    /\ Kind[c] = "flush"
    /\ Begin(c)
    /\ Forget(Stored)
    /\ victims' = [victims EXCEPT ![c] = Stored]
    /\ End(c, "done")
    /\ UNCHANGED <<running, minted, faults, found>>

\* Mutant: requests that have an exit are read, and so run, again.
RedeliverAll(c) ==
    /\ Kind[c] = "redeliver"
    /\ Begin(c)
    /\ unread' = unread \cup Stored
    /\ End(c, "done")
    /\ UNCHANGED <<requestFor, reply, running, minted, faults, found, victims>>

\* resetAddress: requests without an exit are to be read again.
Redeliver(c) ==
    /\ Kind[c] = "redeliver"
    /\ Begin(c)
    /\ unread' = unread \cup {i \in Stored : reply[i] \notin Exits}
    /\ End(c, "done")
    /\ UNCHANGED <<requestFor, reply, running, minted, faults, found, victims>>

---------------------------------------------------------------------------
(* The consumer: Sharding's storage loop and the entity                    *)

Take(i) ==
    /\ i \in unread
    /\ \E k \in Persisted : requestFor[k] = i
    /\ unread' = unread \ {i}
    /\ running' = running \cup {i}
    /\ UNCHANGED <<requestFor, reply, minted, faults, callers>>

\* A part of a stream's replies.
Chunk(i) ==
    /\ i \in running /\ reply[i] = "none"
    /\ reply' = [reply EXCEPT ![i] = "Chunk"]
    /\ UNCHANGED <<requestFor, unread, running, minted, faults, callers>>

\* The handler ends.  The reply of a request that was deleted meanwhile is
\* of no request any more, whether the storage keeps it or not.
Reply(i, exit) ==
    /\ i \in running
    /\ reply' = [reply EXCEPT ![i] = IF @ \in Exits THEN @ ELSE exit]
    /\ running' = running \ {i}
    /\ unread' = unread \ {i}
    /\ UNCHANGED <<requestFor, minted, faults, callers>>

\* The consumer is lost; its requests are read again when their leases end.
ConsumerCrash ==
    /\ faults < MaxFaults /\ faults' = faults + 1
    /\ running # {}
    /\ unread' = unread \cup (running \cap Stored)
    /\ running' = {}
    /\ UNCHANGED <<requestFor, reply, minted, callers>>

---------------------------------------------------------------------------
Poll(c) == Lookup(c) \/ Report(c) \/ PollAgain(c)

Next ==
    \/ \E c \in Calls :
          \/ Refuse(c) \/ Save(c) \/ SaveDuplicate(c) \/ SaveFails(c)
          \/ Observe(c) \/ Poll(c) \/ ScheduleEnds(c) \/ Timeout(c)
          \/ RerunLookup(c) \/ Delete(c) \/ Flush(c) \/ Redeliver(c)
    \/ \E i \in Ids : Take(i) \/ Chunk(i) \/ \E exit \in Exits : Reply(i, exit)
    \/ ConsumerCrash

Spec == Init /\ [][Next]_vars

\* A started call goes on, clocks run, and a consumer that stays up takes
\* what is stored and answers what it took.
FairSpec ==
    /\ Spec
    /\ \A c \in Calls : WF_vars(Poll(c)) /\ WF_vars(Timeout(c))
    /\ \A i \in Ids : WF_vars(Take(i)) /\ WF_vars(\E exit \in Exits : Reply(i, exit))

---------------------------------------------------------------------------
(* Properties                                                              *)

Outcomes == Exits \cup {"none", "Pending", "sent", "refused", "failed", "timeout", "died", "done"}

\* The types; in particular what is to be read is stored and not answered.
TypeOK ==
    /\ requestFor \in [Identities -> Ids \cup {NoRequest}]
    /\ reply \in [Ids -> Exits \cup {"none", "Chunk"}]
    /\ unread \subseteq {i \in Stored : reply[i] \notin Exits}
    /\ running \subseteq Ids
    /\ minted \in 0 .. MaxRequests /\ faults \in 0 .. MaxFaults
    /\ pc \in [Calls -> {"idle", "lookup", "replies", "delete", "over"}]
    /\ found \in [Calls -> Ids \cup {NoRequest}]
    /\ outcome \in [Calls -> Outcomes]
    /\ known \in [Calls -> SUBSET Ids]
    /\ victims \in [Calls -> SUBSET Ids]
    /\ revoked \in [Calls -> SUBSET (Ids \cup {NoRequest})]

\* rerun deletes the request it found and nothing that was sent since it
\* began, whatever other reruns and sends come between its two steps.
RerunSparesLaterSends ==
    \A c \in Calls : Kind[c] = "rerun" => victims[c] \subseteq known[c]

\* Completions are reused until rerun: no call that begins after a rerun has
\* returned finds the request that the rerun deleted, or reports its reply.
RerunForgets ==
    \A c \in Calls : found[c] \notin revoked[c] \ {NoRequest}

\* A send that was accepted, as new or as a duplicate, is answered, unless an
\* operator deletes the request: then it is to be sent again.
SendsAreAnswered ==
    \A c \in {c \in Calls : Kind[c] = "send"} :
        outcome[c] = "sent" ~>
            Answered(Of[c]) \/ \E d \in Calls : victims[d] # {}

\* A call that observes an identity ends when the identity has an answer and
\* keeps it, also when the answer is another request's than the one the call
\* first found.
ObserversEnd ==
    \A c \in {c \in Calls : Kind[c] \in Observers \cup Sends} :
        pc[c] \in {"lookup", "replies"} /\ Answered(Of[c]) ~>
            pc[c] = "over" \/ ~Answered(Of[c])

\* sendAndAwait ends, with an answer or with its timeout, whatever happens
\* to its request.
SendAndAwaitEnds ==
    \A c \in {c \in Calls : Kind[c] = "sendAndAwait"} :
        pc[c] = "lookup" ~> pc[c] = "over"

=============================================================================
