----------------------------- MODULE StateCell -----------------------------
(***************************************************************************)
(* One State of src/state.ts: read and write closures over a backing       *)
(* store, a semaphore with one permit, and a PubSub with replay 1 that     *)
(* feeds the subscribers of changes.                                       *)
(*                                                                         *)
(* A call of set, update, updateAndGet or modify takes the permit, reads   *)
(* (set does not), writes, publishes what it wrote and gives the permit    *)
(* back.  read and write are Effects, so other fibers run between these    *)
(* steps, the closures may fail, and a fiber may be interrupted.  A call   *)
(* of kind "publish" or "publishUnsafe" stands for the owner of the        *)
(* backing store, which writes it directly and then feeds the change.      *)
(*                                                                         *)
(* A value is the set of calls whose effect it contains, as in AtomicCell; *)
(* the change stream names a value by the number of its write.             *)
(***************************************************************************)
EXTENDS Integers, FiniteSets, Sequences

CONSTANTS
    Calls,         \* calls, each made at most once
    Kind,          \* the function each of them calls
    Watchers,      \* subscribers to changes
    MaxInterrupts  \* bound: fibers that are interrupted

Mutators == {"set", "update", "updateAndGet", "modify"}
Feeds == {"publish", "publishUnsafe"}

ASSUME KindAssumption == Kind \in [Calls -> Mutators \cup Feeds]
ASSUME InterruptAssumption == MaxInterrupts \in Nat

VARIABLES
    log,         \* every value the store has had; the last one is the store
    feed,        \* the change stream, as numbers of writes
    holder,      \* the call that has the permit
    pc,          \* where each call stands
    value,       \* the value each call is about to write
    wrote,       \* the number of each call's write, 0 before it
    reply,       \* what each call returns: no value, or a set of one
    interrupted, \* the calls whose fiber was interrupted
    position,    \* what each watcher receives next; 0 before it subscribes
    latest       \* what each watcher received last; 0 before the first

callState == <<pc, value, wrote, reply>>
watching == <<position, latest>>
vars == <<log, feed, holder, callState, interrupted, watching>>

Nobody == "nobody"
ASSUME NobodyAssumption == Nobody \notin Calls

Store == log[Len(log)]
IsFeed(c) == Kind[c] \in Feeds

\* The function an updating call applies; set ignores what is stored.
Fn(c, stored) == IF Kind[c] = "set" THEN {c} ELSE stored \cup {c}

\* make: the current value is read and published, then the State exists.
Init ==
    /\ log = << {} >>
    /\ feed = <<1>>
    /\ holder = Nobody
    /\ pc = [c \in Calls |-> "idle"]
    /\ value = [c \in Calls |-> {}]
    /\ wrote = [c \in Calls |-> 0]
    /\ reply = [c \in Calls |-> {}]
    /\ interrupted = {}
    /\ position = [w \in Watchers |-> 0]
    /\ latest = [w \in Watchers |-> 0]

Goto(c, next) == pc' = [pc EXCEPT ![c] = next]

---------------------------------------------------------------------------
(* set, update, updateAndGet, modify                                       *)

Invoke(c) ==
    /\ pc[c] = "idle"
    /\ ~IsFeed(c)
    /\ Goto(c, "waiting")
    /\ UNCHANGED <<log, feed, holder, value, wrote, reply, interrupted, watching>>

\* Mutant: set does not share the lock of the others.
AcquireUnlessSet(c) ==
    /\ pc[c] = "waiting"
    /\ holder = Nobody \/ Kind[c] = "set"
    /\ holder' = c
    /\ Goto(c, IF IsFeed(c) THEN "publish" ELSE IF Kind[c] = "set" THEN "write" ELSE "read")
    /\ value' = [value EXCEPT ![c] = {c}]
    /\ UNCHANGED <<log, feed, wrote, reply, interrupted, watching>>

\* Semaphore.withPermit(self[Lock], ...): what is run under the permit.
Acquire(c) ==
    /\ pc[c] = "waiting"
    /\ holder = Nobody
    /\ holder' = c
    /\ Goto(c, IF IsFeed(c) THEN "publish" ELSE IF Kind[c] = "set" THEN "write" ELSE "read")
    /\ value' = [value EXCEPT ![c] = {c}]
    /\ UNCHANGED <<log, feed, wrote, reply, interrupted, watching>>

Read(c) ==
    /\ pc[c] = "read"
    /\ value' = [value EXCEPT ![c] = Fn(c, Store)]
    /\ reply' = [reply EXCEPT ![c] =
                   CASE Kind[c] = "updateAndGet" -> {Fn(c, Store)}
                     [] Kind[c] = "modify"       -> {Store}
                     [] OTHER                    -> {}]
    /\ Goto(c, "write")
    /\ UNCHANGED <<log, feed, holder, wrote, interrupted, watching>>

\* Mutant: the permit is given back before the change is published.
WriteAndRelease(c) ==
    /\ pc[c] = "write"
    /\ log' = Append(log, value[c])
    /\ wrote' = [wrote EXCEPT ![c] = Len(log) + 1]
    /\ Goto(c, "publish")
    /\ holder' = Nobody
    /\ UNCHANGED <<feed, value, reply, interrupted, watching>>

\* Mutant: a call that returns a value does not go through commit.
WriteWithoutCommit(c) ==
    /\ pc[c] = "write"
    /\ log' = Append(log, value[c])
    /\ wrote' = [wrote EXCEPT ![c] = Len(log) + 1]
    /\ Goto(c, IF Kind[c] = "modify" THEN "release" ELSE "publish")
    /\ UNCHANGED <<feed, holder, value, reply, interrupted, watching>>

\* commit: self[Write](value) succeeded.
Write(c) ==
    /\ pc[c] = "write"
    /\ log' = Append(log, value[c])
    /\ wrote' = [wrote EXCEPT ![c] = Len(log) + 1]
    /\ Goto(c, "publish")
    /\ UNCHANGED <<feed, holder, value, reply, interrupted, watching>>

\* commit: publishDirect, after the write; also publish under the permit.
Publish(c) ==
    /\ pc[c] = "publish"
    /\ feed' = Append(feed, wrote[c])
    /\ Goto(c, "release")
    /\ UNCHANGED <<log, holder, value, wrote, reply, interrupted, watching>>

\* Mutant: the change is published whether the write succeeded or not.
PublishAnyway(c) ==
    /\ pc[c] \in {"read", "write"}
    /\ wrote' = [wrote EXCEPT ![c] = Len(log) + 1]
    /\ Goto(c, "publish")
    /\ UNCHANGED <<log, feed, holder, value, reply, interrupted, watching>>

\* The read or the write closure fails: nothing is published.
Fail(c) ==
    /\ pc[c] \in {"read", "write"}
    /\ reply' = [reply EXCEPT ![c] = {}]
    /\ Goto(c, "release")
    /\ UNCHANGED <<log, feed, holder, value, wrote, interrupted, watching>>

\* Mutant: only a call that wrote gives the permit back.
ReleaseOnSuccess(c) ==
    /\ pc[c] = "release"
    /\ Goto(c, "over")
    /\ holder' = IF wrote[c] # 0 THEN Nobody ELSE holder
    /\ UNCHANGED <<log, feed, value, wrote, reply, interrupted, watching>>

\* The permit is given back however the call ended.
Release(c) ==
    /\ pc[c] = "release"
    /\ Goto(c, "over")
    /\ holder' = Nobody
    /\ UNCHANGED <<log, feed, value, wrote, reply, interrupted, watching>>

\* The fiber is interrupted: in the queue for the permit or, with it, before
\* any of the steps above.  What it has written stays written.
Interrupt(c) ==
    /\ Cardinality(interrupted) < MaxInterrupts
    /\ interrupted' = interrupted \cup {c}
    /\ \/ pc[c] = "waiting" /\ Goto(c, "over")
       \/ pc[c] \in {"read", "write", "publish"} /\ Goto(c, "release")
    /\ UNCHANGED <<log, feed, holder, value, wrote, reply, watching>>

---------------------------------------------------------------------------
(* The owner of the backing store, publish and publishUnsafe               *)

\* The owner writes the store without State, and then calls publish, which
\* waits for the permit (Acquire), or publishUnsafe, which does not.
WriteOutside(c) ==
    /\ pc[c] = "idle"
    /\ IsFeed(c)
    /\ log' = Append(log, {c})
    /\ wrote' = [wrote EXCEPT ![c] = Len(log) + 1]
    /\ Goto(c, IF Kind[c] = "publish" THEN "waiting" ELSE "unsafe")
    /\ UNCHANGED <<feed, holder, value, reply, interrupted, watching>>

PublishUnsafe(c) ==
    /\ pc[c] = "unsafe"
    /\ feed' = Append(feed, wrote[c])
    /\ Goto(c, "over")
    /\ UNCHANGED <<log, holder, value, wrote, reply, interrupted, watching>>

---------------------------------------------------------------------------
(* changes: Stream.fromPubSub with replay 1                                *)

\* Mutant: a new subscriber gets what is published from now on.
SubscribeWithoutReplay(w) ==
    /\ position[w] = 0
    /\ position' = [position EXCEPT ![w] = Len(feed) + 1]
    /\ UNCHANGED <<log, feed, holder, callState, interrupted, latest>>

Subscribe(w) ==
    /\ position[w] = 0
    /\ position' = [position EXCEPT ![w] = Len(feed)]
    /\ UNCHANGED <<log, feed, holder, callState, interrupted, latest>>

Receive(w) ==
    /\ position[w] \in 1 .. Len(feed)
    /\ latest' = [latest EXCEPT ![w] = feed[position[w]]]
    /\ position' = [position EXCEPT ![w] = @ + 1]
    /\ UNCHANGED <<log, feed, holder, callState, interrupted>>

---------------------------------------------------------------------------
Step(c) ==
    \/ Acquire(c) \/ Read(c) \/ Write(c) \/ Publish(c) \/ Fail(c)
    \/ Release(c) \/ PublishUnsafe(c)

Next ==
    \/ \E c \in Calls : Invoke(c) \/ WriteOutside(c) \/ Step(c) \/ Interrupt(c)
    \/ \E w \in Watchers : Subscribe(w) \/ Receive(w)

Spec == Init /\ [][Next]_vars

\* The runtime runs every fiber that is not waiting for the permit, and the
\* permit goes to one of those that wait.
FairSpec ==
    /\ Spec
    /\ \A c \in Calls : WF_vars(Step(c))
    /\ \A w \in Watchers : WF_vars(Receive(w))

---------------------------------------------------------------------------
(* Properties                                                              *)

Places == {"idle", "waiting", "read", "write", "publish", "unsafe", "release", "over"}

TypeOK ==
    /\ log \in Seq(SUBSET Calls) /\ log # <<>>
    /\ feed \in Seq(1 .. Len(log))
    /\ holder \in Calls \cup {Nobody}
    /\ pc \in [Calls -> Places]
    /\ value \in [Calls -> SUBSET Calls]
    /\ wrote \in [Calls -> 0 .. Len(log)]
    /\ reply \in [Calls -> SUBSET SUBSET Calls]
    /\ interrupted \subseteq Calls
    /\ position \in [Watchers -> 0 .. Len(feed) + 1]
    /\ latest \in [Watchers -> 0 .. Len(log)]

\* The read, the function and the write of a call are one atomic step with
\* respect to every other call, and what the call returns is of that step,
\* although other fibers run between them, calls fail and are interrupted.
Cell == INSTANCE AtomicCell WITH
    cell <- Store,
    applied <- {c \in Calls : wrote[c] # 0},
    reply <- [c \in Calls |-> IF wrote[c] # 0 THEN reply[c] ELSE {}]

ImplementsAtomicCell == Cell!Spec

\* The change stream is in the order of the writes: no subscriber ever goes
\* back to an older value, whoever wrote it.
ChangesInWriteOrder == \A i, j \in DOMAIN feed : i < j => feed[i] < feed[j]

\* Whatever an owner writes and feeds beside them, the writes of set, update,
\* updateAndGet and modify are in the stream in the order they were made.
MutationsInOrder ==
    LET mutations == {i \in DOMAIN feed : \E c \in Calls : ~IsFeed(c) /\ wrote[c] = feed[i]}
    IN  \A i, j \in mutations : i < j => feed[i] < feed[j]

\* When nobody holds the permit, every committed write is in the change
\* stream, but for the writes of calls that were interrupted.
EveryWritePublished ==
    holder = Nobody =>
        \A n \in DOMAIN log :
            \/ \E i \in DOMAIN feed : feed[i] = n
            \/ \E c \in interrupted : wrote[c] = n

\* What the comment on commit says, without exception: when nobody holds the
\* permit, changes has every committed write.
EveryCommitObserved ==
    holder = Nobody => \A n \in DOMAIN log : \E i \in DOMAIN feed : feed[i] = n

\* A call that waits for the permit ends: whoever had it gave it back, with
\* its call successful, failed or interrupted.
CallsEnd == \A c \in Calls : pc[c] = "waiting" ~> pc[c] = "over"

Quiet == \A c \in Calls : pc[c] \in {"idle", "over"}

\* While no call is at work, each watcher, however late it subscribed, comes
\* to the value of the store, unless that was left by an interrupted call.
WatchersConverge ==
    \A w \in Watchers :
        position[w] # 0 /\ Quiet
            ~> \/ latest[w] = Len(log)
               \/ \E c \in interrupted : wrote[c] = Len(log)
               \/ ~Quiet

=============================================================================
