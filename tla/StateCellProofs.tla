-------------------------- MODULE StateCellProofs --------------------------
(***************************************************************************)
(* What TLAPS proves of StateCell, for every set of calls and watchers and *)
(* every bound: type correctness and the lock without any assumption on    *)
(* the calls; the order of the change stream, the completeness of the      *)
(* stream (but for interrupted calls) and the refinement of AtomicCell     *)
(* when every write goes through State.  With an owner that writes the     *)
(* store itself the order does not hold: a run shows it.                   *)
(***************************************************************************)
EXTENDS StateCell, TLAPS

\* Every write of the store goes through set, update, updateAndGet, modify.
NoOwner == \A c \in Calls : ~IsFeed(c)

---------------------------------------------------------------------------
(* The lock                                                                *)

\* What the permit covers.
Inside == {"read", "write", "publish", "release"}

\* A call that is past the semaphore is its holder.
LockHeld == \A c \in Calls : pc[c] \in Inside => holder = c

\* A call that is about to publish has written; so has an owner's publish
\* that waits for the permit.
PublishersWrote ==
    \A c \in Calls :
        pc[c] \in {"publish", "unsafe"} \/ (IsFeed(c) /\ pc[c] = "waiting") =>
            wrote[c] # 0

LockInv == TypeOK /\ LockHeld /\ PublishersWrote

\* Initially the permit is free and no call has begun.
LEMMA LockInit == Init => LockInv
  <1> SUFFICES ASSUME Init PROVE LockInv
    OBVIOUS
  <1>1. TypeOK
    BY KindAssumption, InterruptAssumption DEF Init, TypeOK, Places
  <1> QED
    BY <1>1 DEF Init, LockInv, LockHeld, PublishersWrote, Inside

\* Every step of a call that is not a write keeps the types and the lock.
LEMMA LockCall ==
    ASSUME LockInv, NEW c \in Calls,
           Invoke(c) \/ Acquire(c) \/ Read(c) \/ Fail(c) \/ Release(c) \/ Interrupt(c)
    PROVE  LockInv'
  <1> USE DEF LockInv, Goto
  <1>1. Store \in SUBSET Calls
    BY DEF TypeOK, Store
  <1>2. TypeOK'
    <2>1. CASE Invoke(c)
      BY <2>1 DEF Invoke, TypeOK, Places, watching
    <2>2. CASE Acquire(c)
      BY <2>2 DEF Acquire, TypeOK, Places, watching
    <2>3. CASE Read(c)
      <3>1. value' \in [Calls -> SUBSET Calls]
        BY <2>3, <1>1 DEF Read, Fn, TypeOK
      <3>2. Fn(c, Store) \in SUBSET Calls
        BY <1>1 DEF Fn
      <3>3. PICK r \in SUBSET SUBSET Calls : reply' = [reply EXCEPT ![c] = r]
        BY <2>3, <1>1, <3>2 DEF Read
      <3>4. reply' \in [Calls -> SUBSET SUBSET Calls]
        BY <3>3 DEF TypeOK
      <3> QED
        BY <2>3, <3>1, <3>4 DEF Read, TypeOK, Places, watching
    <2>4. CASE Fail(c)
      <3>1. reply' \in [Calls -> SUBSET SUBSET Calls]
        <4>1. {} \in SUBSET SUBSET Calls
          OBVIOUS
        <4> QED
          BY <2>4, <4>1 DEF Fail, TypeOK
      <3> QED
        BY <2>4, <3>1 DEF Fail, TypeOK, Places, watching
    <2>5. CASE Release(c)
      BY <2>5 DEF Release, TypeOK, Places, watching
    <2>6. CASE Interrupt(c)
      <3>1. interrupted' \subseteq Calls
        BY <2>6 DEF Interrupt, TypeOK
      <3>2. pc' \in [Calls -> Places]
        BY <2>6 DEF Interrupt, TypeOK, Places
      <3> QED
        BY <2>6, <3>1, <3>2 DEF Interrupt, TypeOK, watching
    <2> QED
      BY <2>1, <2>2, <2>3, <2>4, <2>5, <2>6
  <1>3. LockHeld'
    BY NobodyAssumption
    DEF Invoke, Acquire, Read, Fail, Release, Interrupt, TypeOK, LockHeld, Inside
  <1>4. PublishersWrote'
    BY KindAssumption
    DEF Invoke, Acquire, Read, Fail, Release, Interrupt, TypeOK, PublishersWrote,
        IsFeed, Feeds, Mutators
  <1> QED
    BY <1>2, <1>3, <1>4

\* So does a write, by a call or by the owner of the store.
LEMMA LockWrite ==
    ASSUME LockInv, NEW c \in Calls, Write(c) \/ WriteOutside(c)
    PROVE  LockInv'
  <1>1. PICK v \in SUBSET Calls : log' = Append(log, v)
    BY DEF LockInv, TypeOK, Write, WriteOutside
  <1>2. log \in Seq(SUBSET Calls) /\ Len(log) \in Nat
    BY DEF LockInv, TypeOK
  <1>3. log' \in Seq(SUBSET Calls) /\ Len(log') = Len(log) + 1
    BY <1>1, <1>2
  <1>4. feed' \in Seq(1 .. Len(log'))
    BY <1>2, <1>3 DEF LockInv, TypeOK, Write, WriteOutside
  <1>5. TypeOK'
    <2>1. /\ log' # <<>>
          /\ wrote' = [wrote EXCEPT ![c] = Len(log) + 1]
          /\ wrote' \in [Calls -> 0 .. Len(log')]
      <3>1. wrote' = [wrote EXCEPT ![c] = Len(log) + 1] /\ wrote \in [Calls -> 0 .. Len(log)]
        BY DEF LockInv, TypeOK, Write, WriteOutside
      <3> QED
        BY <1>2, <1>3, <3>1
    <2>2. \E p \in Places : pc' = [pc EXCEPT ![c] = p]
      BY DEF Write, WriteOutside, Goto, Places
    <2>3. pc' \in [Calls -> Places]
      BY <2>2 DEF LockInv, TypeOK
    <2>4. /\ UNCHANGED <<feed, holder, value, reply, interrupted, watching>>
      BY DEF Write, WriteOutside
    <2>5. latest' \in [Watchers -> 0 .. Len(log')]
      BY <1>2, <1>3, <2>4 DEF LockInv, TypeOK, watching
    <2> QED
      BY <1>3, <1>4, <2>1, <2>3, <2>4, <2>5 DEF LockInv, TypeOK, watching
  <1>6. LockHeld'
    BY DEF LockInv, TypeOK, Write, WriteOutside, Goto, LockHeld, Inside
  <1>7. PublishersWrote'
    <2>1. /\ pc' = [pc EXCEPT ![c] = pc'[c]]
          /\ wrote' = [wrote EXCEPT ![c] = Len(log) + 1]
      BY DEF LockInv, TypeOK, Write, WriteOutside, Goto
    <2>2. wrote'[c] # 0
      BY <1>2, <2>1 DEF LockInv, TypeOK
    <2>3. ASSUME NEW d \in Calls, d # c PROVE wrote'[d] = wrote[d] /\ pc'[d] = pc[d]
      BY <2>1, <2>3 DEF LockInv, TypeOK
    <2> QED
      BY <2>2, <2>3 DEF LockInv, PublishersWrote, IsFeed
  <1> QED
    BY <1>5, <1>6, <1>7 DEF LockInv

\* So does a publication, and so do the watchers.
LEMMA LockFeed ==
    ASSUME LockInv,
           \/ \E c \in Calls : Publish(c) \/ PublishUnsafe(c)
           \/ \E w \in Watchers : Subscribe(w) \/ Receive(w)
    PROVE  LockInv'
  <1>1. CASE \E c \in Calls : Publish(c) \/ PublishUnsafe(c)
    <2>1. PICK c \in Calls : Publish(c) \/ PublishUnsafe(c)
      BY <1>1
    <2>2. wrote[c] \in 1 .. Len(log) /\ feed \in Seq(1 .. Len(log))
      BY <2>1 DEF LockInv, TypeOK, PublishersWrote, Publish, PublishUnsafe
    <2>3. feed' \in Seq(1 .. Len(log)) /\ Len(feed') = Len(feed) + 1
      <3>1. feed' = Append(feed, wrote[c])
        BY <2>1, Zenon DEF Publish, PublishUnsafe
      <3>2. PICK W, x : W = 1 .. Len(log) /\ x = wrote[c]
        OBVIOUS
      <3>3. feed \in Seq(W) /\ x \in W
        BY <2>2, <3>2
      <3>4. Append(feed, x) \in Seq(W) /\ Len(Append(feed, x)) = Len(feed) + 1
        BY <3>3
      <3> QED
        BY <3>1, <3>2, <3>4, Zenon
    <2>4. TypeOK'
      <3>1. /\ UNCHANGED <<log, holder, value, wrote, reply, interrupted, watching>>
            /\ \E p \in Places : pc' = [pc EXCEPT ![c] = p]
        BY <2>1 DEF Publish, PublishUnsafe, Goto, Places
      <3>2. pc' \in [Calls -> Places]
        BY <3>1 DEF LockInv, TypeOK
      <3>3. position' \in [Watchers -> 0 .. Len(feed') + 1]
        BY <2>2, <2>3, <3>1 DEF LockInv, TypeOK, watching
      <3> QED
        BY <2>3, <3>1, <3>2, <3>3 DEF LockInv, TypeOK, watching
    <2>5. LockHeld' /\ PublishersWrote'
      BY <2>1
      DEF LockInv, TypeOK, Publish, PublishUnsafe, Goto, LockHeld, Inside, PublishersWrote
    <2> QED
      BY <2>4, <2>5 DEF LockInv
  <1>2. CASE \E w \in Watchers : Subscribe(w) \/ Receive(w)
    <2>1. TypeOK'
      <3>1. PICK w \in Watchers : Subscribe(w) \/ Receive(w)
        BY <1>2
      <3>2. feed \in Seq(1 .. Len(log)) /\ Len(feed) \in Nat
        BY DEF LockInv, TypeOK
      <3>3. position' \in [Watchers -> 0 .. Len(feed) + 1]
        <4>1. CASE Subscribe(w)
          BY <3>2, <4>1 DEF LockInv, TypeOK, Subscribe
        <4>2. CASE Receive(w)
          <5>1. position[w] + 1 \in 0 .. Len(feed) + 1
            BY <3>2, <4>2 DEF Receive
          <5> QED
            BY <4>2, <5>1 DEF LockInv, TypeOK, Receive
        <4> QED
          BY <3>1, <4>1, <4>2
      <3>4. latest' \in [Watchers -> 0 .. Len(log)]
        <4>1. CASE Subscribe(w)
          BY <4>1 DEF LockInv, TypeOK, Subscribe
        <4>2. CASE Receive(w)
          <5>1. feed[position[w]] \in 1 .. Len(log)
            BY <3>2, <4>2 DEF Receive
          <5> QED
            BY <4>2, <5>1 DEF LockInv, TypeOK, Receive
        <4> QED
          BY <3>1, <4>1, <4>2
      <3> QED
        BY <3>1, <3>3, <3>4 DEF LockInv, TypeOK, Subscribe, Receive, callState
    <2> QED
      BY <1>2, <2>1
      DEF LockInv, Subscribe, Receive, callState, LockHeld, PublishersWrote
  <1> QED
    BY <1>1, <1>2

\* The lock's invariant is inductive.
LEMMA LockNext == LockInv /\ [Next]_vars => LockInv'
  <1> SUFFICES ASSUME LockInv, [Next]_vars PROVE LockInv'
    OBVIOUS
  <1>1. CASE Next
    BY <1>1, LockCall, LockWrite, LockFeed DEF Next, Step
  <1>2. CASE UNCHANGED vars
    BY <1>2
    DEF vars, callState, watching, LockInv, TypeOK, LockHeld, PublishersWrote
  <1> QED
    BY <1>1, <1>2

\* In every reachable state the permit is held by whoever is past it.
THEOREM LockInvariance == Spec => []LockInv
  BY LockInit, LockNext, PTL DEF Spec

\* Type correctness: in particular nothing is published that was not written.
THEOREM StateTypeCorrect == Spec => []TypeOK
  <1>1. LockInv => TypeOK
    BY DEF LockInv
  <1> QED
    BY <1>1, LockInvariance, PTL

---------------------------------------------------------------------------
(* Beside an owner that writes and feeds the store itself                  *)

\* The writes are numbered apart, a call of set ... modify has its number
\* when it has written.
NumbersDiffer ==
    /\ \A c, d \in Calls : wrote[c] = wrote[d] /\ wrote[c] # 0 => c = d
    /\ \A c \in Calls :
          ~IsFeed(c) /\ pc[c] \in {"idle", "waiting", "read", "write"} => wrote[c] = 0

\* The permit makes the publisher's write the last one of those calls, and
\* it is not in the stream yet.
PublisherIsLast ==
    \A c \in Calls :
        ~IsFeed(c) /\ pc[c] = "publish" =>
            /\ \A d \in Calls : ~IsFeed(d) /\ d # c => wrote[d] < wrote[c]
            /\ \A i \in DOMAIN feed : feed[i] # wrote[c]

\* Only an owner's publishUnsafe leaves the permit aside.
UnsafeIsOwners == \A c \in Calls : pc[c] = "unsafe" => IsFeed(c)

MutationInv ==
    LockInv /\ UnsafeIsOwners /\ NumbersDiffer /\ PublisherIsLast /\ MutationsInOrder

\* The calls that write and publish nothing change no number and no stream.
LEMMA MutationKept ==
    ASSUME MutationInv, UNCHANGED <<feed, wrote>>,
           \A c \in Calls :
              /\ pc'[c] = "publish" => pc[c] = "publish" \/ IsFeed(c)
              /\ pc'[c] = "unsafe" => pc[c] = "unsafe"
              /\ pc'[c] \in {"idle", "waiting", "read", "write"} =>
                    pc[c] \in {"idle", "waiting", "read", "write"}
    PROVE  UnsafeIsOwners' /\ NumbersDiffer' /\ PublisherIsLast' /\ MutationsInOrder'
  BY DEF MutationInv, UnsafeIsOwners, NumbersDiffer, PublisherIsLast, MutationsInOrder, IsFeed

\* A write takes the next number: no call has it and it is not in the stream.
LEMMA MutationWrite ==
    ASSUME MutationInv, NEW c \in Calls, Write(c) \/ WriteOutside(c)
    PROVE  UnsafeIsOwners' /\ NumbersDiffer' /\ PublisherIsLast' /\ MutationsInOrder'
  <1> DEFINE n == Len(log) + 1
  <1>1. /\ Len(log) \in Nat
        /\ \A d \in Calls : wrote[d] \in 0 .. Len(log)
        /\ \A i \in DOMAIN feed : feed[i] \in 1 .. Len(log)
        /\ UNCHANGED feed
        /\ wrote'[c] = n
        /\ \A d \in Calls : d # c => wrote'[d] = wrote[d] /\ pc'[d] = pc[d]
        /\ pc'[c] \in {"publish", "unsafe"} \/ IsFeed(c)
    BY DEF MutationInv, LockInv, TypeOK, Write, WriteOutside, Goto
  <1>2. NumbersDiffer'
    BY <1>1 DEF MutationInv, NumbersDiffer, IsFeed
  <1>3. PublisherIsLast'
    <2> SUFFICES ASSUME NEW d \in Calls, ~IsFeed(d), pc'[d] = "publish"
                 PROVE  /\ \A e \in Calls : ~IsFeed(e) /\ e # d => wrote'[e] < wrote'[d]
                        /\ \A i \in DOMAIN feed : feed[i] # wrote'[d]
      BY <1>1 DEF PublisherIsLast, IsFeed
    <2>1. CASE d = c
      BY <1>1, <2>1
    <2>2. CASE d # c
      <3>1. pc[d] = "publish" /\ holder = d
        BY <1>1, <2>2 DEF MutationInv, LockInv, LockHeld, Inside
      <3>2. IsFeed(c)
        BY <2>2, <3>1 DEF Write, WriteOutside, MutationInv, LockInv, LockHeld, Inside
      <3> QED
        BY <1>1, <2>2, <3>1, <3>2 DEF MutationInv, PublisherIsLast
    <2> QED
      BY <2>1, <2>2
  <1>4. MutationsInOrder'
    <2> SUFFICES ASSUME NEW i \in DOMAIN feed, NEW j \in DOMAIN feed, i < j,
                        NEW d \in Calls, ~IsFeed(d), wrote'[d] = feed[i],
                        NEW e \in Calls, ~IsFeed(e), wrote'[e] = feed[j]
                 PROVE  feed[i] < feed[j]
      BY <1>1 DEF MutationsInOrder, IsFeed
    <2>1. d # c /\ e # c
      BY <1>1
    <2> QED
      BY <1>1, <2>1 DEF MutationInv, MutationsInOrder
  <1>5. UnsafeIsOwners'
    BY <1>1
    DEF MutationInv, LockInv, TypeOK, UnsafeIsOwners, IsFeed, Write, WriteOutside, Goto
  <1> QED
    BY <1>2, <1>3, <1>4, <1>5

\* A publication of a mutation adds the greatest number so far; one of the
\* owner's adds a number that is no mutation's.
LEMMA MutationPublish ==
    ASSUME MutationInv, NEW c \in Calls, Publish(c) \/ PublishUnsafe(c)
    PROVE  UnsafeIsOwners' /\ NumbersDiffer' /\ PublisherIsLast' /\ MutationsInOrder'
  <1>1. /\ Len(feed) \in Nat /\ DOMAIN feed = 1 .. Len(feed)
        /\ DOMAIN feed' = 1 .. Len(feed) + 1
        /\ \A i \in 1 .. Len(feed) : feed'[i] = feed[i]
        /\ feed'[Len(feed) + 1] = wrote[c]
        /\ UNCHANGED wrote
        /\ pc[c] \in {"publish", "unsafe"} /\ pc'[c] \in {"release", "over"}
        /\ \A d \in Calls : d # c => pc'[d] = pc[d]
        /\ wrote[c] # 0
    <2>1. /\ pc[c] \in {"publish", "unsafe"} /\ pc'[c] \in {"release", "over"}
          /\ \A d \in Calls : d # c => pc'[d] = pc[d]
          /\ feed' = Append(feed, wrote[c]) /\ UNCHANGED wrote
      BY DEF MutationInv, LockInv, TypeOK, Publish, PublishUnsafe, Goto
    <2>2. wrote[c] \in 1 .. Len(log) /\ feed \in Seq(1 .. Len(log))
      BY <2>1 DEF MutationInv, LockInv, TypeOK, PublishersWrote
    <2> QED
      BY <2>1, <2>2
  <1>2. NumbersDiffer'
    BY <1>1 DEF MutationInv, NumbersDiffer, IsFeed
  <1>3. PublisherIsLast'
    <2> SUFFICES ASSUME NEW d \in Calls, ~IsFeed(d), pc'[d] = "publish"
                 PROVE  /\ \A e \in Calls : ~IsFeed(e) /\ e # d => wrote[e] < wrote[d]
                        /\ \A i \in DOMAIN feed' : feed'[i] # wrote[d]
      BY <1>1 DEF PublisherIsLast, IsFeed
    <2>1. d # c /\ pc[d] = "publish"
      BY <1>1
    <2>2. wrote[c] # wrote[d]
      BY <1>1, <2>1 DEF MutationInv, NumbersDiffer
    <2> QED
      BY <1>1, <2>1, <2>2 DEF MutationInv, PublisherIsLast
  <1>4. MutationsInOrder'
    <2> SUFFICES ASSUME NEW i \in DOMAIN feed', NEW j \in DOMAIN feed', i < j,
                        NEW d \in Calls, ~IsFeed(d), wrote[d] = feed'[i],
                        NEW e \in Calls, ~IsFeed(e), wrote[e] = feed'[j]
                 PROVE  feed'[i] < feed'[j]
      BY <1>1 DEF MutationsInOrder, IsFeed
    <2>1. i \in 1 .. Len(feed) /\ feed'[i] = feed[i]
      BY <1>1
    <2>2. CASE j \in 1 .. Len(feed)
      BY <1>1, <2>1, <2>2 DEF MutationInv, MutationsInOrder
    <2>3. CASE j = Len(feed) + 1
      <3>1. e = c
        BY <1>1, <2>3 DEF MutationInv, NumbersDiffer
      <3>2. pc[c] = "publish"
        BY <3>1 DEF MutationInv, UnsafeIsOwners, Publish, PublishUnsafe
      <3>3. d # c
        BY <1>1, <2>1, <3>1, <3>2 DEF MutationInv, PublisherIsLast
      <3> QED
        BY <1>1, <2>1, <2>3, <3>1, <3>2, <3>3 DEF MutationInv, PublisherIsLast
    <2> QED
      BY <1>1, <2>2, <2>3
  <1>5. UnsafeIsOwners'
    BY <1>1 DEF MutationInv, UnsafeIsOwners, IsFeed
  <1> QED
    BY <1>2, <1>3, <1>4, <1>5

\* The invariant of the mutations is inductive, whatever the owner does.
LEMMA MutationNext == MutationInv /\ [Next]_vars => MutationInv'
  <1> SUFFICES ASSUME MutationInv, [Next]_vars PROVE MutationInv'
    OBVIOUS
  <1>1. LockInv'
    BY LockNext DEF MutationInv
  <1>2. ASSUME NEW c \in Calls,
               Invoke(c) \/ Acquire(c) \/ Read(c) \/ Fail(c) \/ Release(c) \/ Interrupt(c)
        PROVE  UnsafeIsOwners' /\ NumbersDiffer' /\ PublisherIsLast' /\ MutationsInOrder'
    <2>1. UNCHANGED <<feed, wrote>>
      BY <1>2 DEF Invoke, Acquire, Read, Fail, Release, Interrupt
    <2>2. \A d \in Calls :
            /\ pc'[d] = "publish" => pc[d] = "publish" \/ IsFeed(d)
            /\ pc'[d] = "unsafe" => pc[d] = "unsafe"
            /\ pc'[d] \in {"idle", "waiting", "read", "write"} =>
                  pc[d] \in {"idle", "waiting", "read", "write"}
      BY <1>2 DEF Invoke, Acquire, Read, Fail, Release, Interrupt, Goto, MutationInv, LockInv,
                  TypeOK
    <2> QED
      BY <2>1, <2>2, MutationKept
  <1>3. CASE \/ \E w \in Watchers : Subscribe(w) \/ Receive(w)
             \/ UNCHANGED vars
    <2>1. UNCHANGED <<feed, wrote, pc>>
      BY <1>3 DEF Subscribe, Receive, callState, vars
    <2> QED
      BY <1>1, <2>1, MutationKept DEF MutationInv
  <1>4. CASE \E c \in Calls : Invoke(c) \/ WriteOutside(c) \/ Step(c) \/ Interrupt(c)
    BY <1>1, <1>2, <1>4, MutationWrite, MutationPublish DEF MutationInv, Step
  <1> QED
    BY <1>3, <1>4 DEF Next

\* The mutations of a State are in its change stream in the order they were
\* made, although an owner writes the store and feeds the stream beside them.
THEOREM MutationsStreamInOrder == Spec => []MutationsInOrder
  <1>1. Init => MutationInv
    BY LockInit
    DEF Init, MutationInv, UnsafeIsOwners, NumbersDiffer, PublisherIsLast, MutationsInOrder
  <1>2. MutationInv => MutationsInOrder
    BY DEF MutationInv
  <1> QED
    BY <1>1, <1>2, MutationNext, PTL DEF Spec

---------------------------------------------------------------------------
(* When every write goes through State                                     *)

\* A call that has not written yet has no number; the one that is about to
\* write has applied its function to what the store still has, and the one
\* that is about to publish wrote what the store still has.
ReadIsCurrent ==
    \A c \in Calls :
        /\ pc[c] # "unsafe"
        /\ pc[c] \in {"idle", "waiting", "read", "write"} => wrote[c] = 0
        /\ pc[c] \in {"idle", "waiting"} => reply[c] = {}
        /\ pc[c] = "write" =>
              /\ value[c] = Fn(c, Store)
              /\ reply[c] = Cell!Result(c, Store)
        /\ pc[c] = "publish" => wrote[c] = Len(log)

\* The stream is in the order of the writes, and behind the last write while
\* that one is to be published.
StreamIsBehind ==
    /\ ChangesInWriteOrder
    /\ \A c \in Calls : pc[c] = "publish" => \A i \in DOMAIN feed : feed[i] < Len(log)

CellInv == LockInv /\ ReadIsCurrent /\ StreamIsBehind

\* The first call finds the store empty and the stream at its first value.
LEMMA CellInit == Init => CellInv
  BY LockInit
  DEF Init, CellInv, ReadIsCurrent, StreamIsBehind, ChangesInWriteOrder

\* Every step of a call keeps what it read and wrote current, because no
\* other call is past the semaphore.
LEMMA CellCall ==
    ASSUME NoOwner, CellInv, NEW c \in Calls,
           Invoke(c) \/ Acquire(c) \/ Read(c) \/ Fail(c) \/ Release(c) \/ Interrupt(c)
    PROVE  ReadIsCurrent' /\ StreamIsBehind'
  <1>1. UNCHANGED <<log, feed, wrote>> /\ Store' = Store
    BY DEF Invoke, Acquire, Read, Fail, Release, Interrupt, Store
  <1>2. \A d \in Calls : pc'[d] = "publish" => pc[d] = "publish"
    BY DEF CellInv, LockInv, TypeOK, NoOwner, Invoke, Acquire, Read, Fail, Release,
           Interrupt, Goto
  <1>3. StreamIsBehind'
    BY <1>1, <1>2 DEF CellInv, StreamIsBehind, ChangesInWriteOrder
  <1>4. ReadIsCurrent'
    <2> SUFFICES ASSUME NEW d \in Calls
                 PROVE  /\ pc'[d] # "unsafe"
                        /\ pc'[d] \in {"idle", "waiting", "read", "write"} => wrote'[d] = 0
                        /\ pc'[d] \in {"idle", "waiting"} => reply'[d] = {}
                        /\ pc'[d] = "write" =>
                              value'[d] = Fn(d, Store') /\ reply'[d] = Cell!Result(d, Store')
                        /\ pc'[d] = "publish" => wrote'[d] = Len(log')
      BY DEF ReadIsCurrent, Cell!Result, Cell!Effect, Fn
    <2>1. CASE d # c
      <3>1. pc'[d] = pc[d] /\ value'[d] = value[d] /\ reply'[d] = reply[d]
        BY <2>1 DEF CellInv, LockInv, TypeOK, Invoke, Acquire, Read, Fail, Release,
                    Interrupt, Goto
      <3> QED
        BY <1>1, <3>1 DEF CellInv, ReadIsCurrent
    <2>2. CASE d = c
      <3>1. CASE Read(c)
        <4>1. pc'[c] = "write" /\ value'[c] = Fn(c, Store) /\ wrote[c] = 0
          BY <3>1 DEF Read, Goto, CellInv, LockInv, TypeOK, ReadIsCurrent
        <4>2. reply'[c] = Cell!Result(c, Store)
          BY <3>1 DEF Read, CellInv, LockInv, TypeOK, Cell!Result, Cell!Effect, Fn
        <4> QED
          BY <1>1, <2>2, <4>1, <4>2
      <3>2. CASE Acquire(c)
        <4>1. /\ pc'[c] = IF Kind[c] = "set" THEN "write" ELSE "read"
              /\ value'[c] = {c}
              /\ reply'[c] = reply[c]
              /\ wrote[c] = 0
          BY <3>2 DEF Acquire, Goto, NoOwner, CellInv, LockInv, TypeOK, ReadIsCurrent
        <4>2. reply[c] = {}
          BY <3>2 DEF Acquire, CellInv, ReadIsCurrent
        <4> QED
          BY <1>1, <2>2, <4>1, <4>2 DEF Fn, Cell!Result
      <3>3. CASE Invoke(c) \/ Fail(c) \/ Release(c) \/ Interrupt(c)
        BY <1>1, <2>2, <3>3
        DEF Invoke, Fail, Release, Interrupt, Goto, CellInv, LockInv, TypeOK, ReadIsCurrent
      <3> QED
        BY <3>1, <3>2, <3>3
    <2> QED
      BY <2>1, <2>2
  <1> QED
    BY <1>3, <1>4

\* A write puts the call's value, made from the store as it is, on top.
LEMMA CellWrite ==
    ASSUME NoOwner, CellInv, NEW c \in Calls, Write(c)
    PROVE  ReadIsCurrent' /\ StreamIsBehind'
  <1>1. /\ log \in Seq(SUBSET Calls) /\ Len(log) \in Nat
        /\ feed \in Seq(1 .. Len(log))
        /\ log' = Append(log, value[c])
        /\ UNCHANGED <<feed, value, reply>>
        /\ pc' = [pc EXCEPT ![c] = "publish"]
        /\ wrote' = [wrote EXCEPT ![c] = Len(log) + 1]
        /\ pc[c] = "write" /\ holder = c
    BY DEF CellInv, LockInv, LockHeld, Inside, TypeOK, Write, Goto
  <1>2. Len(log') = Len(log) + 1
    BY <1>1 DEF CellInv, LockInv, TypeOK
  <1>3. \A d \in Calls : d # c => pc[d] \notin Inside /\ pc'[d] = pc[d] /\ wrote'[d] = wrote[d]
    BY <1>1 DEF CellInv, LockInv, LockHeld, TypeOK
  <1>4. pc'[c] = "publish" /\ wrote'[c] = Len(log')
    BY <1>1, <1>2 DEF CellInv, LockInv, TypeOK
  <1>5. ReadIsCurrent'
    BY <1>1, <1>3, <1>4 DEF CellInv, ReadIsCurrent, Inside, Fn, Cell!Result, Cell!Effect
  <1>6. StreamIsBehind'
    <2>1. \A i \in DOMAIN feed : feed[i] < Len(log')
      BY <1>1, <1>2
    <2> QED
      BY <1>1, <2>1 DEF CellInv, StreamIsBehind, ChangesInWriteOrder
  <1> QED
    BY <1>5, <1>6

\* A publication adds the last write to a stream that was behind it.
LEMMA CellPublish ==
    ASSUME NoOwner, CellInv, NEW c \in Calls, Publish(c)
    PROVE  ReadIsCurrent' /\ StreamIsBehind'
  <1>1. /\ feed \in Seq(1 .. Len(log)) /\ Len(log) \in Nat
        /\ feed' = Append(feed, Len(log))
        /\ UNCHANGED <<log, value, wrote, reply>>
        /\ pc' = [pc EXCEPT ![c] = "release"]
        /\ pc[c] = "publish" /\ holder = c
        /\ \A i \in DOMAIN feed : feed[i] < Len(log)
    BY DEF CellInv, LockInv, LockHeld, Inside, TypeOK, Publish, Goto, ReadIsCurrent,
           StreamIsBehind
  <1>2. \A d \in Calls : pc'[d] # "publish" /\ (d # c => pc'[d] = pc[d])
    BY <1>1 DEF CellInv, LockInv, LockHeld, Inside, TypeOK
  <1>3. pc'[c] = "release"
    BY <1>1 DEF CellInv, LockInv, TypeOK
  <1>4. ReadIsCurrent'
    <2>1. Store' = Store
      BY <1>1 DEF Store
    <2> QED
      BY <1>1, <1>2, <1>3, <2>1 DEF CellInv, ReadIsCurrent, Fn, Cell!Result, Cell!Effect
  <1>5. ChangesInWriteOrder'
    <2>1. /\ DOMAIN feed' = 1 .. Len(feed) + 1 /\ Len(feed) \in Nat
          /\ DOMAIN feed = 1 .. Len(feed)
          /\ \A i \in 1 .. Len(feed) : feed'[i] = feed[i]
          /\ feed'[Len(feed) + 1] = Len(log)
      BY <1>1
    <2> QED
      BY <1>1, <2>1 DEF CellInv, StreamIsBehind, ChangesInWriteOrder
  <1>6. StreamIsBehind'
    BY <1>2, <1>5 DEF StreamIsBehind
  <1> QED
    BY <1>4, <1>6

\* The invariant of the cell and its stream is inductive.
LEMMA CellNext == ASSUME NoOwner PROVE CellInv /\ [Next]_vars => CellInv'
  <1> SUFFICES ASSUME CellInv, [Next]_vars PROVE CellInv'
    OBVIOUS
  <1>1. LockInv'
    BY LockNext DEF CellInv
  <1>2. CASE Next
    <2>1. CASE \E c \in Calls : Invoke(c) \/ WriteOutside(c) \/ Step(c) \/ Interrupt(c)
      BY <1>1, <2>1, CellCall, CellWrite, CellPublish
      DEF CellInv, Step, WriteOutside, PublishUnsafe, NoOwner, ReadIsCurrent
    <2>2. CASE \E w \in Watchers : Subscribe(w) \/ Receive(w)
      <3>1. UNCHANGED <<log, feed, pc, value, wrote, reply>>
        BY <2>2 DEF Subscribe, Receive, callState
      <3> QED
        BY <1>1, <3>1 DEF CellInv, ReadIsCurrent, StreamIsBehind, ChangesInWriteOrder,
                          Store, Fn, Cell!Result, Cell!Effect
    <2> QED
      BY <1>2, <2>1, <2>2 DEF Next
  <1>3. CASE UNCHANGED vars
    BY <1>1, <1>3 DEF vars, callState, CellInv, ReadIsCurrent, StreamIsBehind,
                      ChangesInWriteOrder, Store, Fn, Cell!Result, Cell!Effect
  <1> QED
    BY <1>2, <1>3

\* In every reachable state of a State that is the only writer of its store,
\* a call writes from a current read and publishes the last write.
THEOREM CellInvariance == ASSUME NoOwner PROVE Spec => []CellInv
  BY CellInit, CellNext, PTL DEF Spec

\* The change stream of such a State is in the order of the writes.
THEOREM StreamInWriteOrder == ASSUME NoOwner PROVE Spec => []ChangesInWriteOrder
  <1>1. CellInv => ChangesInWriteOrder
    BY DEF CellInv, StreamIsBehind
  <1> QED
    BY <1>1, CellInvariance, PTL

---------------------------------------------------------------------------
(* The change stream misses only what interrupted calls wrote              *)

\* Every write is in the stream, except the last one while it is to be
\* published and those of interrupted calls.
StreamComplete ==
    \A n \in DOMAIN log :
        \/ \E i \in DOMAIN feed : feed[i] = n
        \/ \E c \in interrupted : wrote[c] = n
        \/ n = Len(log) /\ \E c \in Calls : pc[c] = "publish"

\* Only an interrupt comes between a write and its publication.
LEMMA CompleteNext ==
    ASSUME NoOwner, CellInv, StreamComplete, [Next]_vars
    PROVE  StreamComplete'
  <1>1. /\ log \in Seq(SUBSET Calls) /\ Len(log) \in Nat
        /\ feed \in Seq(1 .. Len(log)) /\ Len(feed) \in Nat
        /\ pc \in [Calls -> Places]
        /\ wrote \in [Calls -> 0 .. Len(log)]
        /\ interrupted \subseteq Calls
    BY DEF CellInv, LockInv, TypeOK
  <1>2. ASSUME NEW c \in Calls, Write(c)
        PROVE  StreamComplete'
    <2>1. /\ DOMAIN log' = 1 .. Len(log) + 1 /\ Len(log') = Len(log) + 1
          /\ feed' = feed /\ interrupted' = interrupted
          /\ pc'[c] = "publish"
          /\ wrote[c] = 0
          /\ \A d \in Calls : d # c => wrote'[d] = wrote[d]
      BY <1>1, <1>2 DEF Write, Goto, CellInv, LockInv, TypeOK, ReadIsCurrent
    <2>2. \A d \in Calls : pc[d] # "publish"
      BY <1>1, <1>2 DEF Write, CellInv, LockInv, LockHeld, Inside
    <2>3. ASSUME NEW n \in 1 .. Len(log)
          PROVE  \/ \E i \in DOMAIN feed : feed[i] = n
                 \/ \E d \in interrupted : wrote'[d] = n
      <3>1. DOMAIN log = 1 .. Len(log)
        BY <1>1
      <3>2. CASE \E i \in DOMAIN feed : feed[i] = n
        BY <3>2
      <3>3. CASE \E d \in interrupted : wrote[d] = n
        <4>1. PICK d \in interrupted : wrote[d] = n
          BY <3>3
        <4>2. d # c /\ d \in Calls
          BY <1>1, <2>1, <4>1
        <4> QED
          BY <2>1, <4>1, <4>2
      <3> QED
        BY <2>2, <3>1, <3>2, <3>3 DEF StreamComplete
    <2>4. \A n \in DOMAIN log' : n \in 1 .. Len(log) \/ n = Len(log')
      BY <1>1, <2>1
    <2> QED
      BY <2>1, <2>3, <2>4 DEF StreamComplete
  <1>3. ASSUME NEW c \in Calls, Publish(c)
        PROVE  StreamComplete'
    <2>1. /\ log' = log
          /\ feed' = Append(feed, Len(log))
          /\ UNCHANGED <<wrote, interrupted>>
      BY <1>3 DEF Publish, CellInv, ReadIsCurrent
    <2>2. /\ DOMAIN feed' = 1 .. Len(feed) + 1
          /\ DOMAIN feed = 1 .. Len(feed)
          /\ \A i \in 1 .. Len(feed) : feed'[i] = feed[i]
          /\ feed'[Len(feed) + 1] = Len(log)
      BY <1>1, <2>1
    <2>3. ASSUME NEW n \in DOMAIN log
          PROVE  \/ \E i \in DOMAIN feed' : feed'[i] = n
                 \/ \E d \in interrupted : wrote[d] = n
      <3>1. CASE n = Len(log)
        <4>1. Len(feed) + 1 \in DOMAIN feed'
          BY <1>1, <2>2
        <4> QED
          BY <2>2, <3>1, <4>1
      <3>2. CASE \E i \in DOMAIN feed : feed[i] = n
        <4>1. \A i \in DOMAIN feed : i \in DOMAIN feed' /\ feed'[i] = feed[i]
          BY <1>1, <2>2
        <4> QED
          BY <3>2, <4>1
      <3> QED
        BY <3>1, <3>2 DEF StreamComplete
    <2> QED
      BY <2>1, <2>3 DEF StreamComplete
  <1>4. ASSUME UNCHANGED <<log, feed, wrote, interrupted>>,
               \A c \in Calls : pc[c] = "publish" => pc'[c] = "publish"
        PROVE  StreamComplete'
    BY <1>4 DEF StreamComplete
  <1>5. ASSUME NEW c \in Calls,
               Invoke(c) \/ Acquire(c) \/ Read(c) \/ Fail(c) \/ Release(c)
        PROVE  StreamComplete'
    <2>1. /\ UNCHANGED <<log, feed, wrote, interrupted>>
          /\ \A d \in Calls : pc[d] = "publish" => pc'[d] = "publish"
      BY <1>1, <1>5 DEF Invoke, Acquire, Read, Fail, Release, Goto
    <2> QED
      BY <2>1, <1>4
  <1>6. ASSUME NEW c \in Calls, Interrupt(c)
        PROVE  StreamComplete'
    <2>1. /\ UNCHANGED <<log, feed, wrote>>
          /\ interrupted' = interrupted \cup {c}
          /\ \A d \in Calls : d # c => pc'[d] = pc[d]
      BY <1>1, <1>6 DEF Interrupt, Goto
    <2>2. pc[c] = "publish" => wrote[c] = Len(log)
      BY DEF CellInv, ReadIsCurrent
    <2> QED
      BY <2>1, <2>2 DEF StreamComplete
  <1>7. ASSUME NEW w \in Watchers, Subscribe(w) \/ Receive(w)
        PROVE  StreamComplete'
    BY <1>4, <1>7 DEF Subscribe, Receive, callState
  <1>8. CASE UNCHANGED vars
    BY <1>4, <1>8 DEF vars, callState
  <1>9. \A c \in Calls : ~WriteOutside(c) /\ ~PublishUnsafe(c)
    BY DEF WriteOutside, PublishUnsafe, NoOwner, CellInv, ReadIsCurrent
  <1> QED
    BY <1>2, <1>3, <1>5, <1>6, <1>7, <1>8, <1>9 DEF Next, Step

\* changes reports every committed write of a State that is the only writer
\* of its store, but for those whose fiber is interrupted.
THEOREM StreamReportsEveryWrite ==
    ASSUME NoOwner PROVE Spec => []EveryWritePublished
  <1>1. Init => StreamComplete
    BY DEF Init, StreamComplete
  <1>2. CellInv /\ StreamComplete /\ [Next]_vars => StreamComplete'
    BY CompleteNext
  <1>3. CellInv /\ StreamComplete => EveryWritePublished
    BY NobodyAssumption
    DEF CellInv, LockInv, LockHeld, Inside, StreamComplete, EveryWritePublished
  <1> QED
    BY <1>1, <1>2, <1>3, CellInvariance, PTL DEF Spec

---------------------------------------------------------------------------
(* Refinement                                                              *)

\* The cell is empty and no call has taken effect.
LEMMA RefinementInit == Init => Cell!Init
  BY DEF Init, Cell!Init, Store

\* A write performs its call; every other step leaves the cell, the calls
\* that took effect and their results as they are.
LEMMA RefinementStep ==
    ASSUME NoOwner, CellInv, [Next]_vars
    PROVE  [Cell!Next]_(Cell!vars)
  <1>1. ASSUME NEW c \in Calls, Write(c)
        PROVE  Cell!Perform(c)
    <2>1. /\ log \in Seq(SUBSET Calls) /\ Len(log) \in Nat
          /\ log' = Append(log, value[c])
          /\ UNCHANGED reply
          /\ wrote' = [wrote EXCEPT ![c] = Len(log) + 1]
          /\ wrote \in [Calls -> 0 .. Len(log)]
          /\ pc[c] = "write"
      BY <1>1 DEF CellInv, LockInv, TypeOK, Write
    <2>2. /\ wrote[c] = 0
          /\ value[c] = Fn(c, Store)
          /\ reply[c] = Cell!Result(c, Store)
      BY <2>1 DEF CellInv, ReadIsCurrent
    <2>3. Store' = Cell!Effect(c, Store)
      BY <2>1, <2>2 DEF Store, Fn, Cell!Effect
    <2>4. wrote'[c] # 0 /\ \A d \in Calls : d # c => wrote'[d] = wrote[d]
      BY <2>1
    <2> QED
      BY <2>1, <2>2, <2>3, <2>4 DEF Cell!Perform
  <1>2. ASSUME \/ UNCHANGED <<log, wrote, reply>>
               \/ \E c \in Calls :
                    /\ UNCHANGED <<log, wrote>> /\ wrote[c] = 0
                    /\ \A d \in Calls : d # c => reply'[d] = reply[d]
        PROVE  UNCHANGED Cell!vars
    BY <1>2 DEF Cell!vars, Store
  <1>3. ASSUME NEW c \in Calls, Read(c) \/ Fail(c)
        PROVE  UNCHANGED Cell!vars
    <2>1. /\ UNCHANGED <<log, wrote>> /\ wrote[c] = 0
          /\ \A d \in Calls : d # c => reply'[d] = reply[d]
      BY <1>3 DEF Read, Fail, CellInv, LockInv, TypeOK, ReadIsCurrent
    <2> QED
      BY <2>1, <1>2
  <1>4. CASE Next
    <2>1. CASE \E c \in Calls : Write(c)
      BY <1>1, <2>1 DEF Cell!Next
    <2>2. CASE \E c \in Calls : Read(c) \/ Fail(c)
      BY <1>3, <2>2
    <2>3. CASE \/ \E c \in Calls : Invoke(c) \/ Acquire(c) \/ Publish(c) \/ Release(c)
                                  \/ PublishUnsafe(c) \/ Interrupt(c)
               \/ \E w \in Watchers : Subscribe(w) \/ Receive(w)
      <3>1. UNCHANGED <<log, wrote, reply>>
        BY <2>3 DEF Invoke, Acquire, Publish, Release, PublishUnsafe, Interrupt,
                    Subscribe, Receive, callState
      <3> QED
        BY <3>1, <1>2
    <2> QED
      BY <1>4, <2>1, <2>2, <2>3 DEF Next, Step, WriteOutside, NoOwner
  <1>5. CASE UNCHANGED vars
    BY <1>2, <1>5 DEF vars, callState
  <1> QED
    BY <1>4, <1>5

\* set, update, updateAndGet and modify are atomic: concurrent calls that
\* fail and are interrupted behave as AtomicCell's.
THEOREM StateIsAtomic == ASSUME NoOwner PROVE Spec => ImplementsAtomicCell
  BY CellInvariance, RefinementInit, RefinementStep, PTL
  DEF Spec, ImplementsAtomicCell, Cell!Spec

=============================================================================
