------------------------ MODULE MessageClientProofs ------------------------
(***************************************************************************)
(* What TLAPS proves of MessageClient, for all identities, calls and       *)
(* bounds: type correctness, and that a rerun deletes the request it found *)
(* and that one only, and for good.  Both rest on ids being minted once:   *)
(* a request that was deleted is never stored again.                       *)
(***************************************************************************)
EXTENDS MessageClient, TLAPS

StorageTypes ==
    /\ requestFor \in [Identities -> Ids \cup {NoRequest}]
    /\ reply \in [Ids -> Exits \cup {"none", "Chunk"}]
    /\ unread \subseteq {i \in Stored : reply[i] \notin Exits}
    /\ running \subseteq Ids
    /\ minted \in 0 .. MaxRequests
    /\ faults \in 0 .. MaxFaults

CallTypes ==
    /\ pc \in [Calls -> {"idle", "lookup", "replies", "delete", "over"}]
    /\ found \in [Calls -> Ids \cup {NoRequest}]
    /\ outcome \in [Calls -> Outcomes]
    /\ known \in [Calls -> SUBSET Ids]
    /\ victims \in [Calls -> SUBSET Ids]
    /\ revoked \in [Calls -> SUBSET (Ids \cup {NoRequest})]

\* What is stored, taken or answered was minted.
StoredIsMinted ==
    /\ \A k \in Identities : requestFor[k] <= minted
    /\ \A i \in running : i <= minted
    /\ \A i \in Ids : i > minted => reply[i] = "none"

\* What is running was not answered, unless it was deleted meanwhile.
RunningUnanswered == \A i \in running \cap Stored : reply[i] \notin Exits

\* A call that has not begun has found and done nothing.
IdleIsFresh ==
    \A c \in Calls : pc[c] = "idle" =>
        found[c] = NoRequest /\ outcome[c] = "none" /\ victims[c] = {}

\* What a rerun is about to delete was minted when it began.
RerunTargets ==
    \A c \in Calls : pc[c] = "delete" =>
        /\ Kind[c] = "rerun" /\ outcome[c] = "none"
        /\ found[c] \in known[c] /\ found[c] <= minted

\* A rerun does not poll.
PollsAreNoReruns ==
    \A c \in Calls : pc[c] \in {"lookup", "replies"} => Kind[c] # "rerun"

\* A request found by a rerun that has returned, or revoked for a call, was
\* minted and is not stored.
Gone(i) == i <= minted /\ i \notin Stored
GoneNext(i) == i <= minted' /\ i \notin Stored'
RerunsAreDone ==
    /\ \A c \in Calls : Kind[c] = "rerun" /\ outcome[c] = "done" => Gone(found[c])
    /\ \A c \in Calls : \A i \in revoked[c] : Gone(i)

Inv ==
    /\ StorageTypes /\ StoredIsMinted /\ RunningUnanswered
    /\ CallTypes /\ IdleIsFresh /\ RerunTargets /\ PollsAreNoReruns
    /\ RerunsAreDone /\ RerunSparesLaterSends /\ RerunForgets

\* What a step of the storage keeps: what is gone, stays gone.
StorageMoves ==
    /\ StorageTypes' /\ StoredIsMinted' /\ RunningUnanswered'
    /\ minted <= minted'
    /\ \A i \in Ids \cup {NoRequest} : Gone(i) => GoneNext(i)

---------------------------------------------------------------------------
\* The storage and the calls as they are before anything happens.
LEMMA ClientInit == Init => Inv
  <1> SUFFICES ASSUME Init PROVE Inv
    OBVIOUS
  <1>1. StorageTypes
    BY BoundAssumption, ExitAssumption DEF Init, StorageTypes, Ids, NoRequest, Stored
  <1>2. CallTypes
    BY DEF Init, CallTypes, Outcomes, NoRequest
  <1>3. StoredIsMinted /\ RunningUnanswered /\ IdleIsFresh /\ RerunTargets /\ PollsAreNoReruns
    BY DEF Init, StoredIsMinted, RunningUnanswered, IdleIsFresh, RerunTargets, PollsAreNoReruns, NoRequest
  <1>4. RerunsAreDone /\ RerunSparesLaterSends /\ RerunForgets
    BY DEF Init, RerunsAreDone, RerunSparesLaterSends, RerunForgets, NoRequest
  <1> QED
    BY <1>1, <1>2, <1>3, <1>4 DEF Inv

\* What begins a call keeps: it knows the ids that were minted, and what was
\* revoked for it is gone.
LEMMA BeginFacts ==
    ASSUME Inv, NEW c \in Calls, Begin(c)
    PROVE  /\ pc[c] = "idle" /\ found[c] = NoRequest
           /\ outcome[c] = "none" /\ victims[c] = {}
           /\ known' = [known EXCEPT ![c] = 1 .. minted]
           /\ known' \in [Calls -> SUBSET Ids]
           /\ revoked' \in [Calls -> SUBSET (Ids \cup {NoRequest})]
           /\ \A d \in Calls \ {c} : known'[d] = known[d] /\ revoked'[d] = revoked[d]
           /\ \A i \in revoked'[c] : Gone(i)
  <1> DEFINE R == {found[d] : d \in {d \in Calls : Kind[d] = "rerun" /\ outcome[d] = "done"}}
  <1>1. 1 .. minted \subseteq Ids
    BY BoundAssumption DEF Inv, StorageTypes, Ids
  <1>2. R \subseteq Ids \cup {NoRequest} /\ \A i \in R : Gone(i)
    BY DEF Inv, CallTypes, RerunsAreDone
  <1>3. revoked' = [revoked EXCEPT ![c] = R]
    BY DEF Begin
  <1>4. known' = [known EXCEPT ![c] = 1 .. minted] /\ pc[c] = "idle"
    BY DEF Begin
  <1> HIDE DEF R
  <1> QED
    BY <1>1, <1>2, <1>3, <1>4 DEF Inv, CallTypes, IdleIsFresh

---------------------------------------------------------------------------
(* Steps of the storage                                                    *)

\* A new request leaves what is gone, gone: its id is new.
LEMMA Saved ==
    ASSUME Inv, NEW k \in Identities, minted < MaxRequests, minted' = minted + 1,
           requestFor[k] = NoRequest,
           requestFor' = [requestFor EXCEPT ![k] = minted + 1],
           unread' = unread \cup {minted + 1},
           UNCHANGED <<reply, running, faults>>
    PROVE  StorageMoves
  <1>1. /\ minted \in Nat /\ minted + 1 \in Ids /\ minted' \in 0 .. MaxRequests
        /\ requestFor \in [Identities -> Ids \cup {NoRequest}]
        /\ Ids \subseteq Nat
    BY BoundAssumption DEF Inv, StorageTypes, Ids
  <1>2. requestFor' \in [Identities -> Ids \cup {NoRequest}]
    BY <1>1
  <1>3. Stored' = Stored \cup {minted + 1}
    <2>1. \A j \in Identities : requestFor'[j] = IF j = k THEN minted + 1 ELSE requestFor[j]
      BY <1>1
    <2>2. minted + 1 # NoRequest
      BY <1>1 DEF NoRequest
    <2> QED
      BY <2>1, <2>2 DEF Stored
  <1>4. reply[minted + 1] = "none" /\ "none" \notin Exits
    BY <1>1, ExitAssumption DEF Inv, StoredIsMinted
  <1>5. unread' \subseteq {i \in Stored' : reply'[i] \notin Exits}
    BY <1>3, <1>4 DEF Inv, StorageTypes
  <1>6. StorageTypes'
    BY <1>1, <1>2, <1>5 DEF Inv, StorageTypes
  <1>7. StoredIsMinted'
    <2>1. ASSUME NEW j \in Identities PROVE requestFor'[j] <= minted'
      <3>1. requestFor'[j] = IF j = k THEN minted + 1 ELSE requestFor[j]
        BY <1>1
      <3>2. requestFor[j] \in Nat /\ requestFor[j] <= minted
        <4>1. requestFor[j] \in Ids \cup {0}
          BY <1>1 DEF NoRequest
        <4>2. requestFor[j] <= minted
          BY DEF Inv, StoredIsMinted
        <4>3. CASE requestFor[j] \in Ids
          BY <4>2, <4>3, BoundAssumption DEF Ids
        <4>4. CASE requestFor[j] = 0
          BY <1>1, <4>4
        <4> QED
          BY <4>1, <4>3, <4>4
      <3> QED
        BY <1>1, <3>1, <3>2
    <2>2. \A i \in running : i <= minted /\ i \in Nat
      BY <1>1 DEF Inv, StoredIsMinted, StorageTypes
    <2>3. \A i \in Ids : i > minted' => reply'[i] = "none"
      BY <1>1 DEF Inv, StoredIsMinted
    <2> QED
      BY <1>1, <2>1, <2>2, <2>3 DEF StoredIsMinted
  <1>8. ASSUME NEW i \in Ids \cup {NoRequest}, Gone(i) PROVE GoneNext(i)
    <2>1. i \in Nat /\ i <= minted /\ i \notin Stored
      BY <1>1, <1>8 DEF Gone, GoneNext, NoRequest
    <2>2. i # minted + 1 /\ i <= minted'
      BY <1>1, <2>1
    <2> QED
      BY <1>3, <2>1, <2>2 DEF Gone, GoneNext
  <1>9. RunningUnanswered'
    BY <1>1, <1>3, <1>4 DEF Inv, StoredIsMinted, RunningUnanswered
  <1> QED
    BY <1>1, <1>6, <1>7, <1>8, <1>9 DEF StorageMoves

\* Whatever is deleted, the rest stays as it is; what is deleted is gone.
LEMMA Forgotten ==
    ASSUME Inv, NEW ids \in SUBSET Ids, Forget(ids), UNCHANGED <<running, minted, faults>>
    PROVE  /\ StorageMoves
           /\ \A i \in ids : i <= minted => GoneNext(i)
  <1>1. /\ requestFor \in [Identities -> Ids \cup {NoRequest}]
        /\ reply \in [Ids -> Exits \cup {"none", "Chunk"}]
        /\ unread \subseteq {i \in Stored : reply[i] \notin Exits}
        /\ minted \in Nat
    BY BoundAssumption DEF Inv, StorageTypes
  <1>2. /\ requestFor' = [k \in Identities |->
                             IF requestFor[k] \in ids THEN NoRequest ELSE requestFor[k]]
        /\ reply' = [i \in Ids |-> IF i \in ids THEN "none" ELSE reply[i]]
        /\ unread' = unread \ ids
    BY DEF Forget
  <1>3. /\ requestFor' \in [Identities -> Ids \cup {NoRequest}]
        /\ reply' \in [Ids -> Exits \cup {"none", "Chunk"}]
    BY <1>1, <1>2
  <1>4. Stored' = Stored \ ids
    <2>1. \A k \in Identities :
             requestFor'[k] = IF requestFor[k] \in ids THEN NoRequest ELSE requestFor[k]
      BY <1>2
    <2> QED
      BY <2>1 DEF Stored
  <1>5. \A i \in Ids \ ids : reply'[i] = reply[i]
    BY <1>2
  <1>6. Stored \subseteq Ids
    BY <1>1 DEF Stored
  <1>7. unread' \subseteq {i \in Stored' : reply'[i] \notin Exits}
    BY <1>1, <1>2, <1>4, <1>5, <1>6
  <1>8. StorageTypes'
    BY <1>3, <1>7 DEF Inv, StorageTypes
  <1>9. StoredIsMinted'
    <2>1. \A k \in Identities : requestFor'[k] <= minted
      BY <1>1, <1>2 DEF Inv, StoredIsMinted, NoRequest
    <2>2. \A i \in Ids : i > minted => reply'[i] = "none"
      BY <1>2 DEF Inv, StoredIsMinted
    <2> QED
      BY <2>1, <2>2 DEF Inv, StoredIsMinted
  <1>10. RunningUnanswered'
    BY <1>4, <1>5, <1>6 DEF Inv, RunningUnanswered
  <1> QED
    BY <1>1, <1>4, <1>8, <1>9, <1>10 DEF Gone, GoneNext, StorageMoves

\* Nothing happens to the storage.
LEMMA StorageKept == ASSUME Inv, UNCHANGED storage PROVE StorageMoves
  <1>1. minted \in Nat
    BY BoundAssumption DEF Inv, StorageTypes
  <1> QED
    BY <1>1 DEF Inv, storage, StorageTypes, StoredIsMinted, RunningUnanswered, Stored,
                Gone, GoneNext, StorageMoves

---------------------------------------------------------------------------
(* Steps of the calls                                                      *)

\* A call goes to a place, with an outcome, a find and what it deleted.
Moves(c, place, how, i, ids) ==
    /\ pc' = [pc EXCEPT ![c] = place]
    /\ outcome' = [outcome EXCEPT ![c] = how]
    /\ found' = [found EXCEPT ![c] = i]
    /\ victims' = [victims EXCEPT ![c] = ids]

\* A step of the storage leaves the calls' part of the invariant alone.
LEMMA CallsKept ==
    ASSUME Inv, UNCHANGED callers, StorageMoves
    PROVE  Inv'
  <1> USE DEF StorageMoves
  <1>0. \A n \in Ids \cup {NoRequest} : n <= minted => n <= minted'
    <2>1. minted \in Nat /\ minted' \in Nat /\ Ids \cup {NoRequest} \subseteq Nat
      BY BoundAssumption DEF Inv, StorageTypes, Ids, NoRequest
    <2> QED
      BY <2>1
  <1>1. CallTypes' /\ IdleIsFresh' /\ PollsAreNoReruns'
    BY DEF Inv, callers, CallTypes, IdleIsFresh, PollsAreNoReruns
  <1>2. RerunTargets'
    BY <1>0 DEF Inv, callers, CallTypes, RerunTargets
  <1>3. RerunsAreDone'
    BY DEF Inv, callers, CallTypes, RerunsAreDone, Gone, GoneNext
  <1>4. RerunSparesLaterSends' /\ RerunForgets'
    BY DEF Inv, callers, RerunSparesLaterSends, RerunForgets
  <1> QED
    BY <1>1, <1>2, <1>3, <1>4 DEF Inv

\* A call that begins: it finds something only if it is a rerun, whose find
\* is stored; it deletes something, or goes to delete it, only if the request
\* was minted.
LEMMA CallBegins ==
    ASSUME Inv, NEW c \in Calls, Begin(c), StorageMoves,
           NEW place \in {"lookup", "delete", "over"}, NEW how \in Outcomes,
           NEW i \in Stored \cup {NoRequest}, NEW ids \in SUBSET Ids,
           Moves(c, place, how, i, ids),
           place = "lookup" => Kind[c] # "rerun",
           place = "delete" => Kind[c] = "rerun" /\ i # NoRequest /\ how = "none",
           Kind[c] = "rerun" => ids = {} /\ (how = "done" => i = NoRequest)
    PROVE  Inv'
  <1> USE DEF StorageMoves, Moves
  <1>0. \A n \in Ids \cup {NoRequest} : n <= minted => n <= minted'
    <2>1. minted \in Nat /\ minted' \in Nat /\ Ids \cup {NoRequest} \subseteq Nat
      BY BoundAssumption DEF Inv, StorageTypes, Ids, NoRequest
    <2> QED
      BY <2>1
  <1>1. /\ \A d \in Calls \ {c} : /\ pc'[d] = pc[d] /\ outcome'[d] = outcome[d]
                                  /\ found'[d] = found[d] /\ victims'[d] = victims[d]
                                  /\ known'[d] = known[d] /\ revoked'[d] = revoked[d]
        /\ pc'[c] = place /\ outcome'[c] = how /\ found'[c] = i /\ victims'[c] = ids
        /\ known'[c] = 1 .. minted
    BY BeginFacts DEF Inv, CallTypes
  <1>2. i \in Ids \cup {NoRequest} /\ minted \in Nat /\ (i # NoRequest => i \in 1 .. minted)
    BY BoundAssumption DEF Inv, StorageTypes, StoredIsMinted, Stored, Ids, NoRequest
  <1>3. CallTypes'
    <2>1. /\ pc' \in [Calls -> {"idle", "lookup", "replies", "delete", "over"}]
          /\ outcome' \in [Calls -> Outcomes]
      BY DEF Inv, CallTypes
    <2>2. /\ found' \in [Calls -> Ids \cup {NoRequest}]
          /\ victims' \in [Calls -> SUBSET Ids]
      BY <1>2 DEF Inv, CallTypes
    <2> QED
      BY <2>1, <2>2, BeginFacts DEF CallTypes
  <1>4. IdleIsFresh' /\ PollsAreNoReruns'
    BY <1>1 DEF Inv, IdleIsFresh, PollsAreNoReruns
  <1>5. RerunTargets'
    <2>1. i <= minted /\ i <= minted'
      BY <1>0, <1>2 DEF NoRequest
    <2> QED
      BY <1>0, <1>1, <1>2, <2>1 DEF Inv, RerunTargets, CallTypes
  <1>6. RerunsAreDone'
    <2>1. Gone(NoRequest)
      BY <1>2 DEF Gone, GoneNext, Stored, NoRequest
    <2>2. ASSUME NEW d \in Calls, Kind[d] = "rerun", outcome'[d] = "done"
          PROVE  GoneNext(found'[d])
      <3>1. Gone(found'[d]) /\ found'[d] \in Ids \cup {NoRequest}
        BY <1>1, <1>3, <2>1, <2>2 DEF Inv, RerunsAreDone, CallTypes
      <3> QED
        BY <3>1
    <2>3. ASSUME NEW d \in Calls, NEW j \in revoked'[d] PROVE GoneNext(j)
      <3>1. Gone(j) /\ j \in Ids \cup {NoRequest}
        BY <1>1, <1>3, <2>3, BeginFacts DEF Inv, RerunsAreDone, CallTypes
      <3> QED
        BY <3>1
    <2> QED
      BY <2>2, <2>3 DEF RerunsAreDone, Gone, GoneNext
  <1>7. RerunSparesLaterSends'
    BY <1>1 DEF Inv, RerunSparesLaterSends
  <1>8. RerunForgets'
    BY <1>1, BeginFacts DEF Inv, RerunForgets, Gone, GoneNext
  <1> QED
    BY <1>3, <1>4, <1>5, <1>6, <1>7, <1>8 DEF Inv

\* A call that goes on: it finds what is stored, and ends as a rerun only
\* when what it found is gone.
LEMMA CallGoesOn ==
    ASSUME Inv, NEW c \in Calls, pc[c] \in {"lookup", "replies", "delete"},
           StorageMoves,
           UNCHANGED <<known, revoked>>,
           NEW place \in {"lookup", "replies", "over"}, NEW how \in Outcomes,
           NEW i \in Stored \cup {NoRequest, found[c]}, NEW ids \in SUBSET Ids,
           Moves(c, place, how, i, ids),
           Kind[c] = "rerun" =>
               place = "over" /\ ids \subseteq known[c] /\ (how = "done" => GoneNext(i))
    PROVE  Inv'
  <1> USE DEF StorageMoves, Moves
  <1>0. \A n \in Ids \cup {NoRequest} : n <= minted => n <= minted'
    <2>1. minted \in Nat /\ minted' \in Nat /\ Ids \cup {NoRequest} \subseteq Nat
      BY BoundAssumption DEF Inv, StorageTypes, Ids, NoRequest
    <2> QED
      BY <2>1
  <1>1. /\ \A d \in Calls \ {c} : /\ pc'[d] = pc[d] /\ outcome'[d] = outcome[d]
                                  /\ found'[d] = found[d] /\ victims'[d] = victims[d]
        /\ pc'[c] = place /\ outcome'[c] = how /\ found'[c] = i /\ victims'[c] = ids
    BY DEF Inv, CallTypes
  <1>2. i \in Ids \cup {NoRequest}
    BY DEF Inv, StorageTypes, CallTypes, Stored
  <1>3. CallTypes'
    <2>1. /\ pc' \in [Calls -> {"idle", "lookup", "replies", "delete", "over"}]
          /\ outcome' \in [Calls -> Outcomes]
      BY DEF Inv, CallTypes
    <2>2. /\ found' \in [Calls -> Ids \cup {NoRequest}]
          /\ victims' \in [Calls -> SUBSET Ids]
      BY <1>2 DEF Inv, CallTypes
    <2> QED
      BY <2>1, <2>2 DEF Inv, CallTypes
  <1>4. IdleIsFresh' /\ RerunTargets' /\ PollsAreNoReruns'
    BY <1>0, <1>1 DEF Inv, IdleIsFresh, RerunTargets, PollsAreNoReruns, CallTypes
  <1>5. RerunsAreDone'
    <2>1. ASSUME NEW d \in Calls, Kind[d] = "rerun", outcome'[d] = "done"
          PROVE  GoneNext(found'[d])
      <3>1. CASE d = c
        BY <1>1, <2>1, <3>1
      <3>2. CASE d # c
        BY <1>1, <2>1, <3>2 DEF Inv, RerunsAreDone, CallTypes
      <3> QED
        BY <3>1, <3>2
    <2>2. ASSUME NEW d \in Calls, NEW j \in revoked'[d] PROVE GoneNext(j)
      BY <2>2 DEF Inv, RerunsAreDone, CallTypes
    <2> QED
      BY <2>1, <2>2 DEF RerunsAreDone, Gone, GoneNext
  <1>6. RerunSparesLaterSends'
    BY <1>1 DEF Inv, RerunSparesLaterSends
  <1>7. RerunForgets'
    BY <1>1 DEF Inv, RerunForgets, RerunsAreDone, Gone, GoneNext
  <1> QED
    BY <1>3, <1>4, <1>5, <1>6, <1>7 DEF Inv

---------------------------------------------------------------------------
(* The actions                                                             *)

\* A send that is refused or fails stores nothing.
LEMMA SendRefused ==
    ASSUME Inv, NEW c \in Calls, Refuse(c) \/ SaveFails(c)
    PROVE  Inv'
  <1>1. /\ Begin(c) /\ UNCHANGED <<requestFor, reply, unread, running, minted>>
        /\ faults' \in 0 .. MaxFaults
        /\ UNCHANGED <<found, victims>>
        /\ Kind[c] # "rerun"
    BY BoundAssumption DEF Refuse, SaveFails, Inv, StorageTypes, storage, Sends
  <1>2. StorageMoves
    <2>1. minted \in Nat
      BY BoundAssumption DEF Inv, StorageTypes
    <2> QED
      BY <1>1, <2>1 DEF Inv, StorageTypes, StoredIsMinted, RunningUnanswered, Stored,
                        Gone, GoneNext, StorageMoves
  <1>4. found' = [found EXCEPT ![c] = NoRequest] /\ victims' = [victims EXCEPT ![c] = {}]
    BY <1>1, BeginFacts DEF Inv, CallTypes
  <1>5. PICK how \in Outcomes : outcome' = [outcome EXCEPT ![c] = how]
    BY DEF Refuse, SaveFails, End, Outcomes
  <1>6. pc' = [pc EXCEPT ![c] = "over"]
    BY DEF Refuse, SaveFails, End, Goto
  <1>7. Moves(c, "over", how, NoRequest, {})
    BY <1>4, <1>5, <1>6 DEF Moves
  <1> QED
    BY <1>1, <1>2, <1>7, CallBegins

\* A send that is accepted stores one request or, as a duplicate, none.
LEMMA SendAccepted ==
    ASSUME Inv, NEW c \in Calls, Save(c) \/ SaveDuplicate(c)
    PROVE  Inv'
  <1>1. /\ Begin(c) /\ Kind[c] # "rerun" /\ Of[c] \in Identities
        /\ UNCHANGED <<found, victims>>
        /\ minted < MaxRequests /\ minted' = minted + 1
    BY CallAssumption DEF Save, SaveDuplicate, Sends
  <1>2. StorageMoves
    <2>1. CASE Save(c)
      BY <1>1, <2>1, Saved DEF Save
    <2>2. CASE SaveDuplicate(c)
      <3>1. UNCHANGED <<requestFor, reply, unread, running, faults>> /\ minted \in Nat
        BY <2>2, BoundAssumption DEF SaveDuplicate, Inv, StorageTypes
      <3>2. Stored' = Stored /\ minted' \in 0 .. MaxRequests
        BY <1>1, <3>1, BoundAssumption DEF Stored
      <3>3. StorageTypes'
        BY <3>1, <3>2 DEF Inv, StorageTypes
      <3>4. \A n \in Ids \cup {NoRequest} : n <= minted => n <= minted'
        BY <1>1, <3>1 DEF Ids, NoRequest
      <3>5. StoredIsMinted'
        <4>1. \A k \in Identities : requestFor'[k] <= minted'
          BY <3>1, <3>4 DEF Inv, StorageTypes, StoredIsMinted
        <4>2. \A i \in running' : i <= minted'
          BY <3>1, <3>4 DEF Inv, StorageTypes, StoredIsMinted
        <4>3. \A i \in Ids : i > minted' => reply'[i] = "none"
          <5>1. \A i \in Ids : i > minted' => i > minted
            BY <1>1, <3>1 DEF Ids
          <5> QED
            BY <3>1, <5>1 DEF Inv, StoredIsMinted
        <4> QED
          BY <4>1, <4>2, <4>3 DEF StoredIsMinted
      <3>6. RunningUnanswered'
        BY <3>1, <3>2 DEF Inv, RunningUnanswered
      <3>7. minted <= minted'
        BY <1>1, <3>1
      <3> QED
        BY <3>2, <3>3, <3>4, <3>5, <3>6, <3>7 DEF Gone, GoneNext, StorageMoves
    <2> QED
      BY <2>1, <2>2
  <1>3. found' = [found EXCEPT ![c] = NoRequest] /\ victims' = [victims EXCEPT ![c] = {}]
    BY <1>1, BeginFacts DEF Inv, CallTypes
  <1>4. PICK how \in Outcomes, place \in {"lookup", "over"} :
            outcome' = [outcome EXCEPT ![c] = how] /\ pc' = [pc EXCEPT ![c] = place]
    <2>1. outcome[c] = "none" /\ outcome = [outcome EXCEPT ![c] = "none"]
      BY <1>1, BeginFacts DEF Inv, CallTypes
    <2>2. \/ outcome' = [outcome EXCEPT ![c] = "sent"] /\ pc' = [pc EXCEPT ![c] = "over"]
          \/ outcome' = outcome /\ pc' = [pc EXCEPT ![c] = "lookup"]
      BY DEF Save, SaveDuplicate, End, Goto
    <2>3. {"sent", "none"} \subseteq Outcomes
      BY DEF Outcomes
    <2> QED
      BY <2>1, <2>2, <2>3
  <1>5. Moves(c, place, how, NoRequest, {})
    BY <1>3, <1>4 DEF Moves
  <1> QED
    BY <1>1, <1>2, <1>5, CallBegins

\* The operators' steps that begin a call.
LEMMA OperatorBegins ==
    ASSUME Inv, NEW c \in Calls, Observe(c) \/ RerunLookup(c) \/ Flush(c) \/ Redeliver(c)
    PROVE  Inv'
  <1>1. /\ Begin(c) /\ pc[c] = "idle" /\ {"done", "none"} \subseteq Outcomes
        /\ outcome = [outcome EXCEPT ![c] = "none"]
        /\ found = [found EXCEPT ![c] = NoRequest]
        /\ victims = [victims EXCEPT ![c] = {}]
    BY BeginFacts DEF Observe, RerunLookup, Flush, Redeliver, Inv, CallTypes, Outcomes
  <1>2. Of[c] \in Identities
    BY CallAssumption
  <1>3. CASE Observe(c) \/ RerunLookup(c)
    <2>1. UNCHANGED storage
      BY <1>3 DEF Observe, RerunLookup
    <2>2. StorageMoves
      BY <2>1, StorageKept
    <2>3. CASE Observe(c)
      <3>1. /\ Kind[c] # "rerun"
            /\ pc' = [pc EXCEPT ![c] = "lookup"]
            /\ outcome' = outcome /\ found' = found /\ victims' = victims
        BY <2>3 DEF Observe, Observers, Goto
      <3>2. Moves(c, "lookup", "none", NoRequest, {})
        BY <1>1, <3>1 DEF Moves
      <3> QED
        BY <1>1, <2>2, <3>1, <3>2, CallBegins
    <2>4. CASE RerunLookup(c)
      <3>1. /\ found' = [found EXCEPT ![c] = requestFor[Of[c]]]
            /\ requestFor[Of[c]] \in Stored \cup {NoRequest}
            /\ victims' = victims /\ Kind[c] = "rerun"
        BY <1>2, <2>4 DEF RerunLookup, Stored
      <3>2. CASE requestFor[Of[c]] = NoRequest
        <4>1. pc' = [pc EXCEPT ![c] = "over"] /\ outcome' = [outcome EXCEPT ![c] = "done"]
          BY <2>4, <3>2 DEF RerunLookup, End, Goto
        <4>2. Moves(c, "over", "done", NoRequest, {})
          BY <1>1, <3>1, <3>2, <4>1 DEF Moves
        <4> QED
          BY <1>1, <2>2, <4>2, CallBegins
      <3>3. CASE requestFor[Of[c]] # NoRequest
        <4>1. pc' = [pc EXCEPT ![c] = "delete"] /\ outcome' = outcome
          BY <2>4, <3>3 DEF RerunLookup, Goto
        <4>2. Moves(c, "delete", "none", requestFor[Of[c]], {})
          BY <1>1, <3>1, <4>1 DEF Moves
        <4> QED
          BY <1>1, <2>2, <3>1, <3>3, <4>2, CallBegins
      <3> QED
        BY <3>2, <3>3
    <2> QED
      BY <1>3, <2>3, <2>4
  <1>4. CASE Flush(c)
    <2>1. Stored \in SUBSET Ids
      BY DEF Inv, StorageTypes, Stored
    <2>2. /\ Forget(Stored) /\ UNCHANGED <<running, minted, faults, found>>
          /\ victims' = [victims EXCEPT ![c] = Stored]
          /\ pc' = [pc EXCEPT ![c] = "over"] /\ outcome' = [outcome EXCEPT ![c] = "done"]
          /\ Kind[c] # "rerun"
      BY <1>4 DEF Flush, End, Goto
    <2>3. StorageMoves
      BY <2>1, <2>2, Forgotten
    <2>4. Moves(c, "over", "done", NoRequest, Stored)
      BY <1>1, <2>2 DEF Moves
    <2> QED
      BY <1>1, <2>1, <2>2, <2>3, <2>4, CallBegins
  <1>5. CASE Redeliver(c)
    <2>1. /\ unread' = unread \cup {i \in Stored : reply[i] \notin Exits}
          /\ UNCHANGED <<requestFor, reply, running, minted, faults, found, victims>>
          /\ pc' = [pc EXCEPT ![c] = "over"] /\ outcome' = [outcome EXCEPT ![c] = "done"]
          /\ Kind[c] # "rerun"
      BY <1>5 DEF Redeliver, End, Goto
    <2>2. StorageMoves
      <3>1. minted \in Nat
        BY BoundAssumption DEF Inv, StorageTypes
      <3> QED
        BY <2>1, <3>1 DEF Inv, StorageTypes, StoredIsMinted, RunningUnanswered, Stored,
                          Gone, GoneNext, StorageMoves
    <2>3. Moves(c, "over", "done", NoRequest, {})
      BY <1>1, <2>1 DEF Moves
    <2> QED
      BY <1>1, <2>1, <2>2, <2>3, CallBegins
  <1> QED
    BY <1>3, <1>4, <1>5

\* The polls, and what ends them.
LEMMA PollStep ==
    ASSUME Inv, NEW c \in Calls, Poll(c) \/ ScheduleEnds(c) \/ Timeout(c)
    PROVE  Inv'
  <1>1. /\ pc[c] \in {"lookup", "replies"} /\ UNCHANGED storage
        /\ UNCHANGED <<known, revoked, victims>>
    BY DEF Poll, Lookup, Report, PollAgain, ScheduleEnds, Timeout
  <1>2. StorageMoves
    BY <1>1, StorageKept
  <1>3. /\ outcome = [outcome EXCEPT ![c] = outcome[c]] /\ outcome[c] \in Outcomes
        /\ found = [found EXCEPT ![c] = found[c]]
        /\ victims = [victims EXCEPT ![c] = victims[c]]
        /\ victims[c] \in SUBSET Ids
    BY DEF Inv, CallTypes
  <1>4. Kind[c] # "rerun"
    BY <1>1 DEF Inv, PollsAreNoReruns
  <1>5. CASE Lookup(c)
    <2>1. /\ found' = [found EXCEPT ![c] = requestFor[Of[c]]]
          /\ requestFor[Of[c]] \in Stored \cup {NoRequest}
          /\ pc' = [pc EXCEPT ![c] = "replies"] /\ outcome' = outcome
      BY <1>5, CallAssumption DEF Lookup, Stored, Goto
    <2>2. Moves(c, "replies", outcome[c], requestFor[Of[c]], victims[c])
      BY <1>1, <1>3, <2>1 DEF Moves
    <2> QED
      BY <1>1, <1>2, <1>3, <1>4, <2>1, <2>2, CallGoesOn
  <1>6. CASE PollAgain(c)
    <2>1. pc' = [pc EXCEPT ![c] = "lookup"] /\ outcome' = outcome /\ found' = found
      BY <1>6 DEF PollAgain, Goto
    <2>2. Moves(c, "lookup", outcome[c], found[c], victims[c])
      BY <1>1, <1>3, <2>1 DEF Moves
    <2> QED
      BY <1>1, <1>2, <1>3, <1>4, <2>2, CallGoesOn
  <1>7. CASE Report(c) \/ ScheduleEnds(c) \/ Timeout(c)
    <2>1. PICK how \in Outcomes \ {"done"} : outcome' = [outcome EXCEPT ![c] = how]
      BY <1>7, ExitAssumption DEF Report, Result, ScheduleEnds, Timeout, End, Outcomes
    <2>2. pc' = [pc EXCEPT ![c] = "over"] /\ found' = found
      BY <1>7 DEF Report, ScheduleEnds, Timeout, End, Goto
    <2>3. Moves(c, "over", how, found[c], victims[c])
      BY <1>1, <1>3, <2>1, <2>2 DEF Moves
    <2> QED
      BY <1>1, <1>2, <1>3, <1>4, <2>1, <2>3, CallGoesOn
  <1> QED
    BY <1>5, <1>6, <1>7 DEF Poll

\* The second step of rerun: what it found is gone.
LEMMA DeleteStep == ASSUME Inv, NEW c \in Calls, Delete(c) PROVE Inv'
  <1>1. /\ pc[c] = "delete" /\ Kind[c] = "rerun" /\ found[c] \in known[c]
        /\ known[c] \subseteq Ids
    BY DEF Delete, Inv, RerunTargets, CallTypes
  <1>2. /\ Forget({found[c]}) /\ UNCHANGED <<running, minted, faults, found, known, revoked>>
        /\ victims' = [victims EXCEPT ![c] = {found[c]}]
        /\ pc' = [pc EXCEPT ![c] = "over"] /\ outcome' = [outcome EXCEPT ![c] = "done"]
    BY DEF Delete, End, Goto
  <1>3. found[c] <= minted
    BY <1>1 DEF Delete, Inv, RerunTargets
  <1>4. StorageMoves
    BY <1>1, <1>2, Forgotten
  <1>5. GoneNext(found[c])
    BY <1>1, <1>2, <1>3, Forgotten
  <1>6. found = [found EXCEPT ![c] = found[c]] /\ "done" \in Outcomes
    BY DEF Inv, CallTypes, Outcomes
  <1>7. Moves(c, "over", "done", found[c], {found[c]})
    BY <1>2, <1>6 DEF Moves
  <1> QED
    BY <1>1, <1>2, <1>4, <1>5, <1>6, <1>7, CallGoesOn

\* The consumer's steps.
LEMMA ConsumerStep ==
    ASSUME Inv,
           \/ \E i \in Ids : Take(i) \/ Chunk(i) \/ \E exit \in Exits : Reply(i, exit)
           \/ ConsumerCrash
    PROVE  Inv'
  <1>1. UNCHANGED <<requestFor, minted, callers>> /\ Stored' = Stored
    BY DEF Take, Chunk, Reply, ConsumerCrash, Stored
  <1>2. \A i \in Stored \cap Ids : i <= minted
    BY DEF Inv, StoredIsMinted, Stored
  <1>3. StorageTypes' /\ StoredIsMinted' /\ RunningUnanswered'
    <2>1. ASSUME NEW i \in Ids, Take(i)
          PROVE  StorageTypes' /\ StoredIsMinted' /\ RunningUnanswered'
      <3>1. i \in Stored /\ reply[i] \notin Exits
        BY <2>1 DEF Take, Inv, StorageTypes
      <3>2. StorageTypes' /\ StoredIsMinted'
        BY <1>1, <1>2, <2>1, <3>1 DEF Take, Inv, StorageTypes, StoredIsMinted
      <3>3. RunningUnanswered'
        BY <1>1, <2>1, <3>1 DEF Take, Inv, RunningUnanswered
      <3> QED
        BY <3>2, <3>3
    <2>2. ASSUME NEW i \in Ids, Chunk(i)
          PROVE  StorageTypes' /\ StoredIsMinted' /\ RunningUnanswered'
      <3>1. "Chunk" \notin Exits /\ i <= minted /\ minted \in Nat
        BY <2>2, ExitAssumption, BoundAssumption DEF Chunk, Inv, StoredIsMinted, StorageTypes
      <3>2. StorageTypes'
        BY <1>1, <2>2, <3>1 DEF Chunk, Inv, StorageTypes
      <3>3. StoredIsMinted'
        BY <1>1, <2>2, <3>1 DEF Chunk, Inv, StorageTypes, StoredIsMinted, Ids
      <3>4. RunningUnanswered'
        BY <1>1, <2>2, <3>1 DEF Chunk, Inv, StorageTypes, RunningUnanswered
      <3> QED
        BY <3>2, <3>3, <3>4
    <2>3. ASSUME NEW i \in Ids, NEW exit \in Exits, Reply(i, exit)
          PROVE  StorageTypes' /\ StoredIsMinted' /\ RunningUnanswered'
      <3>1. i <= minted /\ minted \in Nat
        BY <2>3, BoundAssumption DEF Reply, Inv, StoredIsMinted, StorageTypes
      <3>2. reply' \in [Ids -> Exits \cup {"none", "Chunk"}]
        BY <2>3 DEF Reply, Inv, StorageTypes
      <3>3. \A j \in Ids \ {i} : reply'[j] = reply[j]
        BY <2>3 DEF Reply, Inv, StorageTypes
      <3>4. StorageTypes'
        BY <1>1, <2>3, <3>2, <3>3 DEF Reply, Inv, StorageTypes
      <3>5. StoredIsMinted'
        <4>1. \A j \in Ids : j > minted => j # i
          BY <3>1 DEF Ids
        <4> QED
          BY <1>1, <2>3, <3>3, <4>1 DEF Reply, Inv, StorageTypes, StoredIsMinted
      <3>6. RunningUnanswered'
        BY <1>1, <2>3, <3>3 DEF Reply, Inv, StorageTypes, RunningUnanswered
      <3> QED
        BY <3>4, <3>5, <3>6
    <2>4. CASE ConsumerCrash
      <3>1. faults' \in 0 .. MaxFaults
        BY <2>4, BoundAssumption DEF ConsumerCrash, Inv, StorageTypes
      <3> QED
        BY <1>1, <2>4, <3>1
        DEF ConsumerCrash, Inv, StorageTypes, StoredIsMinted, RunningUnanswered
    <2> QED
      BY <2>1, <2>2, <2>3, <2>4
  <1>4. StorageMoves
    <2>1. minted \in Nat
      BY BoundAssumption DEF Inv, StorageTypes
    <2> QED
      BY <1>1, <1>3, <2>1 DEF Gone, GoneNext, StorageMoves
  <1> QED
    BY <1>1, <1>4, CallsKept

---------------------------------------------------------------------------
\* The invariant is inductive.
LEMMA ClientNext == Inv /\ [Next]_vars => Inv'
  <1> SUFFICES ASSUME Inv, [Next]_vars PROVE Inv'
    OBVIOUS
  <1>1. CASE Next
    BY <1>1, SendRefused, SendAccepted, OperatorBegins, PollStep, DeleteStep, ConsumerStep
    DEF Next
  <1>2. CASE UNCHANGED vars
    <2>1. UNCHANGED storage /\ UNCHANGED callers
      BY <1>2 DEF vars
    <2>2. StorageMoves
      BY <2>1, StorageKept
    <2> QED
      BY <2>1, <2>2, CallsKept
  <1> QED
    BY <1>1, <1>2

\* In every reachable state ids are minted once and reruns have deleted what
\* they found.
THEOREM ClientInvariance == Spec => []Inv
  BY ClientInit, ClientNext, PTL DEF Spec

\* Type correctness: what is to be read is stored and not answered.
THEOREM ClientTypeCorrect == Spec => []TypeOK
  <1>1. Inv => TypeOK
    BY DEF Inv, StorageTypes, CallTypes, TypeOK
  <1> QED
    BY <1>1, ClientInvariance, PTL

\* A rerun deletes nothing that was sent after it began.
THEOREM RerunDeletesWhatItFound == Spec => []RerunSparesLaterSends
  <1>1. Inv => RerunSparesLaterSends
    BY DEF Inv
  <1> QED
    BY <1>1, ClientInvariance, PTL

\* After a rerun has returned, nobody finds what it deleted.
THEOREM RerunDeletesForGood == Spec => []RerunForgets
  <1>1. Inv => RerunForgets
    BY DEF Inv
  <1> QED
    BY <1>1, ClientInvariance, PTL

=============================================================================
