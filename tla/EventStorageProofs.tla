------------------------- MODULE EventStorageProofs -------------------------
(***************************************************************************)
(* What holds of the event storage for events of any length and for any    *)
(* initial capacities.                                                     *)
(***************************************************************************)
EXTENDS EventStorage, TLAPS

\* The inductive invariant: what has been written ends before the end of the
\* block, which never shrinks below its first size, and the stack can double.
Room ==
    /\ block_size < block_capacity /\ DefaultBlockSize <= block_capacity
    /\ 0 < capacity

StorageInv == StorageTypeOK /\ EventsAreContiguous /\ Room

\* DEFAULT_BLOCK_SIZE and INITIAL_CAPACITY are positive numbers.
LEMMA PositiveConstants ==
    /\ DefaultBlockSize \in Nat /\ 0 < DefaultBlockSize
    /\ InitialCapacity \in Nat /\ 0 < InitialCapacity
<1>1. DefaultBlockSize \in Nat \ {0} /\ InitialCapacity \in Nat \ {0}
    BY StorageAssumption DEF StorageAssumption
<1> QED BY <1>1

\* A new storage is empty and has room.
LEMMA StorageInit == Init => StorageInv
<1>1. ASSUME Init PROVE StorageTypeOK /\ Room
    <2>1. /\ block_size = 0 /\ block_capacity = DefaultBlockSize
          /\ events = <<>> /\ capacity = InitialCapacity /\ aborted = FALSE
        BY <1>1 DEF Init, event_storage_create, stack_create
    <2>2. events \in Seq([offset : Nat, len : EventLen]) /\ Len(events) = 0
        BY <2>1
    <2>3. aborted \in BOOLEAN
        BY <2>1
    <2>4. /\ block_size \in Nat /\ block_capacity \in Nat
          /\ capacity \in Nat /\ Len(events) <= capacity
        BY <2>1, <2>2, PositiveConstants
    <2>5. Room
        BY <2>1, PositiveConstants DEF Room
    <2> QED BY <2>2, <2>3, <2>4, <2>5 DEF StorageTypeOK
<1>2. ASSUME Init PROVE EventsAreContiguous
    BY <1>2 DEF Init, event_storage_create, stack_create, EventsAreContiguous, End
<1> QED BY <1>1, <1>2 DEF StorageInv

\* A push keeps the invariant: both when the event goes in and when the stack
\* finds no memory for it.
LEMMA StoragePush ==
    ASSUME StorageInv, NEW len \in EventLen, event_storage_push(len)
    PROVE  StorageInv'
<1> USE StorageAssumption DEF StorageInv, StorageTypeOK, Room
<1>1. /\ len \in Nat \ {0} /\ Grown(len) \in Nat
      /\ block_capacity <= Grown(len) /\ block_size < Grown(len)
    BY DEF Grown
<1>2. CASE Fits(len) /\ stack_push([offset |-> block_size, len |-> len])
               /\ block_size' = block_size + len /\ UNCHANGED aborted
    <2> DEFINE e == [offset |-> block_size, len |-> len]
    <2>1. /\ events' = Append(events, e) /\ e \in [offset : Nat, len : EventLen]
          /\ capacity' = IF IsStackFull THEN 2 * capacity ELSE capacity
          /\ block_capacity' = Grown(len)
        BY <1>2 DEF stack_push, event_storage_push
    <2>2. /\ events' \in Seq([offset : Nat, len : EventLen])
          /\ Len(events') = Len(events) + 1
          /\ events'[Len(events) + 1] = e
          /\ \A k \in 1 .. Len(events) : events'[k] = events[k]
        BY <2>1
    <2>3. Len(events') <= capacity' /\ capacity' \in Nat
        BY <2>1, <2>2 DEF IsStackFull
    <2>4. StorageTypeOK' /\ Room'
        BY <1>1, <1>2, <2>1, <2>2, <2>3 DEF Fits
    <2>5. block_size' = End(Len(events))' /\ block_size = End(Len(events))
        BY <1>1, <1>2, <2>2 DEF End, EventsAreContiguous
    <2>6. ASSUME NEW k \in 1 .. Len(events)
          PROVE  events'[k].offset = End(k - 1)'
        <3>1. End(k - 1)' = End(k - 1)
            <4>1. CASE k = 1
                BY <4>1 DEF End
            <4>2. CASE k # 1
                <5>1. k - 1 \in 1 .. Len(events) /\ k - 1 # 0
                    BY <4>2
                <5>2. events'[k - 1] = events[k - 1]
                    BY <2>2, <5>1
                <5> QED BY <5>1, <5>2 DEF End
            <4> QED BY <4>1, <4>2
        <3>2. events[k].offset = End(k - 1)
            BY DEF EventsAreContiguous
        <3> QED BY <2>2, <3>1, <3>2
    <2>7. events'[Len(events) + 1].offset = End(Len(events))
        BY <2>2, <2>5
    <2>8. ASSUME NEW k \in DOMAIN events'
          PROVE  events'[k].offset = End(k - 1)'
        <3>1. CASE k = Len(events) + 1
            BY <2>2, <2>7, <3>1 DEF End
        <3>2. CASE k \in 1 .. Len(events)
            BY <2>6, <3>2
        <3> QED BY <2>2, <3>1, <3>2
    <2> QED BY <2>4, <2>5, <2>8 DEF EventsAreContiguous
<1>3. CASE Fits(len) /\ LoseEvent(len) /\ UNCHANGED aborted
    BY <1>1, <1>3 DEF event_storage_push, LoseEvent, EventsAreContiguous, End
<1>4. CASE ~Fits(len) /\ aborted' = TRUE /\ UNCHANGED <<block_size, events, capacity>>
    BY <1>1, <1>4 DEF event_storage_push, EventsAreContiguous, End
<1> QED BY <1>2, <1>3, <1>4 DEF event_storage_push

\* Every step keeps the invariant.
LEMMA StorageNext == StorageInv /\ [Next]_vars => StorageInv'
<1> SUFFICES ASSUME StorageInv, [Next]_vars PROVE StorageInv'
    OBVIOUS
<1>1. CASE init_event_storage
    <2>1. StorageTypeOK' /\ Room'
        BY <1>1, PositiveConstants DEF init_event_storage, StorageInv, StorageTypeOK, Room
    <2>2. EventsAreContiguous'
        BY <1>1 DEF init_event_storage, EventsAreContiguous, End
    <2> QED BY <2>1, <2>2 DEF StorageInv
<1>2. CASE \E len \in EventLen : event_storage_push(len)
    BY <1>2, StoragePush
<1>3. CASE UNCHANGED vars
    BY <1>3 DEF vars, StorageInv, StorageTypeOK, EventsAreContiguous, Room, End
<1> QED BY <1>1, <1>2, <1>3 DEF Next

\* The invariant holds in every state.
THEOREM StorageInvariant == Spec => []StorageInv
BY StorageInit, StorageNext, PTL DEF Spec

\* The storage never writes behind its block or its stack.
THEOREM StorageTypeCorrect == Spec => []StorageTypeOK
<1>1. StorageInv => StorageTypeOK
    BY DEF StorageInv
<1> QED BY <1>1, StorageInvariant, PTL

\* The events lie one behind the other, whatever fails: send_events may copy
\* any run of them at once.
THEOREM Contiguous == Spec => []EventsAreContiguous
<1>1. StorageInv => EventsAreContiguous
    BY DEF StorageInv
<1> QED BY <1>1, StorageInvariant, PTL

\* As long as no event is longer than the first block, doubling the block once
\* is enough and the assertion of event_storage_push holds.
THEOREM DoublingOnceIsEnough ==
    ASSUME \A len \in EventLen : len <= DefaultBlockSize
    PROVE  Spec => []AssertionHolds
<1>1. Init => AssertionHolds
    BY DEF Init, AssertionHolds
<1>2. StorageInv /\ AssertionHolds /\ [Next]_vars => AssertionHolds'
    <2> SUFFICES ASSUME StorageInv, AssertionHolds, [Next]_vars PROVE AssertionHolds'
        OBVIOUS
    <2>1. ASSUME NEW len \in EventLen PROVE Fits(len)
        BY StorageAssumption DEF StorageInv, StorageTypeOK, Room, Fits, Grown
    <2>2. CASE init_event_storage
        BY <2>2 DEF init_event_storage, AssertionHolds
    <2>3. CASE \E len \in EventLen : event_storage_push(len)
        BY <2>1, <2>3 DEF event_storage_push, AssertionHolds
    <2>4. CASE UNCHANGED vars
        BY <2>4 DEF vars, AssertionHolds
    <2> QED BY <2>2, <2>3, <2>4 DEF Next
<1> QED BY <1>1, <1>2, StorageInvariant, PTL DEF Spec
=============================================================================
