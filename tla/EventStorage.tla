---------------------------- MODULE EventStorage ----------------------------
(***************************************************************************)
(* The event storage of src/server/events_storage.c with its stack of      *)
(* src/common/stack.c: a game's events, one behind the other in one block  *)
(* of memory that doubles when it is full.  An event is its length; memory *)
(* may run out whenever it is asked for.                                   *)
(***************************************************************************)
EXTENDS Integers, Sequences

CONSTANTS
    EventLen,         \* the lengths serialize_game_event can return
    DefaultBlockSize, \* DEFAULT_BLOCK_SIZE
    InitialCapacity,  \* INITIAL_CAPACITY of the stack
    MaxPushed         \* bound: events in a storage

ASSUME StorageAssumption ==
    /\ EventLen \subseteq Nat \ {0}
    /\ {DefaultBlockSize, InitialCapacity, MaxPushed} \subseteq Nat \ {0}

VARIABLES
    block_size,     \* bytes written
    block_capacity, \* bytes allocated
    events,         \* the stack: where each event is in the block
    capacity,       \* entries allocated for the stack
    aborted         \* an assertion has failed and ended the server

vars == <<block_size, block_capacity, events, capacity, aborted>>

stack_create == events = <<>> /\ capacity = InitialCapacity

event_storage_create ==
    /\ block_size = 0 /\ block_capacity = DefaultBlockSize
    /\ stack_create

Init == event_storage_create /\ aborted = FALSE

-----------------------------------------------------------------------------

\* (mutant) The block grows only when the event does not fit at all.
Grown_WhenOver(len) ==
    IF block_size + len > block_capacity THEN 2 * block_capacity ELSE block_capacity

\* The block doubles once, whatever is pushed.
Grown(len) ==
    IF block_size + len >= block_capacity THEN 2 * block_capacity ELSE block_capacity

\* (mutant) The stack grows one event too late.
IsStackFull_Late == Len(events) > capacity

IsStackFull == Len(events) = capacity

stack_push(s_event) ==
    /\ events' = Append(events, s_event)
    /\ capacity' = IF IsStackFull THEN 2 * capacity ELSE capacity

\* (mutant) The bytes count before the stack has taken the event.
LoseEvent_Counted(len) ==
    /\ IsStackFull
    /\ block_size' = block_size + len
    /\ UNCHANGED <<events, capacity>>

\* The stack finds no memory: the bytes are there, and do not count.
LoseEvent(len) ==
    /\ IsStackFull
    /\ UNCHANGED <<block_size, events, capacity>>

\* assert, once the block has grown.
Fits(len) == block_size + len < Grown(len)

\* event_storage_push; when the block finds no memory it does nothing.
event_storage_push(len) ==
    /\ ~aborted /\ Len(events) < MaxPushed
    /\ block_capacity' = Grown(len)
    /\ \/ /\ Fits(len)
          /\ stack_push([offset |-> block_size, len |-> len])
          /\ block_size' = block_size + len
          /\ UNCHANGED aborted
       \/ Fits(len) /\ LoseEvent(len) /\ UNCHANGED aborted
       \/ ~Fits(len) /\ aborted' = TRUE /\ UNCHANGED <<block_size, events, capacity>>

\* handle_round, when a game starts: event_storage_free and another storage.
init_event_storage ==
    /\ ~aborted /\ UNCHANGED aborted
    /\ block_size' = 0 /\ block_capacity' = DefaultBlockSize
    /\ events' = <<>> /\ capacity' = InitialCapacity

Next == init_event_storage \/ \E len \in EventLen : event_storage_push(len)

Spec == Init /\ [][Next]_vars

-----------------------------------------------------------------------------
(* Properties *)

\* Every variable holds a value of its C type, and the stack has room for what
\* it holds.
StorageTypeOK ==
    /\ block_size \in Nat /\ block_capacity \in Nat
    /\ events \in Seq([offset : Nat, len : EventLen])
    /\ capacity \in Nat /\ Len(events) <= capacity
    /\ aborted \in BOOLEAN

End(k) == IF k = 0 THEN 0 ELSE events[k].offset + events[k].len

\* The events lie in the block in their order and without a gap, so that
\* send_events may copy any run of them at once, and a push that failed half
\* way has left nothing behind.
EventsAreContiguous ==
    /\ \A k \in DOMAIN events : events[k].offset = End(k - 1)
    /\ block_size = End(Len(events))

\* The assertion of event_storage_push:
\* "assert(storage->block_size + event_size < storage->block_capacity)".
AssertionHolds == ~aborted
=============================================================================
