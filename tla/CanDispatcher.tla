--------------------------- MODULE CanDispatcher ---------------------------
(***************************************************************************)
(* The CAN dispatcher, C_CanDispatcher: the protocol instances of a process *)
(* share one CAN driver.  Each registers as a client with a filter and a    *)
(* queue and is given a handle; any thread that wants to receive calls       *)
(* DispatchIncoming(), which reads the driver and places a message in the    *)
(* queue of every client whose filter it passes.                            *)
(*                                                                         *)
(* Clients are registered and removed while no other thread uses the         *)
(* dispatcher, as the applications of the core do: before their threads are  *)
(* started and after they have ended.  Filters are changed at any time.      *)
(***************************************************************************)
EXTENDS Naturals, SequencesExt

CONSTANTS
    Threads,
    Users,          \* protocol instances that use the dispatcher
    Identifiers,    \* CAN identifiers
    Filters,        \* the filters in use, each the set of identifiers that pass
    NoHandle, Nobody, NoMessage,
    MaxSize,        \* mu32_MaxSize of the queues
    MaxMessages,    \* bound on messages on the bus
    MaxRegister,    \* bound on registrations
    MaxSetFilter,   \* bound on changes of a filter
    MaxClear        \* bound on calls of ClearQueue

ASSUME UserAssumption ==
    /\ NoHandle \notin Nat
    /\ Nobody \notin Threads
    /\ \A f \in Filters : f \subseteq Identifiers

ASSUME BoundAssumption ==
    {MaxSize, MaxMessages, MaxRegister, MaxSetFilter, MaxClear} \subseteq Nat

VARIABLES
    bus,        \* messages in the CAN driver, not read yet
    installed,  \* mc_InstalledClients
    byHandle,   \* mc_ClientsByHandle: position in installed, 0 for NULL
    handle,     \* the handle a user holds
    lock,       \* mc_CriticalSection
    at,         \* where a thread is in DispatchIncoming()
    message,    \* the message it has read
    index,      \* the client it comes to next
    read,       \* history: messages read from the driver
    got,        \* history: messages a user has read or cleared
    lost,       \* history: messages a user's full queue has refused
    since,      \* history: length of read when the user's filter was set
    used        \* how much of each bound is used up

vars == <<bus, installed, byHandle, handle, lock, at, message, index, read, got, lost,
          since, used>>

calls == <<lock, at, message, index>>

Messages == [nr : 1 .. MaxMessages, id : Identifiers]

Init ==
    /\ bus = <<>>
    /\ installed = <<>>
    /\ byHandle = <<>>
    /\ handle = [u \in Users |-> NoHandle]
    /\ lock = Nobody
    /\ at = [t \in Threads |-> "idle"]
    /\ message = [t \in Threads |-> NoMessage]
    /\ index = [t \in Threads |-> 0]
    /\ read = <<>>
    /\ got = [u \in Users |-> <<>>]
    /\ lost = [u \in Users |-> {}]
    /\ since = [u \in Users |-> 0]
    /\ used = [message |-> 0, register |-> 0, filter |-> 0, clear |-> 0]

-----------------------------------------------------------------------------
(* Clients and handles.                                                     *)

\* The client of a handle; 0 where RemoveClient, ReadFromQueue and the others
\* refuse the handle.
ClientOf(h) == IF h < Len(byHandle) THEN byHandle[h + 1] ELSE 0

Handles(clients) == {clients[i].handle : i \in DOMAIN clients}

\* m_ResyncShortcutPointers: as many pointers as the greatest handle needs.
ResyncShortcutPointers(clients) ==
    IF clients = <<>>
    THEN <<>>
    ELSE [h \in 1 .. Max(Handles(clients)) + 1 |->
             IF h - 1 \in Handles(clients)
             THEN CHOOSE i \in DOMAIN clients : clients[i].handle = h - 1
             ELSE 0]

\* The first handle without a client, or a new one.
FreeHandle ==
    LET free == {h \in 1 .. Len(byHandle) : byHandle[h] = 0}
    IN  IF free # {} THEN Min(free) - 1 ELSE Len(byHandle)

\* No thread is in a call of the dispatcher.
Unused == \A t \in Threads : at[t] = "idle"

RegisterClient(u, filter) ==
    /\ Unused
    /\ handle[u] = NoHandle
    /\ used.register < MaxRegister
    /\ used' = [used EXCEPT !.register = @ + 1]
    /\ installed' =
          Append(installed, [user |-> u, filter |-> filter, queue |-> <<>>, handle |-> FreeHandle])
    /\ byHandle' = ResyncShortcutPointers(installed')
    /\ handle' = [handle EXCEPT ![u] = FreeHandle]
    /\ since' = [since EXCEPT ![u] = Len(read)]
    /\ UNCHANGED <<bus, calls, read, got, lost>>

\* Variant: the handle is taken for the position.
RemoveAtHandle(h) ==
    /\ installed' = IF h + 1 \in DOMAIN installed THEN RemoveAt(installed, h + 1) ELSE installed
    /\ byHandle' = ResyncShortcutPointers(installed')

RemoveAtPosition(h) ==
    /\ installed' = RemoveAt(installed, ClientOf(h))
    /\ byHandle' = ResyncShortcutPointers(installed')

\* The user forgets its handle.
RemoveClient(u) ==
    /\ Unused
    /\ handle[u] # NoHandle
    /\ ClientOf(handle[u]) # 0
    /\ RemoveAtPosition(handle[u])
    /\ handle' = [handle EXCEPT ![u] = NoHandle]
    /\ got' = [got EXCEPT ![u] = <<>>]
    /\ lost' = [lost EXCEPT ![u] = {}]
    /\ since' = [since EXCEPT ![u] = 0]
    /\ UNCHANGED <<bus, calls, read, used>>

\* Not locked: another thread may be between reading a message and placing it.
SetRXFilter(u, filter) ==
    /\ handle[u] # NoHandle
    /\ ClientOf(handle[u]) # 0
    /\ used.filter < MaxSetFilter
    /\ used' = [used EXCEPT !.filter = @ + 1]
    /\ installed' = [installed EXCEPT ![ClientOf(handle[u])].filter = filter]
    /\ since' = [since EXCEPT ![u] = Len(read)]
    /\ UNCHANGED <<bus, byHandle, handle, calls, read, got, lost>>

-----------------------------------------------------------------------------
(* Messages.                                                                *)

\* A message arrives at the driver (external).
Arrive ==
    /\ used.message < MaxMessages
    /\ used' = [used EXCEPT !.message = @ + 1]
    /\ \E id \in Identifiers : bus' = Append(bus, [nr |-> used'.message, id |-> id])
    /\ UNCHANGED <<installed, byHandle, handle, calls, read, got, lost, since>>

StartDispatchIncoming(t) ==
    /\ at[t] = "idle"
    /\ at' = [at EXCEPT ![t] = "acquire"]
    /\ UNCHANGED <<bus, installed, byHandle, handle, lock, message, index, read, got, lost,
                   since, used>>

\* Variant: only the queues are locked, not the reading of the driver.
IgnoreLock == TRUE
LockFree == lock = Nobody

ReadMessage(t) ==
    /\ at[t] = "acquire"
    /\ LockFree
    /\ bus # <<>>
    /\ lock' = t
    /\ bus' = Tail(bus)
    /\ message' = [message EXCEPT ![t] = Head(bus)]
    /\ index' = [index EXCEPT ![t] = 1]
    /\ read' = Append(read, Head(bus))
    /\ at' = [at EXCEPT ![t] = "place"]
    /\ UNCHANGED <<installed, byHandle, handle, got, lost, since, used>>

NoMoreMessages(t) ==
    /\ at[t] = "acquire"
    /\ LockFree
    /\ bus = <<>>
    /\ at' = [at EXCEPT ![t] = "idle"]
    /\ UNCHANGED <<bus, installed, byHandle, handle, lock, message, index, read, got, lost,
                   since, used>>

DoesMessagePass(c, m) == m.id \in c.filter

\* Variant: one message too many.
FullTooLate(q) == Len(q) > MaxSize
Full(q) == Len(q) >= MaxSize

\* C_CanRxQueue::Push on the queue of the i-th client.
Push(i, m) ==
    IF Full(installed[i].queue)
    THEN /\ lost' = [lost EXCEPT ![installed[i].user] = @ \cup {m}]
         /\ UNCHANGED installed
    ELSE /\ installed' = [installed EXCEPT ![i].queue = Append(@, m)]
         /\ UNCHANGED lost

PlaceMessage(t) ==
    /\ at[t] = "place"
    /\ index[t] <= Len(installed)
    /\ IF DoesMessagePass(installed[index[t]], message[t])
       THEN Push(index[t], message[t])
       ELSE UNCHANGED <<installed, lost>>
    /\ index' = [index EXCEPT ![t] = @ + 1]
    /\ UNCHANGED <<bus, byHandle, handle, lock, at, message, read, got, since, used>>

Release(t) ==
    /\ at[t] = "place"
    /\ index[t] > Len(installed)
    /\ lock' = Nobody
    /\ at' = [at EXCEPT ![t] = "acquire"]
    /\ message' = [message EXCEPT ![t] = NoMessage]
    /\ index' = [index EXCEPT ![t] = 0]
    /\ UNCHANGED <<bus, installed, byHandle, handle, read, got, lost, since, used>>

\* The position of the queue a user with a valid handle reads or clears, under
\* the lock.
ReadFromQueue(u) ==
    /\ handle[u] # NoHandle
    /\ ClientOf(handle[u]) # 0
    /\ LockFree
    /\ LET i == ClientOf(handle[u])
           q == installed[i].queue
       IN  /\ q # <<>>
           /\ installed' = [installed EXCEPT ![i].queue = Tail(q)]
           /\ got' = [got EXCEPT ![u] = Append(@, Head(q))]
    /\ UNCHANGED <<bus, byHandle, handle, calls, read, lost, since, used>>

ClearQueue(u) ==
    /\ handle[u] # NoHandle
    /\ ClientOf(handle[u]) # 0
    /\ LockFree
    /\ used.clear < MaxClear
    /\ used' = [used EXCEPT !.clear = @ + 1]
    /\ LET i == ClientOf(handle[u])
       IN  /\ installed' = [installed EXCEPT ![i].queue = <<>>]
           /\ got' = [got EXCEPT ![u] = @ \o installed[i].queue]
    /\ UNCHANGED <<bus, byHandle, handle, calls, read, lost, since>>

DispatchIncoming(t) ==
    \/ StartDispatchIncoming(t)
    \/ ReadMessage(t)
    \/ NoMoreMessages(t)
    \/ PlaceMessage(t)
    \/ Release(t)

Next ==
    \/ \E u \in Users, filter \in Filters : RegisterClient(u, filter) \/ SetRXFilter(u, filter)
    \/ \E u \in Users : RemoveClient(u) \/ ReadFromQueue(u) \/ ClearQueue(u)
    \/ \E t \in Threads : DispatchIncoming(t)
    \/ Arrive

Spec == Init /\ [][Next]_vars

-----------------------------------------------------------------------------
(* Properties.                                                              *)

Used ==
    [message : 0 .. MaxMessages, register : 0 .. MaxRegister,
     filter : 0 .. MaxSetFilter, clear : 0 .. MaxClear]

Clients ==
    [user : Users, filter : Filters, queue : Seq(Messages), handle : Nat]

\* Every variable stays in its range, queues within their size, and the lock is
\* with the one thread that places a message.
TypeOK ==
    /\ bus \in Seq(Messages)
    /\ installed \in Seq(Clients)
    /\ \A i \in DOMAIN installed : Len(installed[i].queue) <= MaxSize
    /\ byHandle \in Seq(0 .. Len(installed))
    /\ handle \in [Users -> Nat \cup {NoHandle}]
    /\ lock \in Threads \cup {Nobody}
    /\ at \in [Threads -> {"idle", "acquire", "place"}]
    /\ \A t \in Threads : lock = t <=> at[t] = "place"
    /\ message \in [Threads -> Messages \cup {NoMessage}]
    /\ index \in [Threads -> Nat]
    /\ read \in Seq(Messages)
    /\ got \in [Users -> Seq(Messages)]
    /\ lost \in [Users -> SUBSET Messages]
    /\ since \in [Users -> Nat]
    /\ used \in Used

\* A user's handle leads to its own client as long as it is registered, whoever
\* else comes and goes, although both arrays are rebuilt and handles are given
\* anew; and there are no other clients.
HandlesStable ==
    /\ \A u \in Users : handle[u] # NoHandle =>
          ClientOf(handle[u]) # 0 /\ installed[ClientOf(handle[u])].user = u
    /\ \A i \in DOMAIN installed : handle[installed[i].user] = installed[i].handle

\* What has come to the client at position i of installed, from the oldest on.
Stream(i) == got[installed[i].user] \o installed[i].queue

InOrder(s) == \A j, k \in DOMAIN s : j < k => s[j].nr < s[k].nr

\* Each client sees the bus through its filter: whichever threads dispatch, its
\* messages come in the order of the bus, once, and of those read since its filter
\* was set it misses none but what its own full queue has refused.
ClientsSeeTheBus ==
    \A i \in DOMAIN installed :
        LET u == installed[i].user
        IN  /\ InOrder(Stream(i))
            /\ lock = Nobody =>
                  {m \in ToSet(Stream(i)) : m.nr > since[u]} =
                  {m \in ToSet(read) :
                      m.nr > since[u] /\ DoesMessagePass(installed[i], m) /\ m \notin lost[u]}
=============================================================================
