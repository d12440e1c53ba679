----------------------- MODULE CanDispatcherBusProofs -----------------------
(***************************************************************************)
(* What the clients of CanDispatcher get of the bus, proved for any threads, *)
(* users and filters, any size of the queues and any number of messages.    *)
(***************************************************************************)
EXTENDS CanDispatcherProofs, SequenceFacts

\* Messages are numbered as they arrive.
BusNumbered ==
    /\ used.message = Len(read) + Len(bus)
    /\ \A k \in DOMAIN read : read[k].nr = k
    /\ \A k \in DOMAIN bus : bus[k].nr = Len(read) + k

\* The message a thread is placing is the one that was read last.
PlacesLast == \A t \in Threads : lock = t => read # <<>> /\ message[t] = read[Len(read)]

\* A user without a client has got nothing.
NothingLeft == \A u \in Users : handle[u] = NoHandle => got[u] = <<>> /\ lost[u] = {}

SinceRead == \A u \in Users : since[u] <= Len(read)

\* What has been shown to the client at position i: the message that is being
\* placed comes to it last.
Shown(i) ==
    IF lock # Nobody /\ index[lock] <= i THEN ToSet(read) \ {message[lock]} ELSE ToSet(read)

\* A client with the stream s, the filter f, the refused messages l and the filter
\* set at n sees what is shown.
Sees(s, f, l, n, shown) ==
    /\ InOrder(s)
    /\ ToSet(s) \subseteq shown
    /\ l \subseteq shown
    /\ {m \in ToSet(s) : m.nr > n} = {m \in shown : m.nr > n /\ m.id \in f /\ m \notin l}

ClientSees(i) ==
    LET u == installed[i].user
    IN  Sees(Stream(i), installed[i].filter, lost[u], since[u], Shown(i))

AllSee == \A i \in DOMAIN installed : ClientSees(i)

BusInv == BusNumbered /\ PlacesLast /\ NothingLeft /\ SinceRead /\ AllSee

-----------------------------------------------------------------------------
(* What a client sees.                                                      *)

LEMMA SeesMore ==
    ASSUME NEW s \in Seq(Messages), NEW f, NEW l, NEW n \in Nat, NEW shown \in SUBSET Messages,
           NEW x \in Messages, \A m \in shown : m.nr < x.nr,
           Sees(s, f, l, n, shown)
    PROVE  /\ x.id \in f => Sees(Append(s, x), f, l, n, shown \cup {x})
           /\ x.id \notin f => Sees(s, f, l, n, shown \cup {x})
           /\ Sees(s, f, l \cup {x}, n, shown \cup {x})
  <1>1. x.nr \in Nat /\ \A m \in shown : m.nr \in Nat
    BY DEF Messages
  <1>2. x \notin shown /\ x \notin l
    BY <1>1 DEF Sees
  <1>3. /\ InOrder(s) /\ ToSet(s) \subseteq shown /\ l \subseteq shown
        /\ {m \in ToSet(s) : m.nr > n} = {m \in shown : m.nr > n /\ m.id \in f /\ m \notin l}
    BY DEF Sees
  <1>4. ASSUME x.id \in f PROVE Sees(Append(s, x), f, l, n, shown \cup {x})
    <2> DEFINE b == Append(s, x)
    <2>1. /\ DOMAIN b = 1 .. Len(s) + 1 /\ DOMAIN s = 1 .. Len(s) /\ Len(s) \in Nat
          /\ b[Len(s) + 1] = x
          /\ \A i \in 1 .. Len(s) : b[i] = s[i]
      OBVIOUS
    <2>2. ToSet(b) = ToSet(s) \cup {x}
      BY ToSetAppend
    <2> HIDE DEF b
    <2>3. ASSUME NEW j \in DOMAIN b, NEW k \in DOMAIN b, j < k PROVE b[j].nr < b[k].nr
      <3>1. j \in DOMAIN s /\ b[j] = s[j]
        BY <2>1, <2>3
      <3>2. CASE k = Len(s) + 1
        <4>1. s[j] \in shown
          BY <1>3, <3>1 DEF ToSet
        <4> QED
          BY <2>1, <3>1, <3>2, <4>1
      <3>3. CASE k # Len(s) + 1
        <4>1. k \in DOMAIN s /\ b[k] = s[k]
          BY <2>1, <3>3
        <4> QED
          BY <1>3, <2>3, <3>1, <4>1 DEF InOrder
      <3> QED
        BY <3>2, <3>3
    <2>4. InOrder(b)
      BY <2>3 DEF InOrder
    <2>5. {m \in ToSet(b) : m.nr > n} =
          {m \in shown \cup {x} : m.nr > n /\ m.id \in f /\ m \notin l}
      BY <1>2, <1>3, <1>4, <2>2
    <2>6. Sees(b, f, l, n, shown \cup {x})
      BY <1>3, <2>2, <2>4, <2>5 DEF Sees
    <2> QED
      BY <2>6 DEF b
  <1>5. ASSUME x.id \notin f PROVE Sees(s, f, l, n, shown \cup {x})
    <2>1. {m \in ToSet(s) : m.nr > n} =
          {m \in shown \cup {x} : m.nr > n /\ m.id \in f /\ m \notin l}
      BY <1>3, <1>5
    <2> QED
      BY <1>3, <2>1 DEF Sees
  <1>6. Sees(s, f, l \cup {x}, n, shown \cup {x})
    <2>1. {m \in ToSet(s) : m.nr > n} =
          {m \in shown \cup {x} : m.nr > n /\ m.id \in f /\ m \notin l \cup {x}}
      BY <1>2, <1>3
    <2> QED
      BY <1>3, <2>1 DEF Sees
  <1> QED
    BY <1>4, <1>5, <1>6

LEMMA SeesFromNow ==
    ASSUME NEW s, NEW f, NEW g, NEW l, NEW n, NEW k \in Nat, NEW shown \in SUBSET Messages,
           \A m \in shown : m.nr <= k,
           Sees(s, f, l, n, shown)
    PROVE  Sees(s, g, l, k, shown)
  <1>1. \A m \in shown : m.nr \in Nat /\ ~(m.nr > k)
    BY DEF Messages
  <1> QED
    BY <1>1 DEF Sees

LEMMA SeesNothing ==
    ASSUME NEW f, NEW k \in Nat, NEW shown \in SUBSET Messages, \A m \in shown : m.nr <= k
    PROVE  Sees(<<>>, f, {}, k, shown)
  <1>1. \A m \in shown : m.nr \in Nat /\ ~(m.nr > k)
    BY DEF Messages
  <1>2. ToSet(<<>>) = {} /\ InOrder(<<>>)
    BY DEF ToSet, InOrder
  <1> QED
    BY <1>1, <1>2 DEF Sees

LEMMA ReadTypes ==
    ASSUME RestOK, BusNumbered
    PROVE  /\ read \in Seq(Messages) /\ Len(read) \in Nat
           /\ ToSet(read) \in SUBSET Messages
           /\ \A m \in ToSet(read) : m.nr \in 1 .. Len(read) /\ m = read[m.nr]
  <1>1. read \in Seq(Messages) /\ Len(read) \in Nat /\ DOMAIN read = 1 .. Len(read)
    BY LenProperties DEF RestOK
  <1>2. \A k \in DOMAIN read : read[k] \in Messages
    BY <1>1, ElementOfSeq
  <1> QED
    BY <1>1, <1>2 DEF ToSet, BusNumbered

\* A message that is being placed is younger than all that have been shown.
LEMMA ShownTypes ==
    ASSUME RestOK, BusNumbered, PlacesLast, NEW i
    PROVE  /\ Shown(i) \in SUBSET Messages
           /\ \A m \in Shown(i) : m.nr <= Len(read)
           /\ lock # Nobody /\ index[lock] <= i =>
                 /\ message[lock] \in Messages
                 /\ \A m \in Shown(i) : m.nr < message[lock].nr
                 /\ ToSet(read) = Shown(i) \cup {message[lock]}
           /\ lock = Nobody \/ ~(index[lock] <= i) => Shown(i) = ToSet(read)
  <1>1. /\ read \in Seq(Messages) /\ Len(read) \in Nat
        /\ ToSet(read) \in SUBSET Messages
        /\ \A m \in ToSet(read) : m.nr \in 1 .. Len(read) /\ m = read[m.nr]
    BY ReadTypes
  <1>2. Shown(i) \subseteq ToSet(read)
    BY DEF Shown
  <1>3. ASSUME lock # Nobody, index[lock] <= i
        PROVE  /\ message[lock] \in Messages
               /\ \A m \in Shown(i) : m.nr < message[lock].nr
               /\ ToSet(read) = Shown(i) \cup {message[lock]}
    <2>1. lock \in Threads
      BY <1>3 DEF RestOK
    <2>2. read # <<>> /\ message[lock] = read[Len(read)]
      BY <2>1 DEF PlacesLast
    <2>3. Len(read) \in DOMAIN read
      BY <1>1, <2>2, EmptySeq, LenProperties
    <2>4. message[lock] \in ToSet(read) /\ message[lock].nr = Len(read)
      BY <2>2, <2>3 DEF ToSet, BusNumbered
    <2>5. Shown(i) = ToSet(read) \ {message[lock]}
      BY <1>3 DEF Shown
    <2>6. ASSUME NEW m \in Shown(i) PROVE m.nr < message[lock].nr
      <3>1. m \in ToSet(read) /\ m # message[lock]
        BY <2>5
      <3>2. m.nr \in 1 .. Len(read) /\ m.nr # Len(read)
        BY <1>1, <2>2, <3>1
      <3> QED
        BY <1>1, <2>4, <3>2
    <2> QED
      BY <1>1, <2>4, <2>5, <2>6
  <1> QED
    BY <1>1, <1>2, <1>3 DEF Shown

LEMMA SeesPrimed ==
    ASSUME NEW j
    PROVE  ClientSees(j)' <=>
             Sees(Stream(j)', installed'[j].filter, lost'[installed'[j].user],
                  since'[installed'[j].user], Shown(j)')
  BY DEF ClientSees, Sees, InOrder, ToSet

-----------------------------------------------------------------------------
(* What a step leaves as it was.                                            *)

LEMMA NumbersKept ==
    ASSUME BusNumbered, PlacesLast, UNCHANGED <<bus, read, lock, message>>,
           used'.message = used.message
    PROVE  BusNumbered' /\ PlacesLast'
  BY DEF BusNumbered, PlacesLast

LEMMA ShownKept ==
    ASSUME NEW i, UNCHANGED <<read, lock, message, index>>
    PROVE  Shown(i)' = Shown(i)
  BY DEF Shown, ToSet

\* A client that keeps its user, its filter and what has come to it, possibly at
\* another position.
LEMMA ClientKept ==
    ASSUME NEW i, NEW j, ClientSees(i),
           installed'[j].user = installed[i].user, installed'[j].filter = installed[i].filter,
           installed'[j].queue = installed[i].queue,
           got'[installed[i].user] = got[installed[i].user],
           lost'[installed[i].user] = lost[installed[i].user],
           since'[installed[i].user] = since[installed[i].user],
           Shown(j)' = Shown(i)
    PROVE  ClientSees(j)'
  <1>1. Stream(j)' = Stream(i)
    BY DEF Stream
  <1>2. Sees(Stream(j)', installed'[j].filter, lost'[installed'[j].user],
             since'[installed'[j].user], Shown(j)')
    BY <1>1 DEF ClientSees
  <1> QED
    BY <1>2, SeesPrimed

LEMMA AllKept ==
    ASSUME BusInv, UNCHANGED <<installed, handle, read, lock, message, index, got, lost, since>>,
           BusNumbered'
    PROVE  BusInv'
  <1>1. ASSUME NEW i \in DOMAIN installed PROVE ClientSees(i)'
    <2>1. ClientSees(i)
      BY DEF BusInv, AllSee
    <2>2. Shown(i)' = Shown(i)
      BY ShownKept
    <2> QED
      BY <2>1, <2>2, ClientKept
  <1>2. AllSee'
    BY <1>1 DEF AllSee
  <1>3. PlacesLast' /\ NothingLeft' /\ SinceRead'
    BY DEF BusInv, PlacesLast, NothingLeft, SinceRead
  <1> QED
    BY <1>2, <1>3 DEF BusInv

\* A user with a client has a handle.
LEMMA ClientHasHandle ==
    ASSUME ClientInv, NEW i \in DOMAIN installed
    PROVE  handle[installed[i].user] # NoHandle
  <1>1. installed[i].handle \in Nat
    BY ClientRecord DEF ClientInv, ClientsOK
  <1> QED
    BY <1>1, UserAssumption DEF ClientInv, HandlesFit

LEMMA NobodyWhenUnused ==
    ASSUME RestOK, Unused
    PROVE  lock = Nobody
  BY DEF RestOK, Unused

-----------------------------------------------------------------------------
(* Clients come and go.                                                     *)

LEMMA RegisterKeepsBus ==
    ASSUME ClientInv, RestOK, BusInv, NEW u \in Users, NEW filter \in Filters,
           RegisterClient(u, filter)
    PROVE  BusInv'
  <1> DEFINE c == [user |-> u, filter |-> filter, queue |-> <<>>, handle |-> FreeHandle]
  <1>0. PICK n \in Nat : n = Len(installed)
    BY LenProperties DEF ClientInv, ClientsOK
  <1>1. /\ installed \in Seq(Clients) /\ n \in Nat /\ DOMAIN installed = 1 .. n
        /\ FreeHandle \in Nat
    BY <1>0, LenProperties, FreeHandleIsFree DEF ClientInv, ClientsOK
  <1>2. c \in Clients /\ c.user = u /\ c.filter = filter /\ c.queue = <<>>
    BY <1>1 DEF Clients
  <1>3. /\ installed' = Append(installed, c)
        /\ handle[u] = NoHandle
        /\ handle' = [handle EXCEPT ![u] = FreeHandle]
        /\ since' = [since EXCEPT ![u] = Len(read)]
        /\ used' = [used EXCEPT !.register = used.register + 1]
        /\ UNCHANGED <<bus, lock, at, message, index, read, got, lost>>
        /\ lock = Nobody
    BY NobodyWhenUnused DEF RegisterClient, calls
  <1> HIDE DEF c
  <1>4. /\ \A i \in 1 .. n : installed'[i] = installed[i]
        /\ installed'[n + 1] = c
        /\ DOMAIN installed' = 1 .. n + 1
    BY <1>0, <1>1, <1>2, <1>3, AppendProperties, LenProperties
  <1>5. /\ got \in [Users -> Seq(Messages)] /\ since \in [Users -> Nat]
        /\ Len(read) \in Nat /\ handle \in [Users -> Nat \cup {NoHandle}] /\ used \in Used
    BY LenProperties DEF RestOK, ClientInv, ClientsOK
  <1>6. used'.message = used.message
    BY <1>3, <1>5 DEF Used
  <1>7. BusNumbered' /\ PlacesLast'
    BY <1>3, <1>6, NumbersKept DEF BusInv
  <1>8. NothingLeft'
    BY <1>1, <1>3, <1>5, UserAssumption DEF BusInv, NothingLeft
  <1>9. SinceRead'
    BY <1>3, <1>5 DEF BusInv, SinceRead
  <1>10. ASSUME NEW i \in 1 .. n PROVE ClientSees(i)'
    <2>1. ClientSees(i) /\ Shown(i)' = Shown(i)
      BY <1>1, <1>3, ShownKept DEF BusInv, AllSee
    <2>2. installed[i].user # u
      BY <1>1, <1>3, ClientHasHandle
    <2>3. since'[installed[i].user] = since[installed[i].user]
      BY <1>3, <1>5, <2>2
    <2> QED
      BY <1>3, <1>4, <2>1, <2>3, ClientKept
  <1>11. ClientSees(n + 1)'
    <2> DEFINE S == Shown(n + 1)
    <2>1. S' = S /\ S \in SUBSET Messages /\ \A m \in S : m.nr <= Len(read)
      BY <1>3, ShownKept, ShownTypes DEF BusInv
    <2>2. got[u] = <<>> /\ lost[u] = {}
      BY <1>3 DEF BusInv, NothingLeft
    <2>3. Stream(n + 1)' = <<>>
      <3>1. Stream(n + 1)' = got'[u] \o <<>>
        BY <1>2, <1>4 DEF Stream
      <3>2. <<>> \o <<>> = <<>>
        OBVIOUS
      <3> QED
        BY <1>3, <2>2, <3>1, <3>2
    <2>4. since'[u] = Len(read)
      BY <1>3, <1>5
    <2> HIDE DEF S
    <2>5. Sees(<<>>, filter, {}, Len(read), S)
      BY <1>5, <2>1, SeesNothing
    <2>6. Sees(Stream(n + 1)', installed'[n + 1].filter, lost'[installed'[n + 1].user],
               since'[installed'[n + 1].user], S')
      BY <1>2, <1>3, <1>4, <2>1, <2>2, <2>3, <2>4, <2>5
    <2> QED
      BY <2>6, SeesPrimed DEF S
  <1>12. AllSee'
    <2>1. \A i \in DOMAIN installed' : i \in 1 .. n \/ i = n + 1
      BY <1>1, <1>4
    <2> QED
      BY <1>10, <1>11, <2>1 DEF AllSee
  <1> QED
    BY <1>7, <1>8, <1>9, <1>12 DEF BusInv

LEMMA RemoveKeepsBus ==
    ASSUME ClientInv, RestOK, BusInv, NEW u \in Users, RemoveClient(u)
    PROVE  BusInv'
  <1> DEFINE p == ClientOf(handle[u])
             n == Len(installed)
             From(j) == IF j < p THEN j ELSE j + 1
  <1>1. /\ installed \in Seq(Clients) /\ n \in Nat /\ DOMAIN installed = 1 .. n
        /\ p \in 1 .. n /\ installed[p].user = u
    BY LenProperties, ClientOfUser DEF ClientInv, ClientsOK, RemoveClient
  <1>2. /\ installed' = RemoveAt(installed, p)
        /\ handle' = [handle EXCEPT ![u] = NoHandle]
        /\ got' = [got EXCEPT ![u] = <<>>]
        /\ lost' = [lost EXCEPT ![u] = {}]
        /\ since' = [since EXCEPT ![u] = 0]
        /\ UNCHANGED <<bus, lock, at, message, index, read, used>>
        /\ lock = Nobody
    BY NobodyWhenUnused DEF RemoveClient, RemoveAtPosition, calls
  <1> HIDE DEF p
  <1>3. /\ DOMAIN installed' = 1 .. n - 1
        /\ \A j \in 1 .. n - 1 : installed'[j] = installed[From(j)]
    <2>1. /\ installed' \in Seq(Clients)
          /\ Len(installed') = n - 1
          /\ \A j \in 1 .. n - 1 : installed'[j] = IF j < p THEN installed[j] ELSE installed[j + 1]
      BY <1>1, <1>2, RemoveAtProperties
    <2> QED
      BY <2>1, LenProperties
  <1>4. \A j \in 1 .. n - 1 : From(j) \in 1 .. n /\ From(j) # p
    BY <1>1
  <1> HIDE DEF From
  <1>5. /\ got \in [Users -> Seq(Messages)] /\ since \in [Users -> Nat]
        /\ lost \in [Users -> SUBSET Messages]
        /\ Len(read) \in Nat /\ handle \in [Users -> Nat \cup {NoHandle}]
    BY LenProperties DEF RestOK, ClientInv, ClientsOK
  <1>6. BusNumbered' /\ PlacesLast'
    BY <1>2, NumbersKept DEF BusInv
  <1>7. NothingLeft'
    BY <1>2, <1>5 DEF BusInv, NothingLeft
  <1>8. SinceRead'
    BY <1>2, <1>5 DEF BusInv, SinceRead
  <1>9. ASSUME NEW j \in 1 .. n - 1 PROVE ClientSees(j)'
    <2>1. From(j) \in DOMAIN installed /\ From(j) # p
      BY <1>1, <1>4
    <2>2. installed[From(j)].user # u
      BY <1>1, <2>1, UsersDistinct
    <2>3. ClientSees(From(j))
      BY <2>1 DEF BusInv, AllSee
    <2>4. Shown(j)' = Shown(From(j))
      BY <1>2 DEF Shown, ToSet
    <2>5. /\ got'[installed[From(j)].user] = got[installed[From(j)].user]
          /\ lost'[installed[From(j)].user] = lost[installed[From(j)].user]
          /\ since'[installed[From(j)].user] = since[installed[From(j)].user]
      BY <1>2, <1>5, <2>2
    <2> QED
      BY <1>3, <2>3, <2>4, <2>5, ClientKept
  <1>10. AllSee'
    BY <1>3, <1>9 DEF AllSee
  <1> QED
    BY <1>6, <1>7, <1>8, <1>10 DEF BusInv

\* Clients change one at a time: it is enough to look at that one.
LEMMA OneClientChanges ==
    ASSUME ClientInv, RestOK, BusInv, NEW p \in DOMAIN installed,
           DOMAIN installed' = DOMAIN installed,
           \A i \in DOMAIN installed \ {p} :
               /\ installed'[i] = installed[i]
               /\ got'[installed[i].user] = got[installed[i].user]
               /\ lost'[installed[i].user] = lost[installed[i].user]
               /\ since'[installed[i].user] = since[installed[i].user]
               /\ Shown(i)' = Shown(i),
           ClientSees(p)'
    PROVE  AllSee'
  <1>1. ASSUME NEW i \in DOMAIN installed PROVE ClientSees(i)'
    <2>1. CASE i = p
      BY <2>1
    <2>2. CASE i # p
      <3>1. ClientSees(i)
        BY DEF BusInv, AllSee
      <3> QED
        BY <2>2, <3>1, ClientKept
    <2> QED
      BY <2>1, <2>2
  <1> QED
    BY <1>1 DEF AllSee

LEMMA FilterKeepsBus ==
    ASSUME ClientInv, RestOK, BusInv, NEW u \in Users, NEW filter \in Filters,
           SetRXFilter(u, filter)
    PROVE  BusInv'
  <1>1. PICK p \in DOMAIN installed : p = ClientOf(handle[u]) /\ installed[p].user = u
    BY ClientOfUser DEF SetRXFilter
  <1>2. /\ installed' = [installed EXCEPT ![p].filter = filter]
        /\ since' = [since EXCEPT ![u] = Len(read)]
        /\ used' = [used EXCEPT !.filter = used.filter + 1]
        /\ UNCHANGED <<bus, byHandle, handle, lock, at, message, index, read, got, lost>>
    BY <1>1 DEF SetRXFilter, calls
  <1>3. /\ installed \in Seq(Clients) /\ installed[p] \in Clients
        /\ since \in [Users -> Nat] /\ Len(read) \in Nat /\ used \in Used
    BY LenProperties, ClientRecord DEF RestOK, ClientInv, ClientsOK
  <1>4. /\ DOMAIN installed' = DOMAIN installed
        /\ \A i \in DOMAIN installed \ {p} : installed'[i] = installed[i]
        /\ installed'[p].user = u /\ installed'[p].filter = filter
        /\ installed'[p].queue = installed[p].queue
    BY <1>1, <1>2, <1>3 DEF Clients
  <1>5. used'.message = used.message
    BY <1>2, <1>3 DEF Used
  <1>6. BusNumbered' /\ PlacesLast' /\ NothingLeft' /\ SinceRead'
    <2>1. BusNumbered' /\ PlacesLast'
      BY <1>2, <1>5, NumbersKept DEF BusInv
    <2>2. NothingLeft' /\ SinceRead'
      BY <1>2, <1>3 DEF BusInv, NothingLeft, SinceRead
    <2> QED
      BY <2>1, <2>2
  <1>7. ASSUME NEW i \in DOMAIN installed, i # p
        PROVE  /\ installed[i].user # u
               /\ since'[installed[i].user] = since[installed[i].user]
    BY <1>1, <1>2, <1>3, <1>7, UsersDistinct
  <1>8. \A i \in DOMAIN installed : Shown(i)' = Shown(i)
    BY <1>2, ShownKept
  <1>9. ClientSees(p)'
    <2> DEFINE S == Shown(p)
    <2>1. S \in SUBSET Messages /\ \A m \in S : m.nr <= Len(read)
      BY ShownTypes DEF BusInv
    <2>2. Sees(Stream(p), installed[p].filter, lost[u], since[u], S)
      BY <1>1 DEF BusInv, AllSee, ClientSees
    <2>3. Stream(p)' = Stream(p)
      BY <1>1, <1>2, <1>4 DEF Stream
    <2> HIDE DEF S
    <2>4. Sees(Stream(p), filter, lost[u], Len(read), S)
      BY <1>3, <2>1, <2>2, SeesFromNow
    <2>5. since'[u] = Len(read) /\ S' = S
      BY <1>2, <1>3, <1>8 DEF S
    <2>6. Sees(Stream(p)', installed'[p].filter, lost'[installed'[p].user],
               since'[installed'[p].user], S')
      BY <1>2, <1>4, <2>3, <2>4, <2>5
    <2> QED
      BY <2>6, SeesPrimed DEF S
  <1>10. AllSee'
    BY <1>2, <1>4, <1>7, <1>8, <1>9, OneClientChanges
  <1> QED
    BY <1>6, <1>10 DEF BusInv

-----------------------------------------------------------------------------
(* Clients read.                                                            *)

\* Messages go from the queue to the user: nothing comes and nothing is lost.
LEMMA QueueMoved ==
    ASSUME ClientInv, RestOK, BusInv, NEW p \in DOMAIN installed, NEW q, NEW g,
           installed' = [installed EXCEPT ![p].queue = q],
           got' = [got EXCEPT ![installed[p].user] = g],
           g \o q = Stream(p),
           UNCHANGED <<bus, read, handle, lock, message, index, lost, since>>,
           used'.message = used.message
    PROVE  BusInv'
  <1> DEFINE u == installed[p].user
  <1>1. /\ installed \in Seq(Clients) /\ installed[p] \in Clients /\ u \in Users
        /\ got \in [Users -> Seq(Messages)]
    BY ClientRecord DEF RestOK, ClientInv, ClientsOK
  <1>2. /\ DOMAIN installed' = DOMAIN installed
        /\ \A i \in DOMAIN installed \ {p} : installed'[i] = installed[i]
        /\ installed'[p].user = u /\ installed'[p].filter = installed[p].filter
        /\ installed'[p].queue = q
    BY <1>1 DEF Clients
  <1>3. ASSUME NEW i \in DOMAIN installed, i # p
        PROVE  got'[installed[i].user] = got[installed[i].user]
    <2>1. installed[i].user # u
      BY <1>3, UsersDistinct
    <2> QED
      BY <1>1, <2>1
  <1>4. \A i \in DOMAIN installed : Shown(i)' = Shown(i)
    BY ShownKept
  <1>5. ClientSees(p)'
    <2>1. Sees(Stream(p), installed[p].filter, lost[u], since[u], Shown(p))
      BY DEF BusInv, AllSee, ClientSees
    <2>2. Stream(p)' = Stream(p)
      <3>1. Stream(p)' = got'[u] \o q
        BY <1>2 DEF Stream
      <3>2. got'[u] = g
        BY <1>1
      <3> QED
        BY <3>1, <3>2
    <2>3. Sees(Stream(p)', installed'[p].filter, lost'[installed'[p].user],
               since'[installed'[p].user], Shown(p)')
      BY <1>2, <1>4, <2>1, <2>2
    <2> QED
      BY <2>3, SeesPrimed
  <1>6. AllSee'
    BY <1>2, <1>3, <1>4, <1>5, OneClientChanges
  <1>7. BusNumbered' /\ PlacesLast'
    BY NumbersKept DEF BusInv
  <1>8. NothingLeft'
    <2>1. handle[u] # NoHandle
      BY ClientHasHandle
    <2> QED
      BY <1>1, <2>1 DEF BusInv, NothingLeft
  <1>9. SinceRead'
    BY DEF BusInv, SinceRead
  <1> QED
    BY <1>6, <1>7, <1>8, <1>9 DEF BusInv

LEMMA ReadKeepsBus ==
    ASSUME ClientInv, RestOK, BusInv, NEW u \in Users, ReadFromQueue(u)
    PROVE  BusInv'
  <1>1. PICK p \in DOMAIN installed : p = ClientOf(handle[u]) /\ installed[p].user = u
    BY ClientOfUser DEF ReadFromQueue
  <1> DEFINE q == installed[p].queue
  <1>2. /\ q # <<>>
        /\ installed' = [installed EXCEPT ![p].queue = Tail(q)]
        /\ got' = [got EXCEPT ![u] = Append(got[u], Head(q))]
        /\ UNCHANGED <<bus, handle, lock, message, index, read, lost, since, used>>
    BY <1>1 DEF ReadFromQueue, calls
  <1>3. q \in Seq(Messages) /\ got[u] \in Seq(Messages)
    BY QueueTypes DEF RestOK
  <1>4. Append(got[u], Head(q)) \o Tail(q) = Stream(p)
    <2>1. Stream(p) = got[u] \o q
      BY <1>1 DEF Stream
    <2> HIDE DEF q
    <2> QED
      BY <1>2, <1>3, <2>1, MoveHead
  <1> QED
    BY <1>1, <1>2, <1>4, QueueMoved

LEMMA ClearKeepsBus ==
    ASSUME ClientInv, RestOK, BusInv, NEW u \in Users, ClearQueue(u)
    PROVE  BusInv'
  <1>1. PICK p \in DOMAIN installed : p = ClientOf(handle[u]) /\ installed[p].user = u
    BY ClientOfUser DEF ClearQueue
  <1> DEFINE q == installed[p].queue
  <1>2. /\ installed' = [installed EXCEPT ![p].queue = <<>>]
        /\ got' = [got EXCEPT ![u] = got[u] \o q]
        /\ used' = [used EXCEPT !.clear = used.clear + 1]
        /\ UNCHANGED <<bus, handle, lock, message, index, read, lost, since>>
    BY <1>1 DEF ClearQueue, calls
  <1>3. q \in Seq(Messages) /\ got[u] \in Seq(Messages) /\ used \in Used
    BY QueueTypes DEF RestOK
  <1>4. (got[u] \o q) \o <<>> = Stream(p)
    <2>1. Stream(p) = got[u] \o q
      BY <1>1 DEF Stream
    <2>2. got[u] \o q \in Seq(Messages)
      BY <1>3, ConcatProperties
    <2> HIDE DEF q
    <2> QED
      BY <2>1, <2>2, ConcatEmpty
  <1>5. used'.message = used.message
    BY <1>2, <1>3 DEF Used
  <1> QED
    BY <1>1, <1>2, <1>4, <1>5, QueueMoved

-----------------------------------------------------------------------------
(* Messages are dispatched.                                                 *)

LEMMA ArriveKeepsBus ==
    ASSUME RestOK, BusInv, Arrive
    PROVE  BusInv'
  <1>1. PICK id \in Identifiers : bus' = Append(bus, [nr |-> used'.message, id |-> id])
    BY DEF Arrive
  <1> DEFINE x == [nr |-> used'.message, id |-> id]
  <1>2. /\ used' = [used EXCEPT !.message = used.message + 1]
        /\ UNCHANGED <<installed, handle, read, lock, message, index, got, lost, since>>
    BY DEF Arrive, calls
  <1>3. /\ used \in Used /\ bus \in Seq(Messages) /\ Len(read) \in Nat /\ Len(bus) \in Nat
        /\ DOMAIN bus = 1 .. Len(bus)
    BY LenProperties DEF RestOK
  <1>4. /\ used.message = Len(read) + Len(bus)
        /\ used'.message = used.message + 1
    BY <1>2, <1>3 DEF BusInv, BusNumbered, Used
  <1>5. x.nr = Len(read) + (Len(bus) + 1)
    BY <1>3, <1>4
  <1> HIDE DEF x
  <1>6. /\ Len(bus') = Len(bus) + 1
        /\ DOMAIN bus' = 1 .. Len(bus) + 1
        /\ \A k \in 1 .. Len(bus) : bus'[k] = bus[k]
        /\ bus'[Len(bus) + 1] = x
    <2> DEFINE b == Append(bus, x)
    <2>1. /\ Len(b) = Len(bus) + 1
          /\ DOMAIN b = 1 .. Len(bus) + 1
          /\ \A k \in 1 .. Len(bus) : b[k] = bus[k]
          /\ b[Len(bus) + 1] = x
      BY <1>3
    <2> QED
      BY <1>1, <2>1 DEF x
  <1>7. \A k \in DOMAIN bus' : bus'[k].nr = Len(read) + k
    <2>1. \A k \in 1 .. Len(bus) + 1 : k \in 1 .. Len(bus) \/ k = Len(bus) + 1
      BY <1>3
    <2>2. \A k \in 1 .. Len(bus) : bus[k].nr = Len(read) + k
      BY <1>3 DEF BusInv, BusNumbered
    <2> QED
      BY <1>5, <1>6, <2>1, <2>2
  <1>8. used'.message = Len(read) + Len(bus')
    BY <1>3, <1>4, <1>6
  <1>9. BusNumbered'
    BY <1>2, <1>7, <1>8 DEF BusInv, BusNumbered
  <1> QED
    BY <1>2, <1>9, AllKept

LEMMA ReadMessageKeepsBus ==
    ASSUME ClientInv, RestOK, BusInv, NEW t \in Threads, ReadMessage(t)
    PROVE  BusInv'
  <1> DEFINE x == Head(bus)
  <1>1. /\ lock = Nobody /\ bus # <<>>
        /\ lock' = t
        /\ bus' = Tail(bus)
        /\ message' = [message EXCEPT ![t] = x]
        /\ index' = [index EXCEPT ![t] = 1]
        /\ read' = Append(read, x)
        /\ UNCHANGED <<installed, handle, got, lost, since, used>>
    BY DEF ReadMessage, LockFree
  <1>2. /\ bus \in Seq(Messages) /\ read \in Seq(Messages)
        /\ Len(bus) \in Nat /\ Len(read) \in Nat
        /\ DOMAIN read = 1 .. Len(read) /\ DOMAIN bus = 1 .. Len(bus)
        /\ message \in [Threads -> Messages \cup {NoMessage}] /\ index \in [Threads -> Nat]
        /\ since \in [Users -> Nat]
    BY LenProperties DEF RestOK
  <1>3. /\ x \in Messages /\ x = bus[1] /\ Len(bus) >= 1
        /\ Len(Tail(bus)) = Len(bus) - 1
        /\ DOMAIN Tail(bus) = 1 .. Len(bus) - 1
        /\ \A k \in 1 .. Len(bus) - 1 : Tail(bus)[k] = bus[k + 1]
    BY <1>1, <1>2
  <1> HIDE DEF x
  <1>4. x.nr = Len(read) + 1
    <2>1. 1 \in DOMAIN bus
      BY <1>2, <1>3
    <2> QED
      BY <1>3, <2>1 DEF BusInv, BusNumbered
  <1>5. /\ Len(read') = Len(read) + 1
        /\ DOMAIN read' = 1 .. Len(read) + 1
        /\ read'[Len(read) + 1] = x
        /\ \A k \in 1 .. Len(read) : read'[k] = read[k]
        /\ read' # <<>>
    <2> DEFINE b == Append(read, x)
    <2>0. read \in Seq(Messages) /\ x \in Messages
      BY <1>2, <1>3
    <2>1. /\ Len(b) = Len(read) + 1
          /\ DOMAIN b = 1 .. Len(read) + 1
          /\ b[Len(read) + 1] = x
          /\ \A k \in 1 .. Len(read) : b[k] = read[k]
          /\ b # <<>>
      BY <2>0
    <2> QED
      BY <1>1, <2>1
  <1>6. BusNumbered'
    <2>1. /\ used.message = Len(read) + Len(bus)
          /\ \A k \in 1 .. Len(read) : read[k].nr = k
          /\ \A k \in 1 .. Len(bus) : bus[k].nr = Len(read) + k
      BY <1>2 DEF BusInv, BusNumbered
    <2>2. used' = used /\ used'.message = Len(read') + Len(bus')
      BY <1>1, <1>2, <1>3, <1>5, <2>1
    <2>3. \A k \in DOMAIN read' : read'[k].nr = k
      <3>1. \A k \in 1 .. Len(read) + 1 : k \in 1 .. Len(read) \/ k = Len(read) + 1
        BY <1>2
      <3> QED
        BY <1>4, <1>5, <2>1, <3>1
    <2>4. \A k \in DOMAIN bus' : bus'[k].nr = Len(read') + k
      <3>1. \A k \in 1 .. Len(bus) - 1 : k + 1 \in 1 .. Len(bus)
                                         /\ Len(read) + (k + 1) = (Len(read) + 1) + k
        BY <1>2, <1>3
      <3> QED
        BY <1>1, <1>3, <1>5, <2>1, <3>1
    <2> QED
      BY <2>2, <2>3, <2>4 DEF BusNumbered
  <1>7. PlacesLast'
    <2>1. message'[t] = read'[Len(read')]
      BY <1>1, <1>2, <1>5
    <2> QED
      BY <1>1, <1>5, <2>1 DEF PlacesLast
  <1>8. NothingLeft' /\ SinceRead'
    BY <1>1, <1>2, <1>5 DEF BusInv, NothingLeft, SinceRead
  <1>9. ASSUME NEW i \in DOMAIN installed PROVE Shown(i)' = Shown(i)
    <2>1. lock' # Nobody /\ message'[lock'] = x /\ index'[lock'] = 1
      BY <1>1, <1>2, UserAssumption
    <2>2. 1 <= i
      BY LenProperties DEF ClientInv, ClientsOK
    <2>3. ToSet(read') = ToSet(read) \cup {x}
      <3>1. ToSet(Append(read, x)) = ToSet(read) \cup {x}
        BY <1>2, <1>3, ToSetAppend
      <3> QED
        BY <1>1, <3>1
    <2>4. x \notin ToSet(read)
      BY <1>2, <1>4, ReadTypes DEF BusInv
    <2>5. Shown(i)' = ToSet(read') \ {x}
      BY <2>1, <2>2 DEF Shown, ToSet
    <2>6. Shown(i) = ToSet(read)
      BY <1>1 DEF Shown
    <2> QED
      BY <2>3, <2>4, <2>5, <2>6
  <1>10. ASSUME NEW i \in DOMAIN installed PROVE ClientSees(i)'
    <2>1. ClientSees(i) /\ Shown(i)' = Shown(i)
      BY <1>9 DEF BusInv, AllSee
    <2> QED
      BY <1>1, <2>1, ClientKept
  <1>11. AllSee'
    BY <1>1, <1>10 DEF AllSee
  <1> QED
    BY <1>6, <1>7, <1>8, <1>11 DEF BusInv

LEMMA PlaceKeepsBus ==
    ASSUME ClientInv, RestOK, PlaceOK, BusInv, NEW t \in Threads, PlaceMessage(t)
    PROVE  BusInv'
  <1>1. lock = t /\ lock # Nobody
    BY UserAssumption DEF PlaceMessage, RestOK
  <1>2. PICK p \in DOMAIN installed : p = index[t]
    BY LenProperties DEF PlaceMessage, PlaceOK, RestOK, ClientInv, ClientsOK
  <1>3. PICK x \in Messages : x = message[t]
    BY DEF PlaceMessage, PlaceOK
  <1> DEFINE u == installed[p].user
             q == installed[p].queue
             S == Shown(p)
  <1>4. /\ IF DoesMessagePass(installed[p], x) THEN Push(p, x) ELSE UNCHANGED <<installed, lost>>
        /\ index' = [index EXCEPT ![t] = p + 1]
        /\ UNCHANGED <<bus, handle, lock, message, read, got, since, used>>
    BY <1>2, <1>3 DEF PlaceMessage
  <1>5. /\ installed \in Seq(Clients) /\ installed[p] \in Clients /\ u \in Users
        /\ q \in Seq(Messages) /\ got[u] \in Seq(Messages)
        /\ lost \in [Users -> SUBSET Messages] /\ index \in [Threads -> Nat]
        /\ since[u] \in Nat
        /\ DOMAIN installed \subseteq Nat
    BY ClientRecord, LenProperties DEF RestOK, ClientInv, ClientsOK
  <1>6. BusNumbered' /\ PlacesLast'
    BY <1>4, NumbersKept DEF BusInv
  <1>7. SinceRead'
    BY <1>4 DEF BusInv, SinceRead
  <1>8. handle[u] # NoHandle
    BY ClientHasHandle
  <1>9. /\ S \in SUBSET Messages
        /\ \A m \in S : m.nr < x.nr
        /\ ToSet(read) = S \cup {x}
    <2>1. index[lock] <= p
      BY <1>1, <1>2, <1>5
    <2> QED
      BY <1>1, <1>3, <2>1, ShownTypes DEF BusInv
  <1>10. Shown(p)' = S \cup {x}
    <2>1. lock' = t /\ index'[t] = p + 1 /\ ~ (index'[t] <= p)
      BY <1>1, <1>4, <1>5
    <2>2. Shown(p)' = ToSet(read)
      BY <1>4, <2>1 DEF Shown, ToSet
    <2> QED
      BY <1>9, <2>2
  <1>11. ASSUME NEW i \in DOMAIN installed, i # p
         PROVE  Shown(i)' = Shown(i) /\ installed[i].user # u
    <2>1. lock' = lock /\ message' = message /\ read' = read
          /\ (index'[lock] <= i <=> index[lock] <= i)
      BY <1>1, <1>2, <1>4, <1>5, <1>11
    <2>2. Shown(i)' = Shown(i)
      BY <2>1 DEF Shown, ToSet
    <2> QED
      BY <1>11, <2>2, UsersDistinct
  <1>12. Sees(got[u] \o q, installed[p].filter, lost[u], since[u], S)
    BY DEF BusInv, AllSee, ClientSees, Stream
  <1> DEFINE s == got[u] \o q
  <1>13. s \in Seq(Messages)
    BY <1>5, ConcatProperties
  <1> HIDE DEF S
  <1>14. /\ x.id \in installed[p].filter =>
               Sees(Append(s, x), installed[p].filter, lost[u], since[u], S \cup {x})
         /\ x.id \notin installed[p].filter =>
               Sees(s, installed[p].filter, lost[u], since[u], S \cup {x})
         /\ Sees(s, installed[p].filter, lost[u] \cup {x}, since[u], S \cup {x})
    <2> HIDE DEF s, u
    <2> QED
      BY <1>5, <1>9, <1>12, <1>13, SeesMore DEF s
  <1>15. CASE UNCHANGED <<installed, lost>> /\ x.id \notin installed[p].filter
    <2>1. Stream(p)' = s
      BY <1>4, <1>15 DEF Stream
    <2>2. ClientSees(p)'
      BY <1>4, <1>10, <1>14, <1>15, <2>1, SeesPrimed
    <2>3. AllSee'
      BY <1>4, <1>11, <1>15, <2>2, OneClientChanges
    <2>4. NothingLeft'
      BY <1>4, <1>15 DEF BusInv, NothingLeft
    <2> QED
      BY <1>6, <1>7, <2>3, <2>4 DEF BusInv
  <1>16. CASE /\ lost' = [lost EXCEPT ![u] = lost[u] \cup {x}]
              /\ UNCHANGED installed
    <2>1. Stream(p)' = s
      BY <1>4, <1>16 DEF Stream
    <2>2. lost'[u] = lost[u] \cup {x} /\ \A v \in Users \ {u} : lost'[v] = lost[v]
      BY <1>5, <1>16
    <2>3. ClientSees(p)'
      BY <1>4, <1>10, <1>14, <1>16, <2>1, <2>2, SeesPrimed
    <2>4. \A i \in DOMAIN installed \ {p} : lost'[installed[i].user] = lost[installed[i].user]
      BY <1>5, <1>11, <2>2, ClientRecord
    <2>5. AllSee'
      BY <1>4, <1>11, <1>16, <2>3, <2>4, OneClientChanges
    <2>6. NothingLeft'
      BY <1>4, <1>8, <2>2 DEF BusInv, NothingLeft
    <2> QED
      BY <1>6, <1>7, <2>5, <2>6 DEF BusInv
  <1>17. CASE /\ x.id \in installed[p].filter
              /\ installed' = [installed EXCEPT ![p].queue = Append(q, x)]
              /\ UNCHANGED lost
    <2>1. /\ DOMAIN installed' = DOMAIN installed
          /\ \A i \in DOMAIN installed \ {p} : installed'[i] = installed[i]
          /\ installed'[p].user = u /\ installed'[p].filter = installed[p].filter
          /\ installed'[p].queue = Append(q, x)
      BY <1>5, <1>17 DEF Clients
    <2>2. Stream(p)' = Append(s, x)
      <3>1. Stream(p)' = got[u] \o Append(q, x)
        BY <1>4, <2>1 DEF Stream
      <3>2. got[u] \o Append(q, x) = Append(got[u] \o q, x)
        <4> HIDE DEF u, q
        <4>1. ASSUME NEW a \in Seq(Messages), NEW b \in Seq(Messages)
              PROVE  a \o Append(b, x) = Append(a \o b, x)
          BY ConcatAppend
        <4> QED
          BY <1>5, <4>1, Zenon
      <3> QED
        BY <3>1, <3>2
    <2>3. ClientSees(p)'
      <3> HIDE DEF s, u
      <3>1. Sees(Stream(p)', installed'[p].filter, lost'[installed'[p].user],
                 since'[installed'[p].user], Shown(p)')
        BY <1>4, <1>10, <1>14, <1>17, <2>1, <2>2
      <3> QED
        BY <3>1, SeesPrimed
    <2>4. AllSee'
      BY <1>4, <1>11, <1>17, <2>1, <2>3, OneClientChanges
    <2>5. NothingLeft'
      BY <1>4, <1>17 DEF BusInv, NothingLeft
    <2> QED
      BY <1>6, <1>7, <2>4, <2>5 DEF BusInv
  <1> QED
    BY <1>4, <1>15, <1>16, <1>17 DEF DoesMessagePass, Push

LEMMA ReleaseKeepsBus ==
    ASSUME ClientInv, RestOK, BusInv, NEW t \in Threads, Release(t)
    PROVE  BusInv'
  <1>1. /\ lock = t /\ lock' = Nobody
        /\ index[t] > Len(installed)
        /\ UNCHANGED <<bus, installed, handle, read, got, lost, since, used>>
    BY DEF Release, RestOK
  <1>2. BusNumbered' /\ PlacesLast' /\ NothingLeft' /\ SinceRead'
    BY <1>1, UserAssumption DEF BusInv, BusNumbered, PlacesLast, NothingLeft, SinceRead
  <1>3. ASSUME NEW i \in DOMAIN installed PROVE ClientSees(i)'
    <2>1. index[t] \in Nat /\ i \in 1 .. Len(installed) /\ Len(installed) \in Nat
      BY LenProperties DEF RestOK, ClientInv, ClientsOK
    <2>2. ~ (index[lock] <= i)
      BY <1>1, <2>1
    <2>3. Shown(i)' = Shown(i)
      BY <1>1, <2>2 DEF Shown, ToSet
    <2>4. ClientSees(i)
      BY DEF BusInv, AllSee
    <2> QED
      BY <1>1, <2>3, <2>4, ClientKept
  <1>4. AllSee'
    BY <1>1, <1>3 DEF AllSee
  <1> QED
    BY <1>2, <1>4 DEF BusInv

-----------------------------------------------------------------------------
(* The invariant and the theorem.                                           *)

LEMMA InitBusInv == Init => BusInv
  <1> SUFFICES ASSUME Init PROVE BusInv
    OBVIOUS
  <1>1. Len(<<>>) = 0 /\ DOMAIN <<>> = {}
    OBVIOUS
  <1>2. lock = Nobody /\ Nobody \notin Threads
    BY UserAssumption DEF Init
  <1> QED
    BY <1>1, <1>2
    DEF Init, BusInv, BusNumbered, PlacesLast, NothingLeft, SinceRead, AllSee

LEMMA NextBusInv == IInv /\ BusInv /\ [Next]_vars => BusInv'
  <1> SUFFICES ASSUME ClientInv, RestOK, PlaceOK, BusInv, [Next]_vars PROVE BusInv'
    BY Parts
  <1>1. ASSUME NEW u \in Users, NEW filter \in Filters,
               RegisterClient(u, filter) \/ SetRXFilter(u, filter)
        PROVE  BusInv'
    BY <1>1, RegisterKeepsBus, FilterKeepsBus
  <1>2. ASSUME NEW u \in Users, RemoveClient(u) \/ ReadFromQueue(u) \/ ClearQueue(u)
        PROVE  BusInv'
    BY <1>2, RemoveKeepsBus, ReadKeepsBus, ClearKeepsBus
  <1>3. ASSUME NEW t \in Threads, StartDispatchIncoming(t) \/ NoMoreMessages(t)
        PROVE  BusInv'
    <2>1. UNCHANGED <<bus, installed, handle, read, lock, message, index, got, lost, since, used>>
      BY <1>3 DEF StartDispatchIncoming, NoMoreMessages
    <2>2. BusNumbered'
      BY <2>1, NumbersKept DEF BusInv
    <2> QED
      BY <2>1, <2>2, AllKept
  <1>4. ASSUME NEW t \in Threads, DispatchIncoming(t) PROVE BusInv'
    BY <1>3, <1>4, ReadMessageKeepsBus, PlaceKeepsBus, ReleaseKeepsBus DEF DispatchIncoming
  <1>5. CASE Arrive
    BY <1>5, ArriveKeepsBus
  <1>6. CASE UNCHANGED vars
    <2>1. UNCHANGED <<bus, installed, handle, read, lock, message, index, got, lost, since, used>>
      BY <1>6 DEF vars
    <2>2. BusNumbered'
      BY <2>1, NumbersKept DEF BusInv
    <2> QED
      BY <2>1, <2>2, AllKept
  <1> QED
    BY <1>1, <1>2, <1>4, <1>5, <1>6 DEF Next

LEMMA SeesTheBus == BusInv => ClientsSeeTheBus
  <1> SUFFICES ASSUME BusInv, NEW i \in DOMAIN installed
               PROVE  LET u == installed[i].user
                      IN  /\ InOrder(Stream(i))
                          /\ lock = Nobody =>
                                {m \in ToSet(Stream(i)) : m.nr > since[u]} =
                                {m \in ToSet(read) :
                                    /\ m.nr > since[u]
                                    /\ DoesMessagePass(installed[i], m)
                                    /\ m \notin lost[u]}
    BY DEF ClientsSeeTheBus
  <1>1. ClientSees(i)
    BY DEF BusInv, AllSee
  <1>2. lock = Nobody => Shown(i) = ToSet(read)
    BY DEF Shown
  <1> QED
    BY <1>1, <1>2 DEF ClientSees, Sees, DoesMessagePass

\* Whichever threads dispatch and whatever filters are set meanwhile, the messages of
\* each client come in the order of the bus, each once, and when no message is being
\* placed the client has every message read since its filter was set that passes the
\* filter, but for those its own full queue has refused, and no other.
THEOREM ClientsSee == Spec => []ClientsSeeTheBus
  <1>1. Spec => []BusInv
    BY InitBusInv, NextBusInv, Invariance, PTL DEF Spec
  <1> QED
    BY <1>1, SeesTheBus, PTL
=============================================================================
