------------------------ MODULE CanDispatcherProofs ------------------------
(***************************************************************************)
(* Invariants of CanDispatcher, proved for any threads, users and filters,  *)
(* any size of the queues and any number of registrations.                  *)
(***************************************************************************)
EXTENDS CanDispatcher, SequenceTheorems, WellFoundedInduction, TLAPS

USE DEF UserAssumption, BoundAssumption

-----------------------------------------------------------------------------
(* Minimum and maximum.                                                     *)

LEMMA LeastNatural ==
    ASSUME NEW T \in SUBSET Nat, T # {}
    PROVE  \E x \in T : \A y \in T : x <= y
  <1> DEFINE R == OpToRel(<, Nat)
  <1>1. IsWellFoundedOn(R, Nat)
    BY NatLessThanWellFounded
  <1>2. PICK x \in T : \A y \in T : ~ (<<y, x>> \in R)
    <2> HIDE DEF R
    <2> QED
      BY <1>1, WFMin
  <1>3. ASSUME NEW y \in T PROVE x <= y
    <2>1. ~ (y < x)
      BY <1>2 DEF OpToRel
    <2> QED
      BY <2>1
  <1> QED
    BY <1>3

LEMMA MinIsMember ==
    ASSUME NEW S \in SUBSET Nat, S # {}
    PROVE  Min(S) \in S
  BY LeastNatural DEF Min

LEMMA MaxIsMaximum ==
    ASSUME NEW S \in SUBSET Nat, S # {}, NEW n \in Nat, \A s \in S : s < n
    PROVE  Max(S) \in S /\ \A s \in S : s <= Max(S)
  <1> DEFINE T == {k \in Nat : \A s \in S : s <= k}
  <1>1. n \in T
    OBVIOUS
  <1>2. PICK x \in T : \A y \in T : x <= y
    <2>1. T \in SUBSET Nat /\ T # {}
      BY <1>1
    <2> HIDE DEF T
    <2> QED
      BY <2>1, LeastNatural
  <1>3. x \in S
    <2> SUFFICES ASSUME x \notin S PROVE FALSE
      OBVIOUS
    <2>1. \A s \in S : s < x
      OBVIOUS
    <2>2. PICK s \in S : TRUE
      OBVIOUS
    <2>3. x \in Nat /\ s \in Nat /\ s < x
      BY <2>1
    <2>4. x - 1 \in Nat /\ ~ (x <= x - 1)
      BY <2>3
    <2>5. \A r \in S : r <= x - 1
      BY <2>1, <2>3
    <2>6. x - 1 \in T
      BY <2>4, <2>5
    <2> QED
      BY <1>2, <2>4, <2>6
  <1>4. \E m \in S : \A s \in S : m >= s
    BY <1>3
  <1> QED
    BY <1>4 DEF Max

-----------------------------------------------------------------------------
(* Handles and pointers.                                                    *)

\* The pointers b fit the clients: each client is found by its handle, and where
\* there is no client there is no pointer.
Synced(b, clients) ==
    /\ b \in Seq(0 .. Len(clients))
    /\ \A i \in DOMAIN clients : clients[i].handle < Len(b) /\ b[clients[i].handle + 1] = i
    /\ \A k \in DOMAIN b : b[k] = 0 => k - 1 \notin Handles(clients)

Distinct(clients) ==
    \A i, j \in DOMAIN clients : clients[i].handle = clients[j].handle => i = j

LEMMA SyncedIsDistinct ==
    ASSUME NEW clients \in Seq(Clients), NEW b, Synced(b, clients)
    PROVE  Distinct(clients)
  BY DEF Synced, Distinct

LEMMA HandlesType ==
    ASSUME NEW clients \in Seq(Clients)
    PROVE  /\ Handles(clients) \in SUBSET Nat
           /\ clients # <<>> => Handles(clients) # {}
  <1>1. ASSUME NEW i \in DOMAIN clients PROVE clients[i].handle \in Nat
    <2>1. clients[i] \in Clients
      BY ElementOfSeq, LenProperties
    <2> QED
      BY <2>1 DEF Clients
  <1>2. clients # <<>> => 1 \in DOMAIN clients
    BY EmptySeq
  <1> QED
    BY <1>1, <1>2 DEF Handles

LEMMA ResyncSynced ==
    ASSUME NEW clients \in Seq(Clients), Distinct(clients),
           NEW n \in Nat, \A h \in Handles(clients) : h < n
    PROVE  Synced(ResyncShortcutPointers(clients), clients)
  <1> DEFINE b == ResyncShortcutPointers(clients)
  <1>1. CASE clients = <<>>
    <2>1. b = <<>> /\ DOMAIN clients = {} /\ DOMAIN b = {}
      BY <1>1 DEF ResyncShortcutPointers
    <2>2. b \in Seq(0 .. Len(clients))
      BY <2>1
    <2> QED
      BY <2>1, <2>2 DEF Synced
  <1>2. CASE clients # <<>>
    <2> DEFINE m == Max(Handles(clients)) + 1
    <2>1. Max(Handles(clients)) \in Handles(clients)
          /\ \A h \in Handles(clients) : h <= Max(Handles(clients))
      BY <1>2, HandlesType, MaxIsMaximum
    <2>2. m \in Nat /\ \A h \in Handles(clients) : h \in Nat /\ h < m
      BY <2>1, HandlesType
    <2> DEFINE At(h) == IF h - 1 \in Handles(clients)
                        THEN CHOOSE i \in DOMAIN clients : clients[i].handle = h - 1
                        ELSE 0
    <2>3. b = [h \in 1 .. m |-> At(h)]
      BY <1>2 DEF ResyncShortcutPointers
    <2>4. ASSUME NEW h \in 1 .. m
          PROVE  /\ h - 1 \in Handles(clients) =>
                       At(h) \in DOMAIN clients /\ clients[At(h)].handle = h - 1
                 /\ h - 1 \notin Handles(clients) => At(h) = 0
      BY DEF Handles
    <2> HIDE DEF At, m, b
    <2>5. DOMAIN clients = 1 .. Len(clients) /\ Len(clients) \in Nat
      OBVIOUS
    <2>6. \A h \in 1 .. m : At(h) \in 0 .. Len(clients)
      BY <2>4, <2>5
    <2>7. b \in Seq(0 .. Len(clients)) /\ Len(b) = m /\ DOMAIN b = 1 .. m
      BY <2>2, <2>3, <2>6
    <2>8. ASSUME NEW i \in DOMAIN clients
          PROVE  clients[i].handle < Len(b) /\ b[clients[i].handle + 1] = i
      <3>1. clients[i].handle \in Handles(clients)
        BY DEF Handles
      <3>2. clients[i].handle \in Nat /\ clients[i].handle < m
        BY <3>1, <2>2
      <3>3. clients[i].handle + 1 \in 1 .. m /\ (clients[i].handle + 1) - 1 = clients[i].handle
        BY <3>2, <2>2
      <3>4. /\ At(clients[i].handle + 1) \in DOMAIN clients
            /\ clients[At(clients[i].handle + 1)].handle = clients[i].handle
        BY <3>1, <3>3, <2>4
      <3>5. At(clients[i].handle + 1) = i
        BY <3>4 DEF Distinct
      <3> QED
        BY <3>2, <3>3, <3>5, <2>3, <2>7
    <2>9. ASSUME NEW k \in DOMAIN b, b[k] = 0
          PROVE  k - 1 \notin Handles(clients)
      BY <2>9, <2>3, <2>4, <2>5, <2>7
    <2> QED
      BY <2>7, <2>8, <2>9 DEF Synced, b
  <1> QED
    BY <1>1, <1>2

-----------------------------------------------------------------------------
(* The inductive invariant.                                                 *)

\* The clients, and pointers into them.
ClientsOK ==
    /\ installed \in Seq(Clients)
    /\ \A i \in DOMAIN installed : Len(installed[i].queue) <= MaxSize
    /\ byHandle \in Seq(0 .. Len(installed))
    /\ handle \in [Users -> Nat \cup {NoHandle}]

\* Clients and the handles their users hold agree.
HandlesFit ==
    /\ Synced(byHandle, installed)
    /\ \A i \in DOMAIN installed : handle[installed[i].user] = installed[i].handle
    /\ \A u \in Users : handle[u] # NoHandle => \E i \in DOMAIN installed : installed[i].user = u

ClientInv == ClientsOK /\ HandlesFit

\* A thread that places a message has one, and is at a position of installed.
PlaceOK == \A t \in Threads : at[t] = "place" => message[t] \in Messages /\ index[t] # 0

IInv == TypeOK /\ HandlesFit /\ PlaceOK

LEMMA ClientRecord ==
    ASSUME NEW clients \in Seq(Clients), NEW i \in DOMAIN clients
    PROVE  /\ clients[i] \in Clients
           /\ clients[i].user \in Users
           /\ clients[i].filter \in Filters
           /\ clients[i].queue \in Seq(Messages)
           /\ clients[i].handle \in Nat
  <1>1. clients[i] \in Clients
    BY ElementOfSeq, LenProperties
  <1> QED
    BY <1>1 DEF Clients

\* The pointer of a client's handle is the client's.
LEMMA ClientOfHandle ==
    ASSUME ClientInv, NEW i \in DOMAIN installed
    PROVE  ClientOf(installed[i].handle) = i
  BY DEF ClientInv, ClientsOK, HandlesFit, Synced, ClientOf

\* A user with a handle is found at the position its handle leads to.
LEMMA ClientOfUser ==
    ASSUME ClientInv, NEW u \in Users, handle[u] # NoHandle
    PROVE  /\ ClientOf(handle[u]) \in DOMAIN installed
           /\ ClientOf(handle[u]) # 0
           /\ installed[ClientOf(handle[u])].user = u
  <1>1. PICK i \in DOMAIN installed : installed[i].user = u
    BY DEF ClientInv, HandlesFit
  <1>2. handle[u] = installed[i].handle
    BY <1>1 DEF ClientInv, HandlesFit
  <1>3. ClientOf(handle[u]) = i
    BY <1>2, ClientOfHandle
  <1>4. i # 0
    BY LenProperties DEF ClientInv, ClientsOK
  <1> QED
    BY <1>1, <1>3, <1>4

\* No user has two clients.
LEMMA UsersDistinct ==
    ASSUME ClientInv, NEW i \in DOMAIN installed, NEW j \in DOMAIN installed,
           installed[i].user = installed[j].user
    PROVE  i = j
  <1>1. installed[i].handle = installed[j].handle
    BY DEF ClientInv, HandlesFit
  <1> QED
    BY <1>1, ClientOfHandle

\* A client whose user and handle stay may be replaced.
LEMMA ReplaceClient ==
    ASSUME ClientInv, NEW i \in DOMAIN installed, NEW c \in Clients,
           c.user = installed[i].user, c.handle = installed[i].handle,
           Len(c.queue) <= MaxSize,
           installed' = [installed EXCEPT ![i] = c],
           UNCHANGED <<byHandle, handle>>
    PROVE  ClientInv'
  <1>1. /\ installed \in Seq(Clients)
        /\ DOMAIN installed = 1 .. Len(installed)
        /\ i \in 1 .. Len(installed)
    BY LenProperties DEF ClientInv, ClientsOK
  <1>2. /\ installed' \in Seq(Clients)
        /\ Len(installed') = Len(installed)
        /\ \A j \in 1 .. Len(installed) : installed'[j] = IF j = i THEN c ELSE installed[j]
    BY <1>1, ExceptSeq
  <1>3. DOMAIN installed' = DOMAIN installed
    BY <1>1
  <1>4. \A j \in DOMAIN installed :
            /\ installed'[j].user = installed[j].user
            /\ installed'[j].handle = installed[j].handle
            /\ Len(installed'[j].queue) <= MaxSize
    BY <1>1, <1>2 DEF ClientInv, ClientsOK
  <1>5. Handles(installed') = Handles(installed)
    BY <1>3, <1>4 DEF Handles
  <1>6. Synced(byHandle', installed')
    BY <1>2, <1>3, <1>4, <1>5 DEF ClientInv, HandlesFit, Synced
  <1>7. HandlesFit'
    BY <1>3, <1>4, <1>6 DEF ClientInv, HandlesFit
  <1>8. ClientsOK'
    BY <1>2, <1>3, <1>4 DEF ClientInv, ClientsOK
  <1> QED
    BY <1>7, <1>8 DEF ClientInv

\* A new handle is the handle of no client.
LEMMA FreeHandleIsFree ==
    ASSUME ClientInv
    PROVE  /\ FreeHandle \in Nat
           /\ FreeHandle <= Len(byHandle)
           /\ FreeHandle \notin Handles(installed)
  <1> DEFINE free == {h \in 1 .. Len(byHandle) : byHandle[h] = 0}
  <1>1. Len(byHandle) \in Nat /\ DOMAIN byHandle = 1 .. Len(byHandle)
    BY LenProperties DEF ClientInv, ClientsOK
  <1>2. CASE free # {}
    <2>1. Min(free) \in free
      BY <1>2, MinIsMember
    <2>2. FreeHandle = Min(free) - 1
      BY <1>2 DEF FreeHandle
    <2>3. Min(free) \in DOMAIN byHandle /\ byHandle[Min(free)] = 0
      BY <2>1, <1>1
    <2>4. Min(free) - 1 \notin Handles(installed)
      BY <2>3 DEF ClientInv, HandlesFit, Synced
    <2> HIDE DEF free
    <2> QED
      BY <1>1, <2>2, <2>3, <2>4
  <1>3. CASE free = {}
    <2>1. FreeHandle = Len(byHandle)
      BY <1>3 DEF FreeHandle
    <2>2. \A i \in DOMAIN installed : installed[i].handle < Len(byHandle)
      BY DEF ClientInv, HandlesFit, Synced
    <2>3. Len(byHandle) \notin Handles(installed)
      BY <1>1, <2>2, ClientRecord DEF Handles, ClientInv, ClientsOK
    <2> QED
      BY <1>1, <2>1, <2>3
  <1> QED
    BY <1>2, <1>3

LEMMA RemoveAtProperties ==
    ASSUME NEW S, NEW s \in Seq(S), NEW p \in DOMAIN s
    PROVE  /\ RemoveAt(s, p) \in Seq(S)
           /\ Len(RemoveAt(s, p)) = Len(s) - 1
           /\ \A j \in 1 .. Len(s) - 1 : RemoveAt(s, p)[j] = IF j < p THEN s[j] ELSE s[j + 1]
  <1> DEFINE a == SubSeq(s, 1, p - 1)
             b == SubSeq(s, p + 1, Len(s))
  <1>1. Len(s) \in Nat /\ p \in 1 .. Len(s) /\ \A i \in 1 .. Len(s) : s[i] \in S
    BY LenProperties, ElementOfSeq
  <1>2. a \in Seq(S) /\ Len(a) = p - 1 /\ \A j \in 1 .. p - 1 : a[j] = s[j]
    <2>1. \A i \in 1 .. p - 1 : s[i] \in S
      BY <1>1
    <2> HIDE DEF a
    <2>2. /\ a \in Seq(S)
          /\ Len(a) = IF 1 <= p - 1 THEN (p - 1) - 1 + 1 ELSE 0
          /\ \A j \in 1 .. (p - 1) - 1 + 1 : a[j] = s[1 + j - 1]
      BY <1>1, <2>1, SubSeqProperties DEF a
    <2> QED
      BY <1>1, <2>2
  <1>3. b \in Seq(S) /\ Len(b) = Len(s) - p /\ \A j \in 1 .. Len(s) - p : b[j] = s[p + j]
    <2>1. \A i \in p + 1 .. Len(s) : s[i] \in S
      BY <1>1
    <2> HIDE DEF b
    <2>2. /\ b \in Seq(S)
          /\ Len(b) = IF p + 1 <= Len(s) THEN Len(s) - (p + 1) + 1 ELSE 0
          /\ \A j \in 1 .. Len(s) - (p + 1) + 1 : b[j] = s[(p + 1) + j - 1]
      BY <1>1, <2>1, SubSeqProperties DEF b
    <2> QED
      BY <1>1, <2>2
  <1>4. RemoveAt(s, p) = a \o b
    BY DEF RemoveAt
  <1> HIDE DEF a, b
  <1>5. /\ a \o b \in Seq(S)
        /\ Len(a \o b) = Len(a) + Len(b)
        /\ \A j \in 1 .. Len(a) + Len(b) : (a \o b)[j] = IF j <= Len(a) THEN a[j] ELSE b[j - Len(a)]
    BY <1>2, <1>3, ConcatProperties
  <1>6. ASSUME NEW j \in 1 .. Len(s) - 1
        PROVE  (a \o b)[j] = IF j < p THEN s[j] ELSE s[j + 1]
    <2>1. j \in 1 .. Len(a) + Len(b)
      BY <1>1, <1>2, <1>3
    <2>2. CASE j < p
      BY <1>1, <1>2, <1>5, <2>1, <2>2
    <2>3. CASE ~ (j < p)
      <3>1. j - Len(a) \in 1 .. Len(s) - p /\ p + (j - Len(a)) = j + 1 /\ ~ (j <= Len(a))
        BY <1>1, <1>2, <2>3
      <3> QED
        BY <1>3, <1>5, <2>1, <2>3, <3>1
    <2> QED
      BY <2>2, <2>3
  <1>7. Len(a) + Len(b) = Len(s) - 1
    BY <1>1, <1>2, <1>3
  <1> QED
    BY <1>4, <1>5, <1>6, <1>7

\* Registration gives the new client a handle of its own and moves nobody.
LEMMA RegisterKeepsClients ==
    ASSUME ClientInv, NEW u \in Users, NEW filter \in Filters, RegisterClient(u, filter)
    PROVE  ClientInv'
  <1> DEFINE c == [user |-> u, filter |-> filter, queue |-> <<>>, handle |-> FreeHandle]
             n == Len(installed)
  <1>1. /\ installed \in Seq(Clients)
        /\ n \in Nat /\ DOMAIN installed = 1 .. n
        /\ Len(byHandle) \in Nat
    BY LenProperties DEF ClientInv, ClientsOK
  <1>2. /\ FreeHandle \in Nat
        /\ FreeHandle <= Len(byHandle)
        /\ FreeHandle \notin Handles(installed)
    BY FreeHandleIsFree
  <1>3. c \in Clients
    BY <1>2 DEF Clients
  <1>4. installed' = Append(installed, c)
    BY DEF RegisterClient
  <1>5. c.user = u /\ c.handle = FreeHandle /\ c.queue = <<>>
    OBVIOUS
  <1> HIDE DEF c
  <1>6. /\ installed' \in Seq(Clients)
        /\ Len(installed') = n + 1
        /\ \A i \in 1 .. n : installed'[i] = installed[i]
        /\ installed'[n + 1] = c
        /\ DOMAIN installed' = 1 .. n + 1
    BY <1>1, <1>3, <1>4, AppendProperties, LenProperties
  <1>7. \A i \in 1 .. n : /\ installed[i].handle \in Handles(installed)
                          /\ installed[i].handle \in Nat
                          /\ installed[i].handle < Len(byHandle)
    BY <1>1, ClientRecord DEF Handles, ClientInv, HandlesFit, Synced
  <1>8. Distinct(installed')
    <2>1. Distinct(installed)
      BY <1>1, SyncedIsDistinct DEF ClientInv, HandlesFit
    <2>2. \A i \in 1 .. n : installed'[i].handle # installed'[n + 1].handle
      BY <1>2, <1>5, <1>6, <1>7
    <2>3. \A i \in 1 .. n + 1 : i \in 1 .. n \/ i = n + 1
      BY <1>1
    <2> QED
      BY <1>1, <1>6, <2>1, <2>2, <2>3 DEF Distinct
  <1>9. \A h \in Handles(installed') : h < Len(byHandle) + 1
    <2>1. \A i \in 1 .. n + 1 : installed'[i].handle < Len(byHandle) + 1
      BY <1>1, <1>2, <1>5, <1>6, <1>7
    <2> QED
      BY <1>6, <2>1 DEF Handles
  <1>10. Synced(byHandle', installed')
    <2>1. Len(byHandle) + 1 \in Nat
      BY <1>1
    <2>2. byHandle' = ResyncShortcutPointers(installed')
      BY DEF RegisterClient
    <2> QED
      BY <1>6, <1>8, <1>9, <2>1, <2>2, ResyncSynced
  <1>11. handle' = [handle EXCEPT ![u] = FreeHandle] /\ handle[u] = NoHandle
    BY DEF RegisterClient
  <1>12. /\ handle \in [Users -> Nat \cup {NoHandle}]
         /\ handle' \in [Users -> Nat \cup {NoHandle}]
    BY <1>2, <1>11 DEF ClientInv, ClientsOK
  <1>13. ASSUME NEW i \in 1 .. n PROVE installed[i].user \in Users /\ installed[i].user # u
    <2>1. installed[i].user \in Users
      BY <1>1, ClientRecord
    <2>2. handle[installed[i].user] = installed[i].handle /\ installed[i].handle # NoHandle
      BY <1>1, <1>7, UserAssumption DEF ClientInv, HandlesFit
    <2> QED
      BY <1>11, <2>1, <2>2
  <1>14. ASSUME NEW i \in DOMAIN installed' PROVE handle'[installed'[i].user] = installed'[i].handle
    <2>1. CASE i \in 1 .. n
      BY <1>1, <1>6, <1>11, <1>12, <1>13, <2>1 DEF ClientInv, HandlesFit
    <2>2. CASE i = n + 1
      BY <1>5, <1>6, <1>11, <1>12, <2>2
    <2> QED
      BY <1>1, <1>6, <2>1, <2>2
  <1>15. ASSUME NEW v \in Users, handle'[v] # NoHandle
         PROVE  \E i \in DOMAIN installed' : installed'[i].user = v
    <2>1. CASE v = u
      BY <1>1, <1>5, <1>6, <2>1
    <2>2. CASE v # u
      <3>1. PICK i \in 1 .. n : installed[i].user = v
        BY <1>1, <1>11, <1>12, <1>15, <2>2 DEF ClientInv, HandlesFit
      <3>2. i \in 1 .. n + 1
        BY <1>1
      <3> QED
        BY <1>6, <3>1, <3>2
    <2> QED
      BY <2>1, <2>2
  <1>16. \A i \in DOMAIN installed' : Len(installed'[i].queue) <= MaxSize
    <2>1. Len(<<>>) = 0 /\ MaxSize \in Nat /\ 0 <= MaxSize
      BY BoundAssumption
    <2> QED
      BY <1>1, <1>5, <1>6, <2>1 DEF ClientInv, ClientsOK
  <1> QED
    BY <1>6, <1>10, <1>12, <1>14, <1>15, <1>16 DEF ClientInv, ClientsOK, HandlesFit, Synced

\* Removal takes one client away and moves the pointers of those behind it.
LEMMA RemoveKeepsClients ==
    ASSUME ClientInv, NEW u \in Users, RemoveClient(u)
    PROVE  ClientInv'
  <1> DEFINE p == ClientOf(handle[u])
             n == Len(installed)
             From(j) == IF j < p THEN j ELSE j + 1
  <1>1. /\ installed \in Seq(Clients)
        /\ n \in Nat /\ DOMAIN installed = 1 .. n
        /\ Len(byHandle) \in Nat
    BY LenProperties DEF ClientInv, ClientsOK
  <1>2. p \in 1 .. n /\ installed[p].user = u
    BY <1>1, ClientOfUser DEF RemoveClient
  <1>3. installed' = RemoveAt(installed, p) /\ byHandle' = ResyncShortcutPointers(installed')
    BY DEF RemoveClient, RemoveAtPosition
  <1>4. handle' = [handle EXCEPT ![u] = NoHandle]
    BY DEF RemoveClient
  <1> HIDE DEF p
  <1>5. /\ installed' \in Seq(Clients)
        /\ Len(installed') = n - 1
        /\ \A j \in 1 .. n - 1 : installed'[j] = installed[From(j)]
        /\ DOMAIN installed' = 1 .. n - 1
    <2>1. /\ installed' \in Seq(Clients)
          /\ Len(installed') = n - 1
          /\ \A j \in 1 .. n - 1 : installed'[j] = IF j < p THEN installed[j] ELSE installed[j + 1]
      BY <1>1, <1>2, <1>3, RemoveAtProperties
    <2> QED
      BY <2>1, LenProperties
  <1>6. \A j \in 1 .. n - 1 : From(j) \in 1 .. n /\ From(j) # p
    BY <1>1, <1>2
  <1>7. \A i, j \in 1 .. n - 1 : From(i) = From(j) => i = j
    BY <1>1, <1>2
  <1>8. \A i \in 1 .. n : i # p => \E j \in 1 .. n - 1 : From(j) = i
    <2> SUFFICES ASSUME NEW i \in 1 .. n, i # p PROVE \E j \in 1 .. n - 1 : From(j) = i
      OBVIOUS
    <2>1. CASE i < p
      BY <1>1, <1>2, <2>1
    <2>2. CASE i > p
      <3>1. i - 1 \in 1 .. n - 1 /\ From(i - 1) = i
        BY <1>1, <1>2, <2>2
      <3> QED
        BY <3>1
    <2> QED
      BY <1>1, <1>2, <2>1, <2>2
  <1> HIDE DEF From
  <1>9. Distinct(installed')
    <2>1. Distinct(installed)
      BY <1>1, SyncedIsDistinct DEF ClientInv, HandlesFit
    <2> QED
      BY <1>1, <1>5, <1>6, <1>7, <2>1 DEF Distinct
  <1>10. \A h \in Handles(installed') : h < Len(byHandle)
    <2>1. \A i \in 1 .. n : installed[i].handle < Len(byHandle)
      BY <1>1 DEF ClientInv, HandlesFit, Synced
    <2>2. \A j \in 1 .. n - 1 : installed'[j].handle < Len(byHandle)
      BY <1>5, <1>6, <2>1
    <2> QED
      BY <1>5, <2>2 DEF Handles
  <1>11. Synced(byHandle', installed')
    BY <1>1, <1>3, <1>5, <1>9, <1>10, ResyncSynced
  <1>12. /\ handle \in [Users -> Nat \cup {NoHandle}]
         /\ handle' \in [Users -> Nat \cup {NoHandle}]
    BY <1>4 DEF ClientInv, ClientsOK
  <1>13. ASSUME NEW j \in DOMAIN installed' PROVE handle'[installed'[j].user] = installed'[j].handle
    <2>1. From(j) \in DOMAIN installed /\ From(j) # p /\ installed'[j] = installed[From(j)]
      BY <1>1, <1>5, <1>6
    <2>2. installed[From(j)].user # u
      BY <1>1, <1>2, <2>1, UsersDistinct
    <2>3. installed[From(j)].user \in Users
      BY <1>1, <2>1, ClientRecord
    <2> QED
      BY <1>4, <1>12, <2>1, <2>2, <2>3 DEF ClientInv, HandlesFit
  <1>14. ASSUME NEW v \in Users, handle'[v] # NoHandle
         PROVE  \E j \in DOMAIN installed' : installed'[j].user = v
    <2>1. v # u /\ handle[v] # NoHandle
      BY <1>4, <1>12, <1>14
    <2>2. PICK i \in DOMAIN installed : installed[i].user = v
      BY <2>1 DEF ClientInv, HandlesFit
    <2>3. PICK j \in 1 .. n - 1 : From(j) = i
      BY <1>1, <1>2, <1>8, <2>1, <2>2
    <2> QED
      BY <1>5, <2>2, <2>3
  <1>15. \A j \in DOMAIN installed' : Len(installed'[j].queue) <= MaxSize
    BY <1>1, <1>5, <1>6 DEF ClientInv, ClientsOK
  <1> QED
    BY <1>5, <1>11, <1>12, <1>13, <1>14, <1>15 DEF ClientInv, ClientsOK, HandlesFit, Synced

LEMMA SameClients ==
    ASSUME ClientInv, UNCHANGED <<installed, byHandle, handle>>
    PROVE  ClientInv'
  BY DEF ClientInv, ClientsOK, HandlesFit, Synced, Handles

LEMMA NewQueue ==
    ASSUME ClientInv, NEW i \in DOMAIN installed, NEW q \in Seq(Messages), Len(q) <= MaxSize,
           installed' = [installed EXCEPT ![i].queue = q], UNCHANGED <<byHandle, handle>>
    PROVE  ClientInv'
  <1> DEFINE c == [installed[i] EXCEPT !.queue = q]
  <1>1. installed[i] \in Clients
    BY ClientRecord DEF ClientInv, ClientsOK
  <1>2. /\ c \in Clients /\ c.user = installed[i].user /\ c.handle = installed[i].handle
        /\ c.queue = q
    BY <1>1 DEF Clients
  <1>3. installed' = [installed EXCEPT ![i] = c]
    OBVIOUS
  <1> HIDE DEF c
  <1> QED
    BY <1>2, <1>3, ReplaceClient

LEMMA NewFilter ==
    ASSUME ClientInv, NEW i \in DOMAIN installed, NEW f \in Filters,
           installed' = [installed EXCEPT ![i].filter = f], UNCHANGED <<byHandle, handle>>
    PROVE  ClientInv'
  <1> DEFINE c == [installed[i] EXCEPT !.filter = f]
  <1>1. installed[i] \in Clients
    BY ClientRecord DEF ClientInv, ClientsOK
  <1>2. /\ c \in Clients /\ c.user = installed[i].user /\ c.handle = installed[i].handle
        /\ c.queue = installed[i].queue
    BY <1>1 DEF Clients
  <1>3. installed' = [installed EXCEPT ![i] = c]
    OBVIOUS
  <1>4. Len(installed[i].queue) <= MaxSize
    BY DEF ClientInv, ClientsOK
  <1> HIDE DEF c
  <1> QED
    BY <1>2, <1>3, <1>4, ReplaceClient

\* The variables that are neither clients nor pointers.
RestOK ==
    /\ bus \in Seq(Messages)
    /\ lock \in Threads \cup {Nobody}
    /\ at \in [Threads -> {"idle", "acquire", "place"}]
    /\ \A t \in Threads : lock = t <=> at[t] = "place"
    /\ message \in [Threads -> Messages \cup {NoMessage}]
    /\ index \in [Threads -> Nat]
    /\ read \in Seq(Messages)
    /\ got \in [Users -> Seq(Messages)]
    /\ lost \in [Users -> SUBSET Messages]
    /\ since \in [Users -> Nat]
    /\ used \in Used

LEMMA Parts == IInv <=> ClientInv /\ RestOK /\ PlaceOK
  BY DEF IInv, ClientInv, ClientsOK, RestOK, TypeOK

\* A bound is used up one by one.
LEMMA UsedGrows ==
    ASSUME RestOK
    PROVE  /\ used.message < MaxMessages => [used EXCEPT !.message = @ + 1] \in Used
           /\ used.register < MaxRegister => [used EXCEPT !.register = @ + 1] \in Used
           /\ used.filter < MaxSetFilter => [used EXCEPT !.filter = @ + 1] \in Used
           /\ used.clear < MaxClear => [used EXCEPT !.clear = @ + 1] \in Used
  <1>1. /\ MaxMessages \in Nat /\ MaxRegister \in Nat
        /\ MaxSetFilter \in Nat /\ MaxClear \in Nat
    BY BoundAssumption
  <1>2. used \in Used
    BY DEF RestOK
  <1>3. /\ used.message \in 0 .. MaxMessages /\ used.register \in 0 .. MaxRegister
        /\ used.filter \in 0 .. MaxSetFilter /\ used.clear \in 0 .. MaxClear
    BY <1>2 DEF Used
  <1>4. /\ used.message < MaxMessages => used.message + 1 \in 0 .. MaxMessages
        /\ used.register < MaxRegister => used.register + 1 \in 0 .. MaxRegister
        /\ used.filter < MaxSetFilter => used.filter + 1 \in 0 .. MaxSetFilter
        /\ used.clear < MaxClear => used.clear + 1 \in 0 .. MaxClear
    BY <1>1, <1>3
  <1> QED
    BY <1>2, <1>4 DEF Used

LEMMA InitIInv == Init => IInv
  <1> SUFFICES ASSUME Init PROVE ClientInv /\ RestOK /\ PlaceOK
    BY Parts
  <1>1. DOMAIN <<>> = {} /\ Len(<<>>) = 0
    OBVIOUS
  <1>2. ClientInv
    BY <1>1 DEF Init, ClientInv, ClientsOK, HandlesFit, Synced
  <1>3. RestOK
    BY UserAssumption, BoundAssumption DEF Init, RestOK, Used
  <1>4. PlaceOK
    BY DEF Init, PlaceOK
  <1> QED
    BY <1>2, <1>3, <1>4

\* What a client's queue gains or loses is a message or a part of the queue.
LEMMA QueueTypes ==
    ASSUME ClientInv, NEW i \in DOMAIN installed
    PROVE  /\ installed[i].queue \in Seq(Messages)
           /\ Len(installed[i].queue) <= MaxSize
           /\ installed[i].user \in Users
  BY ClientRecord DEF ClientInv, ClientsOK

LEMMA NextIInv == IInv /\ [Next]_vars => IInv'
  <1> SUFFICES ASSUME ClientInv, RestOK, PlaceOK, [Next]_vars
               PROVE  ClientInv' /\ RestOK' /\ PlaceOK'
    BY Parts DEF IInv, TypeOK, ClientInv, ClientsOK, HandlesFit, Synced, RestOK, PlaceOK, Handles
  <1>1. ASSUME NEW u \in Users, NEW filter \in Filters, RegisterClient(u, filter)
        PROVE  ClientInv' /\ RestOK' /\ PlaceOK'
    <2>1. ClientInv'
      BY <1>1, RegisterKeepsClients
    <2>2. Len(read) \in Nat
      BY DEF RestOK
    <2>3. RestOK'
      BY <1>1, <2>2, UsedGrows DEF RegisterClient, RestOK, calls
    <2>4. PlaceOK'
      BY <1>1 DEF RegisterClient, PlaceOK, calls
    <2> QED
      BY <2>1, <2>3, <2>4
  <1>2. ASSUME NEW u \in Users, NEW filter \in Filters, SetRXFilter(u, filter)
        PROVE  ClientInv' /\ RestOK' /\ PlaceOK'
    <2>1. ClientOf(handle[u]) \in DOMAIN installed
      BY <1>2, ClientOfUser DEF SetRXFilter
    <2>2. ClientInv'
      BY <1>2, <2>1, NewFilter DEF SetRXFilter
    <2>3. Len(read) \in Nat
      BY DEF RestOK
    <2>4. RestOK'
      BY <1>2, <2>3, UsedGrows DEF SetRXFilter, RestOK, calls
    <2>5. PlaceOK'
      BY <1>2 DEF SetRXFilter, PlaceOK, calls
    <2> QED
      BY <2>2, <2>4, <2>5
  <1>3. ASSUME NEW u \in Users, RemoveClient(u)
        PROVE  ClientInv' /\ RestOK' /\ PlaceOK'
    <2>1. ClientInv'
      BY <1>3, RemoveKeepsClients
    <2>2. RestOK'
      BY <1>3 DEF RemoveClient, RestOK, calls
    <2>3. PlaceOK'
      BY <1>3 DEF RemoveClient, PlaceOK, calls
    <2> QED
      BY <2>1, <2>2, <2>3
  <1>4. ASSUME NEW u \in Users, ReadFromQueue(u)
        PROVE  ClientInv' /\ RestOK' /\ PlaceOK'
    <2> DEFINE i == ClientOf(handle[u])
               q == installed[i].queue
    <2>1. /\ handle[u] # NoHandle
          /\ q # <<>>
          /\ installed' = [installed EXCEPT ![i].queue = Tail(q)]
          /\ got' = [got EXCEPT ![u] = Append(got[u], Head(q))]
          /\ UNCHANGED <<bus, byHandle, handle, lock, at, message, index, read, lost, since, used>>
      BY <1>4 DEF ReadFromQueue, calls
    <2>2. i \in DOMAIN installed
      BY <2>1, ClientOfUser
    <2>3. q \in Seq(Messages) /\ Len(q) <= MaxSize
      BY <2>2, QueueTypes
    <2>4. Head(q) \in Messages /\ Tail(q) \in Seq(Messages) /\ Len(Tail(q)) <= MaxSize
      <3>1. Head(q) \in Messages /\ Tail(q) \in Seq(Messages) /\ Len(Tail(q)) = Len(q) - 1
        BY <2>1, <2>3, HeadTailProperties
      <3>2. Len(q) \in Nat /\ MaxSize \in Nat
        BY <2>3, BoundAssumption
      <3> QED
        BY <2>3, <3>1, <3>2
    <2>5. ClientInv'
      BY <2>1, <2>2, <2>4, NewQueue
    <2> HIDE DEF q, i
    <2>6. RestOK'
      BY <2>1, <2>4 DEF RestOK
    <2>7. PlaceOK'
      BY <2>1 DEF PlaceOK
    <2> QED
      BY <2>5, <2>6, <2>7
  <1>5. ASSUME NEW u \in Users, ClearQueue(u)
        PROVE  ClientInv' /\ RestOK' /\ PlaceOK'
    <2> DEFINE i == ClientOf(handle[u])
               q == installed[i].queue
    <2>1. /\ handle[u] # NoHandle
          /\ installed' = [installed EXCEPT ![i].queue = <<>>]
          /\ got' = [got EXCEPT ![u] = got[u] \o q]
          /\ used.clear < MaxClear
          /\ used' = [used EXCEPT !.clear = used.clear + 1]
          /\ UNCHANGED <<bus, byHandle, handle, lock, at, message, index, read, lost, since>>
      BY <1>5 DEF ClearQueue, calls
    <2>2. i \in DOMAIN installed
      BY <2>1, ClientOfUser
    <2>3. q \in Seq(Messages)
      BY <2>2, QueueTypes
    <2>4. <<>> \in Seq(Messages) /\ Len(<<>>) <= MaxSize
      BY BoundAssumption
    <2>5. ClientInv'
      BY <2>1, <2>2, <2>4, NewQueue
    <2> HIDE DEF q, i
    <2>6. RestOK'
      BY <2>1, <2>3, UsedGrows DEF RestOK
    <2>7. PlaceOK'
      BY <2>1 DEF PlaceOK
    <2> QED
      BY <2>5, <2>6, <2>7
  <1>6. ASSUME NEW t \in Threads, DispatchIncoming(t)
        PROVE  ClientInv' /\ RestOK' /\ PlaceOK'
    <2>1. CASE StartDispatchIncoming(t)
      BY <2>1, SameClients DEF StartDispatchIncoming, RestOK, PlaceOK
    <2>2. CASE ReadMessage(t)
      <3>1. Head(bus) \in Messages /\ Tail(bus) \in Seq(Messages)
        BY <2>2, HeadTailProperties DEF ReadMessage, RestOK
      <3>2. RestOK'
        BY <2>2, <3>1, UserAssumption DEF ReadMessage, LockFree, RestOK
      <3>3. PlaceOK'
        BY <2>2, <3>1 DEF ReadMessage, RestOK, PlaceOK
      <3> QED
        BY <2>2, <3>2, <3>3, SameClients DEF ReadMessage
    <2>3. CASE NoMoreMessages(t)
      BY <2>3, SameClients DEF NoMoreMessages, RestOK, PlaceOK
    <2>4. CASE PlaceMessage(t)
      <3> DEFINE i == index[t]
                 m == message[t]
      <3>1. /\ m \in Messages /\ i \in DOMAIN installed
            /\ \/ UNCHANGED <<installed, lost>>
               \/ Push(i, m)
            /\ index' = [index EXCEPT ![t] = i + 1]
            /\ UNCHANGED <<bus, byHandle, handle, lock, at, message, read, got, since, used>>
        BY <2>4 DEF PlaceMessage, PlaceOK, RestOK, ClientInv, ClientsOK
      <3> HIDE DEF i, m
      <3>2. i \in Nat
        BY DEF RestOK, i
      <3>3. CASE UNCHANGED <<installed, lost>>
        BY <3>1, <3>2, <3>3, SameClients DEF RestOK, PlaceOK
      <3>4. CASE Push(i, m)
        <4>1. /\ installed[i].queue \in Seq(Messages)
              /\ Len(installed[i].queue) <= MaxSize
              /\ installed[i].user \in Users
          BY <3>1, QueueTypes
        <4>2. CASE Full(installed[i].queue)
          <5>1. /\ lost' = [lost EXCEPT ![installed[i].user] = lost[installed[i].user] \cup {m}]
                /\ installed' = installed
            BY <3>4, <4>2 DEF Push
          <5> QED
            BY <3>1, <3>2, <4>1, <5>1, SameClients DEF RestOK, PlaceOK
        <4>3. CASE ~ Full(installed[i].queue)
          <5>1. /\ installed' = [installed EXCEPT ![i].queue = Append(installed[i].queue, m)]
                /\ lost' = lost
            BY <3>4, <4>3 DEF Push
          <5>2. /\ Append(installed[i].queue, m) \in Seq(Messages)
                /\ Len(Append(installed[i].queue, m)) <= MaxSize
            BY <3>1, <4>1, <4>3, AppendProperties, BoundAssumption DEF Full
          <5>3. ClientInv'
            BY <3>1, <5>1, <5>2, NewQueue
          <5> QED
            BY <3>1, <3>2, <5>1, <5>3 DEF RestOK, PlaceOK
        <4> QED
          BY <4>2, <4>3
      <3> QED
        BY <3>1, <3>3, <3>4
    <2>5. CASE Release(t)
      <3>1. RestOK'
        BY <2>5, UserAssumption DEF Release, RestOK
      <3>2. PlaceOK'
        BY <2>5 DEF Release, PlaceOK, RestOK
      <3> QED
        BY <2>5, <3>1, <3>2, SameClients DEF Release
    <2> QED
      BY <1>6, <2>1, <2>2, <2>3, <2>4, <2>5 DEF DispatchIncoming
  <1>7. CASE Arrive
    <2>1. PICK id \in Identifiers : bus' = Append(bus, [nr |-> used'.message, id |-> id])
      BY <1>7 DEF Arrive
    <2>2. /\ used.message < MaxMessages
          /\ used' = [used EXCEPT !.message = used.message + 1]
          /\ UNCHANGED <<installed, byHandle, handle, lock, at, message, index, read, got, lost,
                         since>>
      BY <1>7 DEF Arrive, calls
    <2>3. used'.message \in 1 .. MaxMessages
      BY <2>2, BoundAssumption DEF RestOK, Used
    <2>4. bus' \in Seq(Messages)
      BY <2>1, <2>3 DEF Messages, RestOK
    <2>5. RestOK'
      BY <2>2, <2>4, UsedGrows DEF RestOK
    <2>6. PlaceOK'
      BY <2>2 DEF PlaceOK
    <2> QED
      BY <2>2, <2>5, <2>6, SameClients
  <1>8. CASE UNCHANGED vars
    BY <1>8, SameClients DEF vars, RestOK, PlaceOK
  <1> QED
    BY <1>1, <1>2, <1>3, <1>4, <1>5, <1>6, <1>7, <1>8 DEF Next

THEOREM Invariance == Spec => []IInv
  BY InitIInv, NextIInv, PTL DEF Spec

-----------------------------------------------------------------------------
(* Theorems.                                                                *)

\* Every variable of the dispatcher keeps its type, no queue outgrows its size, and
\* the critical section is held by the thread that places a message, and no other.
THEOREM TypeCorrect == Spec => []TypeOK
  <1>1. IInv => TypeOK
    BY DEF IInv
  <1> QED
    BY <1>1, Invariance, PTL

\* Whatever clients are registered and removed, in whatever order, each handle that
\* RegisterClient has given leads to the client of the user that holds it.
THEOREM HandlesCorrect == Spec => []HandlesStable
  <1>1. IInv => HandlesStable
    <2> SUFFICES ASSUME ClientInv PROVE HandlesStable
      BY Parts
    <2>1. \A i \in DOMAIN installed : handle[installed[i].user] = installed[i].handle
      BY DEF ClientInv, HandlesFit
    <2> QED
      BY <2>1, ClientOfUser DEF HandlesStable
  <1> QED
    BY <1>1, Invariance, PTL
=============================================================================
