-------------------------- MODULE OsyPollingProofs --------------------------
(***************************************************************************)
(* Invariants of OsyPolling: what holds for any threads, calls and bounds,   *)
(* and what holds where one application thread polls a driver.              *)
(***************************************************************************)
EXTENDS OsyPolling, SequenceFacts, TLAPS

USE DEF CallAssumption, ThreadAssumption, BoundAssumption

Used == [event : 0 .. MaxEvents, pending : Nat, silent : Nat, fail : Nat, late : Nat]

\* The responses a server sends: events belong to no call, the others to the call
\* they answer, and their form says which.
WellFormed(r) ==
    /\ r.call \in Calls <=> r.kind \in {"positive", "negative", "pending"}
    /\ r.kind = "data" => ~r.neg /\ r.sid = "EVENT" /\ r.size = 5
    /\ r.kind = "error" => r.neg /\ r.sid = "EVENT" /\ r.size = 6
    /\ r.kind = "positive" =>
          /\ ~r.neg /\ r.sid = SidOf(Op[r.call])
          /\ r.size = CASE Op[r.call] = "read" -> 5 [] Op[r.call] = "register" -> 4
                        [] Op[r.call] = "stop" -> 1
    /\ r.kind = "negative" =>
          r.neg /\ r.sid = SidOf(Op[r.call]) /\ (r.size > 3 => r.elem = Element[r.call])
    /\ r.kind = "pending" => r.neg /\ r.sid = SidOf(Op[r.call]) /\ r.size = 3

Sent == {r \in Responses : WellFormed(r)}

\* The type invariant, with the responses there really are.
ThreadTypes ==
    /\ pc \in [Threads -> {"idle", "sent", "polling", "reading"}]
    /\ current \in [Pollers -> Calls \cup {NoCall}]
    /\ timeOver \in [Pollers -> BOOLEAN]
    /\ lock \in Threads \cup {Nobody}
    /\ \A t \in Threads : lock = t <=> pc[t] \in {"polling", "reading"}
    /\ \A t \in Pollers : current[t] = NoCall <=> pc[t] = "idle"

CallTypes ==
    /\ todo \subseteq Calls
    /\ result \in [Calls -> Results]
    /\ answer \in [Calls -> Sent \cup {NoAnswer}]

QueueTypes ==
    /\ txQueue \in Seq(Calls)
    /\ Len(txQueue) <= MaxServiceQueueSize
    /\ toServer \in Seq(Calls)
    /\ fromServer \in Seq(Sent)
    /\ rxQueue \in Seq(Sent)
    /\ reported \in Seq(Sent)

ServerTypes ==
    /\ active \subseteq Elements
    /\ answered \subseteq Calls
    /\ snatched \subseteq Calls
    /\ emitted \in Seq(Sent)
    /\ used \in Used

Types == ThreadTypes /\ CallTypes /\ QueueTypes /\ ServerTypes

Requests == ToSet(txQueue) \cup ToSet(toServer)

\* What is to be read, from the oldest on.
Arriving == rxQueue \o fromServer

\* A call is made once, by its own thread, and leaves no trace before.
CallsOnce ==
    /\ \A t \in Pollers : current[t] \in Calls =>
          /\ Caller[current[t]] = t
          /\ current[t] \notin todo
          /\ answer[current[t]] = NoAnswer
          /\ result[current[t]] = "none"
    /\ \A c \in todo :
          answer[c] = NoAnswer /\ result[c] = "none" /\ c \notin answered /\ c \notin Requests

IsEvent(r) == r.kind \in {"data", "error"}

EventsIn(s) == {r \in ToSet(s) : IsEvent(r)}

Ordered(s) ==
    \A i, j \in DOMAIN s : i < j /\ IsEvent(s[i]) /\ IsEvent(s[j]) => s[i].nr < s[j].nr

Taken == {answer[c] : c \in Taking}

\* Events of both kinds are numbered as they are sent, and each is in the stream or
\* was taken for an answer.
Numbered ==
    /\ EventsIn(Stream) = EventsIn(emitted) \ Taken
    /\ Taken \subseteq EventsIn(emitted)
    /\ Ordered(Stream)
    /\ \A r \in EventsIn(emitted) : r.nr <= used.event

\* Who takes an error event, and that no two do.
TakenOnce ==
    /\ \A c \in Taking : Op[c] # "stop" => Op[c] = "register" /\ answer[c].elem = Element[c]
    /\ \A c, d \in Taking : answer[c] = answer[d] => c = d

-----------------------------------------------------------------------------
(* One application thread.  s is a sequence of responses, c a call.           *)

Final(r) == r.kind \in {"positive", "negative"}

Events(s) == \A i \in DOMAIN s : s[i].call = NoCall

OwnOnly(s, c) == \A i \in DOMAIN s : s[i].call \in Calls => s[i].call = c

NoFinal(s) == \A i \in DOMAIN s : ~Final(s[i])

FinalLast(s) == \A i, j \in DOMAIN s : Final(s[i]) /\ i < j => s[j].call = NoCall

HasFinal(s, c) == \E i \in DOMAIN s : Final(s[i]) /\ s[i].call = c

\* Of the call t is in, only one thing is under way: its request, or after it the
\* answers, the final one last; and nothing is of another call.
OneCall(t) ==
    /\ Len(txQueue) + Len(toServer) <= 1
    /\ Requests \subseteq {current[t]} \ answered
    /\ OwnOnly(Arriving, current[t])
    /\ txQueue # <<>> => Events(Arriving)
    /\ toServer # <<>> => NoFinal(Arriving)
    /\ FinalLast(Arriving)

\* An answer the server has given is to be read until a thread has read it.
AnswerThere(t) == current[t] \in answered \ snatched => HasFinal(Arriving, current[t])

\* Time is over when nothing is to come.
OverWhenSilent(t) == timeOver[t] /\ pc[t] # "idle" => ~ToCome(current[t])

OneThing(t) == OneCall(t) /\ AnswerThere(t) /\ OverWhenSilent(t)

Flow == Undisturbed => OwnAnswer /\ TimeoutOnlyIfSilent /\ \A t \in Pollers : OneThing(t)

OnePoller == \A t, u \in Pollers : t = u

-----------------------------------------------------------------------------
(* What the server sends.                                                   *)

LEMMA SentIsResponse == Sent \subseteq Responses
  BY DEF Sent

LEMMA PositiveIsSent ==
    ASSUME NEW c \in Calls
    PROVE  PositiveAnswer(c) \in Sent
  <1>1. Op[c] \in {"read", "register", "stop"} /\ Element[c] \in Elements
    BY CallAssumption DEF Ops
  <1>2. PositiveAnswer(c) \in Responses
    BY <1>1, BoundAssumption, CallAssumption DEF PositiveAnswer, Responses, SidOf
  <1>3. WellFormed(PositiveAnswer(c))
    BY <1>1, BoundAssumption, CallAssumption DEF PositiveAnswer, WellFormed, SidOf
  <1> QED
    BY <1>2, <1>3 DEF Sent

LEMMA NegativeIsSent ==
    ASSUME NEW c \in Calls, NEW extended \in BOOLEAN
    PROVE  NegativeAnswer(c, extended) \in Sent
  <1>1. Op[c] \in {"read", "register", "stop"} /\ Element[c] \in Elements
    BY CallAssumption DEF Ops
  <1>2. NegativeAnswer(c, extended) \in Responses
    BY <1>1, BoundAssumption, CallAssumption DEF NegativeAnswer, Responses, SidOf
  <1>3. WellFormed(NegativeAnswer(c, extended))
    BY <1>1, BoundAssumption, CallAssumption DEF NegativeAnswer, WellFormed, SidOf
  <1> QED
    BY <1>2, <1>3 DEF Sent

LEMMA PendingIsSent ==
    ASSUME NEW c \in Calls
    PROVE  PendingAnswer(c) \in Sent
  <1>1. Op[c] \in {"read", "register", "stop"}
    BY CallAssumption DEF Ops
  <1>2. PendingAnswer(c) \in Responses
    BY <1>1, BoundAssumption, CallAssumption DEF PendingAnswer, Responses, SidOf
  <1>3. WellFormed(PendingAnswer(c))
    BY <1>1, BoundAssumption, CallAssumption DEF PendingAnswer, WellFormed, SidOf
  <1> QED
    BY <1>2, <1>3 DEF Sent

LEMMA EventIsSent ==
    ASSUME NEW kind \in EventKinds, NEW e \in Elements, NEW nr \in 0 .. MaxEvents
    PROVE  Event(kind, e, nr) \in Sent
  <1>1. kind = "data" \/ kind = "error"
    BY BoundAssumption
  <1>2. Event(kind, e, nr) \in Responses
    BY <1>1, CallAssumption DEF Event, Responses
  <1>3. WellFormed(Event(kind, e, nr))
    BY <1>1, CallAssumption DEF Event, WellFormed
  <1> QED
    BY <1>2, <1>3 DEF Sent

-----------------------------------------------------------------------------
(* Types.                                                                   *)

LEMMA TypesSuffice == Types => TypeOK
  <1>1. \A s \in Seq(Sent) : s \in Seq(Responses)
    BY SentIsResponse
  <1> QED
    BY <1>1, SentIsResponse DEF Types, ThreadTypes, CallTypes, QueueTypes, ServerTypes, TypeOK

LEMMA InitTypes == Init => Types
  <1> SUFFICES ASSUME Init PROVE Types
    OBVIOUS
  <1>1. ThreadTypes
    BY ThreadAssumption, CallAssumption DEF Init, ThreadTypes, Threads
  <1>2. CallTypes
    BY DEF Init, CallTypes, Results
  <1>3. QueueTypes
    BY BoundAssumption DEF Init, QueueTypes
  <1>4. ServerTypes
    BY BoundAssumption DEF Init, ServerTypes, Used
  <1> QED
    BY <1>1, <1>2, <1>3, <1>4 DEF Types

LEMMA CycleTypes ==
    ASSUME QueueTypes, TransportCycle, UNCHANGED reported
    PROVE  QueueTypes'
  <1>1. fromServer' \in Seq(Sent) /\ rxQueue' \in Seq(Sent) /\ reported' \in Seq(Sent)
    BY DEF QueueTypes, TransportCycle
  <1>2. txQueue' \in Seq(Calls) /\ Len(txQueue') <= Len(txQueue) /\ toServer' \in Seq(Calls)
    <2>1. txQueue \in Seq(Calls) /\ toServer \in Seq(Calls)
      BY DEF QueueTypes
    <2>2. CASE txQueue = <<>>
      BY <2>1, <2>2 DEF TransportCycle
    <2>3. CASE txQueue # <<>>
      <3>1. Head(txQueue) \in Calls /\ Tail(txQueue) \in Seq(Calls)
            /\ Len(Tail(txQueue)) <= Len(txQueue)
        BY <2>1, <2>3
      <3>2. txQueue' = Tail(txQueue) /\ toServer' = Append(toServer, Head(txQueue))
        BY <2>3 DEF TransportCycle
      <3>3. toServer' \in Seq(Calls)
        BY <2>1, <3>1, <3>2, AppendProperties
      <3> QED
        BY <3>1, <3>2, <3>3
    <2> QED
      BY <2>2, <2>3
  <1> QED
    BY <1>1, <1>2, BoundAssumption DEF QueueTypes

LEMMA FailTypes ==
    ASSUME Types, TransportFails, UNCHANGED <<reported, active, answered, snatched, emitted>>
    PROVE  QueueTypes' /\ ServerTypes'
  <1>1. fromServer' \in Seq(Sent) /\ rxQueue' \in Seq(Sent) /\ reported' \in Seq(Sent)
    BY DEF Types, QueueTypes, TransportFails
  <1>2. txQueue' \in Seq(Calls) /\ Len(txQueue') <= Len(txQueue) /\ toServer' \in Seq(Calls)
    BY DEF Types, QueueTypes, TransportFails
  <1>3. used' \in Used
    BY DEF Types, ServerTypes, TransportFails, Used
  <1> QED
    BY <1>1, <1>2, <1>3, BoundAssumption DEF Types, QueueTypes, ServerTypes

LEMMA ReadTypes ==
    ASSUME QueueTypes, rxQueue # <<>>, rxQueue' = Tail(rxQueue),
           reported' = Append(reported, Head(rxQueue)) \/ reported' = reported,
           UNCHANGED <<txQueue, toServer, fromServer>>
    PROVE  QueueTypes' /\ Head(rxQueue) \in Sent
  <1>1. Head(rxQueue) \in Sent /\ Tail(rxQueue) \in Seq(Sent)
    BY DEF QueueTypes
  <1>2. Append(reported, Head(rxQueue)) \in Seq(Sent)
    BY <1>1, AppendProperties DEF QueueTypes
  <1> QED
    BY <1>1, <1>2 DEF QueueTypes

LEMMA HandleAsync ==
    ASSUME NEW r, HandleAsyncResponse(r)
    PROVE  reported' = Append(reported, r) \/ reported' = reported
  BY DEF HandleAsyncResponse

LEMMA ReturnTypes ==
    ASSUME Types, NEW t \in Pollers, lock = t, NEW res \in Results, Return(t, res),
           UNCHANGED <<timeOver, todo>>,
           answer' = answer \/ \E r \in Sent : answer' = [answer EXCEPT ![current[t]] = r]
    PROVE  ThreadTypes' /\ CallTypes'
  <1>1. t \in Threads /\ t # Nobody /\ pc[t] # "idle" /\ current[t] \in Calls
    BY ThreadAssumption, CallAssumption DEF Types, ThreadTypes, Threads
  <1>2. CallTypes'
    BY <1>1 DEF Types, CallTypes, Return
  <1>3. /\ pc' = [pc EXCEPT ![t] = "idle"] /\ current' = [current EXCEPT ![t] = NoCall]
        /\ lock' = Nobody
    BY DEF Return
  <1>4. \A u \in Threads : lock' = u <=> pc'[u] \in {"polling", "reading"}
    BY <1>1, <1>3, ThreadAssumption DEF Types, ThreadTypes, Threads
  <1>5. \A u \in Pollers : current'[u] = NoCall <=> pc'[u] = "idle"
    BY <1>1, <1>3 DEF Types, ThreadTypes, Threads
  <1>6. /\ pc' \in [Threads -> {"idle", "sent", "polling", "reading"}]
        /\ current' \in [Pollers -> Calls \cup {NoCall}]
        /\ timeOver' \in [Pollers -> BOOLEAN]
        /\ lock' \in Threads \cup {Nobody}
    BY <1>1, <1>3 DEF Types, ThreadTypes
  <1> QED
    BY <1>2, <1>4, <1>5, <1>6 DEF ThreadTypes

\* A thread that has the lock goes from one step of its polling to the next.
LEMMA StayTypes ==
    ASSUME ThreadTypes, NEW t \in Threads, pc[t] \in {"polling", "reading"},
           NEW step \in {"polling", "reading"}, pc' = [pc EXCEPT ![t] = step],
           UNCHANGED <<current, lock>>, timeOver' \in [Pollers -> BOOLEAN]
    PROVE  ThreadTypes'
  <1>1. \A u \in Threads : pc'[u] \in {"polling", "reading"} <=> pc[u] \in {"polling", "reading"}
    BY DEF ThreadTypes
  <1>2. \A u \in Threads : pc'[u] = "idle" <=> pc[u] = "idle"
    BY DEF ThreadTypes
  <1>3. pc' \in [Threads -> {"idle", "sent", "polling", "reading"}]
    BY DEF ThreadTypes
  <1>4. Pollers \subseteq Threads
    BY DEF Threads
  <1> QED
    BY <1>1, <1>2, <1>3, <1>4 DEF ThreadTypes

LEMMA PollerTypes ==
    ASSUME Types, NEW t \in Pollers, pc[t] \in {"polling", "reading"}
    PROVE  t \in Threads /\ lock = t /\ current[t] \in Calls
  BY CallAssumption DEF Types, ThreadTypes, Threads

\* An expected response ends the call.
Answers(c, r) ==
    \/ r.neg /\ ~ForOtherElement(c, r) /\ r.kind # "pending"
    \/ ~r.neg /\ Fits(c, r)

\* What reading a response does to the thread that reads it.
LEMMA ReadOutcome ==
    ASSUME Types, NEW t \in Pollers, ReadResponse(t)
    PROVE  /\ pc[t] = "reading" /\ rxQueue # <<>> /\ rxQueue' = Tail(rxQueue)
           /\ \/ /\ ~Expected(current[t], Head(rxQueue))
                 /\ HandleAsyncResponse(Head(rxQueue))
                 /\ UNCHANGED <<pc, current, timeOver, lock, result, answer>>
              \/ /\ Expected(current[t], Head(rxQueue))
                 /\ ~Answers(current[t], Head(rxQueue))
                 /\ \/ HandleAsyncResponse(Head(rxQueue))
                    \/ Head(rxQueue).kind = "pending" /\ UNCHANGED reported
                 /\ pc' = [pc EXCEPT ![t] = "polling"]
                 /\ timeOver' = timeOver \/ timeOver' = [timeOver EXCEPT ![t] = FALSE]
                 /\ UNCHANGED <<current, lock, result, answer>>
              \/ /\ Expected(current[t], Head(rxQueue))
                 /\ Answers(current[t], Head(rxQueue))
                 /\ \E res \in Results :
                       /\ Return(t, res)
                       /\ res = "ok" => ~Head(rxQueue).neg /\ SameElement(current[t], Head(rxQueue))
                       /\ res # "timeout"
                 /\ answer' = [answer EXCEPT ![current[t]] = Head(rxQueue)]
                 /\ UNCHANGED <<timeOver, reported>>
           /\ UNCHANGED <<txQueue, toServer, fromServer, elsewhere, todo, used>>
  <1> DEFINE r == Head(rxQueue)
  <1>1. /\ pc[t] = "reading" /\ rxQueue # <<>> /\ rxQueue' = Tail(rxQueue)
        /\ UNCHANGED <<txQueue, toServer, fromServer, elsewhere, todo, used>>
    BY DEF ReadResponse
  <1>2. CASE ~Expected(current[t], r)
    BY <1>1, <1>2 DEF ReadResponse
  <1>3. CASE Expected(current[t], r)
    <2>1. Evaluate(t, r)
      BY <1>3 DEF ReadResponse
    <2>2. CASE /\ r.neg /\ ForOtherElement(current[t], r)
               /\ HandleAsyncResponse(r)
               /\ KeepPolling(t)
               /\ UNCHANGED timeOver
      BY <1>1, <1>3, <2>2 DEF KeepPolling, Answers
    <2>3. CASE r.neg /\ ~ForOtherElement(current[t], r) /\ r.kind = "pending" /\ Pending(t, r)
      BY <1>1, <1>3, <2>3 DEF Pending, KeepPolling, Answers
    <2>4. CASE r.neg /\ ~ForOtherElement(current[t], r) /\ r.kind # "pending" /\ Finish(t, r, "warn")
      BY <1>1, <1>3, <2>4 DEF Finish, Results, Answers
    <2>5. CASE /\ ~r.neg /\ Fits(current[t], r)
               /\ Finish(t, r, IF SameElement(current[t], r) THEN "ok" ELSE "rdwr")
      BY <1>1, <1>3, <2>5 DEF Finish, Results, Answers
    <2>6. CASE ~r.neg /\ ~Fits(current[t], r) /\ OtherLength(t, r)
      BY <1>1, <1>3, <2>6 DEF OtherLength, KeepPolling, Answers
    <2> QED
      BY <2>1, <2>2, <2>3, <2>4, <2>5, <2>6 DEF Evaluate
  <1> QED
    BY <1>2, <1>3

LEMMA NextTypes == Types /\ [Next]_vars => Types'
  <1> SUFFICES ASSUME Types, [Next]_vars PROVE Types'
    OBVIOUS
  <1> USE DEF Types
  <1>1. ASSUME NEW t \in Pollers, NEW c \in Calls, SendRequest(t, c) PROVE Types'
    <2>1. t \in Threads /\ lock # t
      BY <1>1, ThreadAssumption DEF SendRequest, ThreadTypes, Threads
    <2>2. CallTypes' /\ ServerTypes'
      BY <1>1 DEF SendRequest, CallTypes, ServerTypes, Results, elsewhere
    <2>3. CASE Len(txQueue) < MaxServiceQueueSize
      <3>1. /\ txQueue' = Append(txQueue, c)
            /\ pc' = [pc EXCEPT ![t] = "sent"] /\ current' = [current EXCEPT ![t] = c]
            /\ timeOver' = [timeOver EXCEPT ![t] = FALSE]
            /\ UNCHANGED <<lock, toServer, fromServer, rxQueue, reported>>
        BY <1>1, <2>3 DEF SendRequest
      <3>2. txQueue' \in Seq(Calls) /\ Len(txQueue') <= MaxServiceQueueSize
        BY <2>3, <3>1, BoundAssumption, AppendProperties DEF QueueTypes
      <3>3. QueueTypes'
        BY <3>1, <3>2 DEF QueueTypes
      <3>4. \A u \in Threads : lock' = u <=> pc'[u] \in {"polling", "reading"}
        BY <1>1, <2>1, <3>1 DEF ThreadTypes, SendRequest
      <3>5. \A u \in Pollers : current'[u] = NoCall <=> pc'[u] = "idle"
        BY <2>1, <3>1, CallAssumption DEF ThreadTypes, Threads
      <3>6. ThreadTypes'
        BY <3>1, <3>4, <3>5 DEF ThreadTypes
      <3> QED
        BY <2>2, <3>3, <3>6
    <2>4. CASE ~(Len(txQueue) < MaxServiceQueueSize)
      BY <1>1, <2>2, <2>4 DEF SendRequest, ThreadTypes, QueueTypes
    <2> QED
      BY <2>3, <2>4
  <1>2. ASSUME NEW t \in Pollers, Acquire(t) PROVE Types'
    <2>1. t \in Threads /\ lock = Nobody /\ t # Nobody
      BY <1>2, ThreadAssumption DEF Acquire, LockFree, Threads
    <2>2. \A u \in Threads : lock' = u <=> pc'[u] \in {"polling", "reading"}
      BY <1>2, <2>1, ThreadAssumption DEF Acquire, ThreadTypes, Threads
    <2>3. \A u \in Pollers : current'[u] = NoCall <=> pc'[u] = "idle"
      BY <1>2, <2>1 DEF Acquire, ThreadTypes, Threads
    <2>4. ThreadTypes'
      BY <1>2, <2>1, <2>2, <2>3 DEF Acquire, ThreadTypes
    <2> QED
      BY <1>2, <2>4 DEF Acquire, CallTypes, QueueTypes, ServerTypes, elsewhere
  <1>3. ASSUME NEW t \in Pollers, TimeOut(t) PROVE Types'
    <2>1. lock = t
      BY <1>3, PollerTypes DEF TimeOut
    <2>2. ThreadTypes' /\ CallTypes'
      <3>1. Return(t, "timeout") /\ "timeout" \in Results /\ UNCHANGED <<timeOver, todo, answer>>
        BY <1>3 DEF TimeOut, Results
      <3> QED
        BY <2>1, <3>1, ReturnTypes
    <2> QED
      BY <1>3, <2>2 DEF TimeOut, QueueTypes, ServerTypes, elsewhere
  <1>4. ASSUME NEW t \in Pollers, PollTransport(t) PROVE Types'
    <2>1. lock = t /\ t \in Threads /\ pc[t] = "polling"
      BY <1>4, PollerTypes DEF PollTransport
    <2>2. UNCHANGED <<timeOver, elsewhere, todo, answer, reported>>
      BY <1>4 DEF PollTransport
    <2>3. CASE /\ TransportCycle
               /\ pc' = [pc EXCEPT ![t] = "reading"]
               /\ UNCHANGED <<current, lock, result, used>>
      <3>1. ThreadTypes'
        BY <2>1, <2>2, <2>3, StayTypes DEF ThreadTypes
      <3>2. QueueTypes'
        BY <2>2, <2>3, CycleTypes
      <3> QED
        BY <2>2, <2>3, <3>1, <3>2 DEF CallTypes, ServerTypes, elsewhere
    <2>4. CASE TransportFails /\ Return(t, "com")
      <3>1. QueueTypes' /\ ServerTypes'
        BY <2>2, <2>4, FailTypes DEF elsewhere
      <3>2. ThreadTypes' /\ CallTypes'
        <4>1. "com" \in Results
          BY DEF Results
        <4> QED
          BY <2>1, <2>2, <2>4, <4>1, ReturnTypes
      <3> QED
        BY <3>1, <3>2
    <2> QED
      BY <1>4, <2>3, <2>4 DEF PollTransport
  <1>5. ASSUME NEW t \in Pollers, ReadResponse(t) PROVE Types'
    <2>1. lock = t /\ t \in Threads /\ current[t] \in Calls
      BY <1>5, PollerTypes, ReadOutcome
    <2>2. QueueTypes' /\ Head(rxQueue) \in Sent
      BY <1>5, ReadOutcome, ReadTypes, HandleAsync
    <2>3. ServerTypes' /\ UNCHANGED todo
      BY <1>5, ReadOutcome DEF ServerTypes, elsewhere
    <2>4. CASE UNCHANGED <<pc, current, timeOver, lock, result, answer>>
      BY <2>2, <2>3, <2>4 DEF ThreadTypes, CallTypes
    <2>5. CASE /\ pc' = [pc EXCEPT ![t] = "polling"]
               /\ timeOver' = timeOver \/ timeOver' = [timeOver EXCEPT ![t] = FALSE]
               /\ UNCHANGED <<current, lock, result, answer>>
      <3>1. timeOver' \in [Pollers -> BOOLEAN]
        BY <2>5 DEF ThreadTypes
      <3>2. pc[t] \in {"polling", "reading"}
        BY <1>5 DEF ReadResponse
      <3>3. ThreadTypes'
        BY <2>1, <2>5, <3>1, <3>2, StayTypes
      <3> QED
        BY <2>2, <2>3, <2>5, <3>3 DEF CallTypes
    <2>6. CASE /\ \E res \in Results : Return(t, res)
               /\ answer' = [answer EXCEPT ![current[t]] = Head(rxQueue)]
               /\ UNCHANGED <<timeOver, reported>>
      <3>1. ThreadTypes' /\ CallTypes'
        BY <2>1, <2>2, <2>3, <2>6, ReturnTypes
      <3> QED
        BY <2>2, <2>3, <3>1
    <2> QED
      BY <1>5, <2>4, <2>5, <2>6, ReadOutcome
  <1>6. ASSUME NEW t \in Pollers, NothingRead(t) PROVE Types'
    <2>1. t \in Threads /\ pc[t] = "reading"
      BY <1>6 DEF NothingRead, Threads
    <2>2. ThreadTypes'
      BY <1>6, <2>1, StayTypes DEF NothingRead, ThreadTypes
    <2> QED
      BY <1>6, <2>2 DEF NothingRead, CallTypes, QueueTypes, ServerTypes, elsewhere
  <1>7. ASSUME NEW t \in Pollers, Expire(t) PROVE Types'
    <2>1. used' \in Used
      BY <1>7 DEF Expire, ServerTypes, Used
    <2>2. ThreadTypes'
      BY <1>7 DEF Expire, ThreadTypes
    <2> QED
      BY <1>7, <2>1, <2>2 DEF Expire, CallTypes, QueueTypes, ServerTypes, elsewhere
  <1>8. CASE TryAcquire
    <2>1. Async \in Threads /\ lock = Nobody /\ Async # Nobody /\ Async \notin Pollers
      BY <1>8, ThreadAssumption DEF TryAcquire, LockFree, Threads
    <2>2. \A u \in Threads : lock' = u <=> pc'[u] \in {"polling", "reading"}
      BY <1>8, <2>1, ThreadAssumption DEF TryAcquire, ThreadTypes, Threads
    <2>3. \A u \in Pollers : current'[u] = NoCall <=> pc'[u] = "idle"
      BY <1>8, <2>1 DEF TryAcquire, ThreadTypes, Threads
    <2>4. ThreadTypes'
      BY <1>8, <2>1, <2>2, <2>3 DEF TryAcquire, ThreadTypes
    <2> QED
      BY <1>8, <2>4 DEF TryAcquire, CallTypes, QueueTypes, ServerTypes, elsewhere
  <1>9. ASSUME Release, pc[Async] \in {"polling", "reading"}, UNCHANGED <<current, timeOver>>
        PROVE  ThreadTypes'
    <2>1. Async \in Threads /\ Async # Nobody /\ Async \notin Pollers /\ lock = Async
      BY <1>9, ThreadAssumption DEF ThreadTypes, Threads
    <2>2. pc' = [pc EXCEPT ![Async] = "idle"] /\ lock' = Nobody
      BY <1>9 DEF Release
    <2>3. \A u \in Threads : lock' = u <=> pc'[u] \in {"polling", "reading"}
      BY <2>1, <2>2, ThreadAssumption DEF ThreadTypes, Threads
    <2>4. \A u \in Pollers : current'[u] = NoCall <=> pc'[u] = "idle"
      BY <1>9, <2>1, <2>2 DEF ThreadTypes, Threads
    <2> QED
      BY <1>9, <2>1, <2>2, <2>3, <2>4 DEF ThreadTypes
  <1>10. CASE CycleTransport
    <2>1. pc[Async] = "polling" /\ Async \in Threads
      BY <1>10 DEF CycleTransport, Threads
    <2>2. UNCHANGED <<current, timeOver, elsewhere, todo, result, answer, reported>>
      BY <1>10 DEF CycleTransport
    <2>3. CASE /\ TransportCycle
               /\ pc' = [pc EXCEPT ![Async] = "reading"]
               /\ UNCHANGED <<lock, used>>
      <3>1. ThreadTypes'
        BY <2>1, <2>2, <2>3, StayTypes DEF ThreadTypes
      <3>2. QueueTypes'
        BY <2>2, <2>3, CycleTypes
      <3> QED
        BY <2>2, <2>3, <3>1, <3>2 DEF CallTypes, ServerTypes, elsewhere
    <2>4. CASE TransportFails /\ Release
      <3>1. QueueTypes' /\ ServerTypes'
        BY <2>2, <2>4, FailTypes DEF elsewhere
      <3> QED
        BY <1>9, <2>1, <2>2, <2>4, <3>1 DEF CallTypes
    <2> QED
      BY <1>10, <2>3, <2>4 DEF CycleTransport
  <1>11. CASE CycleRead
    <2>1. QueueTypes' /\ Head(rxQueue) \in Sent
      BY <1>11, ReadTypes, HandleAsync DEF CycleRead
    <2>2. Head(rxQueue).call \in Calls \cup {NoCall}
      BY <2>1, SentIsResponse DEF Responses
    <2>3. ServerTypes'
      BY <1>11, <2>2 DEF CycleRead, ServerTypes
    <2> QED
      BY <1>11, <2>1, <2>3 DEF CycleRead, CallTypes, ThreadTypes
  <1>12. CASE CycleEnd
    <2>1. ThreadTypes'
      BY <1>9, <1>12 DEF CycleEnd
    <2> QED
      BY <1>12, <2>1 DEF CycleEnd, CallTypes, QueueTypes, ServerTypes, elsewhere
  <1>13. CASE ServerAnswers
    <2> DEFINE c == Head(toServer)
    <2>1. c \in Calls /\ Tail(toServer) \in Seq(Calls)
      BY <1>13 DEF ServerAnswers, QueueTypes
    <2>2. /\ toServer' = Tail(toServer) /\ answered' = answered \cup {c}
          /\ UNCHANGED <<client, txQueue, rxQueue, emitted, used>>
      BY <1>13 DEF ServerAnswers
    <2>3. PICK r \in Sent : fromServer' = Append(fromServer, r)
      <3>1. fromServer' = Append(fromServer, PositiveAnswer(c))
            \/ \E extended \in BOOLEAN : fromServer' = Append(fromServer, NegativeAnswer(c, extended))
        BY <1>13 DEF ServerAnswers
      <3> QED
        BY <2>1, <3>1, PositiveIsSent, NegativeIsSent
    <2>4. fromServer' \in Seq(Sent)
      BY <2>3, AppendProperties DEF QueueTypes
    <2>5. active' \subseteq Elements
      <3>1. Op[c] \in {"read", "register", "stop"} /\ Element[c] \in Elements
        BY <2>1, CallAssumption DEF Ops
      <3>2. active' = active \/ active' = active \cup {Element[c]} \/ active' = {}
        BY <1>13, <3>1 DEF ServerAnswers
      <3> QED
        BY <3>1, <3>2 DEF ServerTypes
    <2>6. ServerTypes'
      BY <2>1, <2>2, <2>5 DEF ServerTypes, client
    <2>7. QueueTypes'
      BY <2>1, <2>2, <2>4 DEF QueueTypes, client
    <2> QED
      BY <2>2, <2>6, <2>7 DEF ThreadTypes, CallTypes, client
  <1>14. CASE ServerNeedsTime
    <2>1. Head(toServer) \in Calls
      BY <1>14 DEF ServerNeedsTime, QueueTypes
    <2>2. fromServer' \in Seq(Sent)
      BY <1>14, <2>1, PendingIsSent, AppendProperties DEF ServerNeedsTime, QueueTypes
    <2>3. used' \in Used
      BY <1>14 DEF ServerNeedsTime, ServerTypes, Used
    <2>4. QueueTypes'
      BY <1>14, <2>2 DEF ServerNeedsTime, QueueTypes, client
    <2> QED
      BY <1>14, <2>3, <2>4 DEF ServerNeedsTime, ThreadTypes, CallTypes, ServerTypes, client
  <1>15. CASE ServerIsSilent
    <2>1. Tail(toServer) \in Seq(Calls)
      BY <1>15 DEF ServerIsSilent, QueueTypes
    <2>2. used' \in Used
      BY <1>15 DEF ServerIsSilent, ServerTypes, Used
    <2>3. QueueTypes'
      BY <1>15, <2>1 DEF ServerIsSilent, QueueTypes, client
    <2> QED
      BY <1>15, <2>2, <2>3 DEF ServerIsSilent, ThreadTypes, CallTypes, ServerTypes, client
  <1>16. CASE ServerSendsEvent
    <2>1. used' \in Used /\ used'.event \in 0 .. MaxEvents
      <3>1. used.event \in Nat /\ MaxEvents \in Nat /\ used.event < MaxEvents
        BY <1>16, BoundAssumption DEF ServerSendsEvent, ServerTypes, Used
      <3>2. used' = [used EXCEPT !.event = @ + 1]
        BY <1>16 DEF ServerSendsEvent
      <3> QED
        BY <3>1, <3>2 DEF ServerTypes, Used
    <2>2. PICK r \in Sent : /\ emitted' = Append(emitted, r)
                            /\ fromServer' = Append(fromServer, r)
      BY <1>16, <2>1, EventIsSent DEF ServerSendsEvent, ServerTypes
    <2>3. emitted' \in Seq(Sent) /\ fromServer' \in Seq(Sent)
      BY <2>2, AppendProperties DEF QueueTypes, ServerTypes
    <2>4. QueueTypes'
      BY <1>16, <2>3 DEF ServerSendsEvent, QueueTypes, client
    <2> QED
      BY <1>16, <2>1, <2>3, <2>4
         DEF ServerSendsEvent, ThreadTypes, CallTypes, ServerTypes, client
  <1>17. CASE UNCHANGED vars
    BY <1>17 DEF vars, ThreadTypes, CallTypes, QueueTypes, ServerTypes
  <1> QED
    BY <1>1, <1>2, <1>3, <1>4, <1>5, <1>6, <1>7, <1>8, <1>10, <1>11, <1>12, <1>13, <1>14,
       <1>15, <1>16, <1>17 DEF Next, Poll, Cycle

LEMMA TypesInvariant == Spec => []Types
  BY InitTypes, NextTypes, PTL DEF Spec

\* Type correctness, and the lock is with the thread that is between taking and
\* releasing it, for any number of threads and calls.
THEOREM TypeCorrect == Spec => []TypeOK
  BY TypesInvariant, TypesSuffice, PTL

-----------------------------------------------------------------------------
(* What becomes of a response.                                              *)

LEMMA SentFields ==
    ASSUME NEW r \in Sent
    PROVE  /\ r.kind \in {"positive", "negative", "pending", "data", "error"}
           /\ r.neg \in BOOLEAN /\ r.size \in 1 .. 6 /\ r.nr \in 0 .. MaxEvents
           /\ r.call \in Calls \cup {NoCall}
           /\ WellFormed(r)
  BY DEF Sent, Responses

\* A data event is never taken for an answer, and always handed on.
LEMMA DataIsReported ==
    ASSUME NEW r \in Sent, r.kind = "data", NEW c \in Calls
    PROVE  IsAsync(r) /\ (Expected(c, r) => ~Answers(c, r))
  <1>1. ~r.neg /\ r.sid = "EVENT" /\ r.size = 5
    BY SentFields DEF WellFormed
  <1>2. Op[c] \in {"read", "register", "stop"}
    BY CallAssumption DEF Ops
  <1>3. IsAsync(r)
    BY <1>1 DEF IsAsync
  <1>4. CASE Op[c] = "read"
    BY <1>1, <1>3, <1>4 DEF Expected, SidOf
  <1>5. CASE Op[c] = "register"
    BY <1>1, <1>3, <1>5 DEF Answers, Fits
  <1>6. CASE Op[c] = "stop"
    BY <1>1, <1>3, <1>6 DEF Answers, Fits
  <1> QED
    BY <1>2, <1>4, <1>5, <1>6

\* The final answer to a call ends it, a responsePending does not.
LEMMA FinalEnds ==
    ASSUME NEW r \in Sent, NEW c \in Calls, r.call = c
    PROVE  /\ Final(r) => Expected(c, r) /\ Answers(c, r)
           /\ r.kind = "pending" => Expected(c, r) /\ ~Answers(c, r)
           /\ Final(r) \/ r.kind = "pending"
  <1>1. Op[c] \in {"read", "register", "stop"}
    BY CallAssumption DEF Ops
  <1>2. WellFormed(r) /\ r.kind \in {"positive", "negative", "pending"} /\ r.size \in 1 .. 6
    BY SentFields DEF WellFormed
  <1>3. r.sid = SidOf(Op[c]) /\ Expected(c, r)
    BY <1>2 DEF WellFormed, Expected
  <1>4. CASE r.kind = "positive"
    <2>1. ~r.neg /\ r.size = CASE Op[c] = "read" -> 5 [] Op[c] = "register" -> 4
                               [] Op[c] = "stop" -> 1
      BY <1>2, <1>4 DEF WellFormed
    <2>2. Fits(c, r)
      <3>1. CASE Op[c] = "read"
        BY <2>1, <3>1 DEF Fits
      <3>2. CASE Op[c] = "register"
        BY <2>1, <3>2 DEF Fits
      <3>3. CASE Op[c] = "stop"
        BY <2>1, <3>3 DEF Fits
      <3> QED
        BY <1>1, <3>1, <3>2, <3>3
    <2> QED
      BY <1>3, <1>4, <2>1, <2>2 DEF Answers, Final
  <1>5. CASE r.kind = "negative"
    BY <1>2, <1>3, <1>5 DEF WellFormed, Answers, ForOtherElement, Final
  <1>6. CASE r.kind = "pending"
    BY <1>2, <1>3, <1>6 DEF WellFormed, Answers, Final
  <1> QED
    BY <1>2, <1>4, <1>5, <1>6

\* A response that ends a call with success is a positive one for its element.
LEMMA SuccessIsPositive ==
    ASSUME NEW r \in Sent, NEW c \in Calls, Expected(c, r), Answers(c, r), ~r.neg,
           SameElement(c, r)
    PROVE  r.kind = "positive" /\ (Op[c] # "stop" => r.elem = Element[c])
  <1>1. r.kind # "data"
    BY DataIsReported
  <1>2. r.kind = "positive"
    BY <1>1, SentFields DEF WellFormed
  <1> QED
    BY <1>2 DEF SameElement

\* An answer that ends a call and is no error event answers a call.
LEMMA AnswerHasCall ==
    ASSUME NEW r \in Sent, NEW c \in Calls, Expected(c, r), Answers(c, r), r.kind # "error"
    PROVE  r.call \in Calls
  <1>1. r.kind # "data"
    BY DataIsReported
  <1> QED
    BY <1>1, SentFields DEF WellFormed

-----------------------------------------------------------------------------
(* AnswerForElement.                                                        *)

\* Results and answers only change for the call that returns.
LEMMA SuccessKept ==
    ASSUME Types, AnswerForElement, NEW c \in Calls, NEW res \in Results \ {"ok"},
           UNCHANGED answer, result' = [result EXCEPT ![c] = res]
    PROVE  AnswerForElement'
  BY DEF Types, CallTypes, AnswerForElement

LEMMA NextAnswerForElement == Types /\ AnswerForElement /\ [Next]_vars => AnswerForElement'
  <1> SUFFICES ASSUME Types, AnswerForElement, [Next]_vars PROVE AnswerForElement'
    OBVIOUS
  <1>0. ASSUME UNCHANGED <<result, answer>> PROVE AnswerForElement'
    BY <1>0 DEF AnswerForElement
  <1>1. ASSUME NEW t \in Pollers, NEW c \in Calls, SendRequest(t, c) PROVE AnswerForElement'
    <2>1. \/ UNCHANGED <<result, answer>>
          \/ result' = [result EXCEPT ![c] = "noact"] /\ UNCHANGED answer
      BY <1>1 DEF SendRequest
    <2>2. "noact" \in Results \ {"ok"}
      BY DEF Results
    <2> QED
      BY <1>0, <2>1, <2>2, SuccessKept
  <1>2. ASSUME NEW t \in Pollers, TimeOut(t) \/ PollTransport(t) PROVE AnswerForElement'
    <2>1. current[t] \in Calls
      BY <1>2, PollerTypes DEF TimeOut, PollTransport
    <2>2. {"timeout", "com"} \subseteq Results \ {"ok"}
      BY DEF Results
    <2>3. \/ UNCHANGED <<result, answer>>
          \/ UNCHANGED answer /\ \E res \in {"timeout", "com"} :
                                     result' = [result EXCEPT ![current[t]] = res]
      BY <1>2 DEF TimeOut, PollTransport, Return
    <2> QED
      BY <1>0, <2>1, <2>2, <2>3, SuccessKept
  <1>3. ASSUME NEW t \in Pollers, ReadResponse(t) PROVE AnswerForElement'
    <2> DEFINE r == Head(rxQueue)
               c == current[t]
    <2>1. c \in Calls /\ r \in Sent
      <3>1. rxQueue \in Seq(Sent) /\ rxQueue # <<>> /\ pc[t] = "reading"
        BY <1>3 DEF ReadResponse, Types, QueueTypes
      <3> QED
        BY <3>1, PollerTypes
    <2>2. CASE UNCHANGED <<result, answer>>
      BY <1>0, <2>2
    <2>3. ASSUME Expected(c, r), Answers(c, r), answer' = [answer EXCEPT ![c] = r],
                 NEW res \in Results, Return(t, res),
                 res = "ok" => ~r.neg /\ SameElement(c, r)
          PROVE  AnswerForElement'
      <3>1. result' = [result EXCEPT ![c] = res]
        BY <2>3 DEF Return
      <3>2. res = "ok" => r.kind = "positive" /\ (Op[c] # "stop" => r.elem = Element[c])
        BY <2>1, <2>3, SuccessIsPositive
      <3> HIDE DEF c, r
      <3> QED
        BY <2>1, <2>3, <3>1, <3>2 DEF AnswerForElement, Types, CallTypes
    <2> QED
      BY <1>3, <2>2, <2>3, ReadOutcome
  <1> QED
    <2>1. ASSUME NEW t \in Pollers, Acquire(t) \/ NothingRead(t) \/ Expire(t)
          PROVE  UNCHANGED <<result, answer>>
      BY <2>1 DEF Acquire, NothingRead, Expire
    <2>2. ASSUME TryAcquire \/ Cycle PROVE UNCHANGED <<result, answer>>
      BY <2>2 DEF TryAcquire, Cycle, CycleTransport, CycleRead, CycleEnd
    <2>3. ASSUME ServerAnswers \/ ServerNeedsTime \/ ServerIsSilent \/ ServerSendsEvent
          PROVE  UNCHANGED <<result, answer>>
      BY <2>3 DEF ServerAnswers, ServerNeedsTime, ServerIsSilent, ServerSendsEvent, client
    <2>4. CASE UNCHANGED vars
      BY <1>0, <2>4 DEF vars
    <2> QED
      BY <1>0, <1>1, <1>2, <1>3, <2>1, <2>2, <2>3, <2>4 DEF Next, Poll

\* A call that succeeds was answered for its own element, by a positive response,
\* whatever is late, lost or read by other threads.
THEOREM AnswersFit == Spec => []AnswerForElement
  <1>1. Init => AnswerForElement
    BY DEF Init, AnswerForElement
  <1> QED
    BY <1>1, TypesInvariant, NextAnswerForElement, PTL DEF Spec

-----------------------------------------------------------------------------
(* CallsOnce.                                                               *)

LEMMA RequestsMoved ==
    ASSUME Types
    PROVE  /\ TransportCycle => Requests' = Requests
           /\ TransportFails => Requests' \subseteq Requests
           /\ toServer # <<>> /\ toServer' = Tail(toServer) /\ UNCHANGED txQueue =>
                 Head(toServer) \in Requests /\ Requests' \subseteq Requests
           /\ \A c \in Calls : txQueue' = Append(txQueue, c) /\ UNCHANGED toServer =>
                 Requests' = Requests \cup {c}
  <1>1. txQueue \in Seq(Calls) /\ toServer \in Seq(Calls)
    BY DEF Types, QueueTypes
  <1>2. txQueue # <<>> =>
           Head(txQueue) \in Calls /\ ToSet(txQueue) = {Head(txQueue)} \cup ToSet(Tail(txQueue))
    BY <1>1, ToSetHead
  <1>3. toServer # <<>> => ToSet(toServer) = {Head(toServer)} \cup ToSet(Tail(toServer))
    BY <1>1, ToSetHead
  <1>4. ASSUME TransportCycle PROVE Requests' = Requests
    <2>1. CASE txQueue = <<>>
      BY <1>4, <2>1 DEF TransportCycle, Requests, ToSet
    <2>2. CASE txQueue # <<>>
      <3>1. txQueue' = Tail(txQueue) /\ toServer' = Append(toServer, Head(txQueue))
        BY <1>4, <2>2 DEF TransportCycle
      <3>2. ToSet(toServer') = ToSet(toServer) \cup {Head(txQueue)}
        BY <1>1, <1>2, <2>2, <3>1, ToSetAppend
      <3>3. ToSet(txQueue)' = ToSet(Tail(txQueue)) /\ ToSet(toServer)' = ToSet(toServer')
        BY <3>1 DEF ToSet
      <3> QED
        BY <1>2, <2>2, <3>2, <3>3 DEF Requests
    <2> QED
      BY <2>1, <2>2
  <1>5. ASSUME TransportFails PROVE Requests' \subseteq Requests
    <2>1. txQueue # <<>> /\ txQueue' = Tail(txQueue) /\ toServer' = toServer
      BY <1>5 DEF TransportFails
    <2>2. ToSet(txQueue)' = ToSet(Tail(txQueue)) /\ ToSet(toServer)' = ToSet(toServer)
      BY <2>1 DEF ToSet
    <2> QED
      BY <1>2, <2>1, <2>2 DEF Requests
  <1>6. ASSUME toServer # <<>>, toServer' = Tail(toServer), UNCHANGED txQueue
        PROVE  Head(toServer) \in Requests /\ Requests' \subseteq Requests
    <2>1. ToSet(toServer)' = ToSet(Tail(toServer)) /\ ToSet(txQueue)' = ToSet(txQueue)
      BY <1>6 DEF ToSet
    <2> QED
      BY <1>3, <1>6, <2>1 DEF Requests
  <1>7. ASSUME NEW c \in Calls, txQueue' = Append(txQueue, c), UNCHANGED toServer
        PROVE  Requests' = Requests \cup {c}
    <2>1. ToSet(txQueue)' = ToSet(txQueue) \cup {c} /\ ToSet(toServer)' = ToSet(toServer)
      <3>1. ToSet(Append(txQueue, c)) = ToSet(txQueue) \cup {c}
        BY <1>1, ToSetAppend
      <3> QED
        BY <1>7, <3>1 DEF ToSet
    <2> QED
      BY <2>1 DEF Requests
  <1> QED
    BY <1>4, <1>5, <1>6, <1>7

LEMMA RequestsSame ==
    ASSUME UNCHANGED <<txQueue, toServer>>
    PROVE  Requests' = Requests
  BY DEF Requests, ToSet

LEMMA InitCallsOnce == Init => CallsOnce
  BY CallAssumption DEF Init, CallsOnce, Requests, ToSet

\* The call of t is over.
LEMMA ReturnCallsOnce ==
    ASSUME Types, CallsOnce, NEW t \in Pollers, current[t] \in Calls, NEW res, Return(t, res),
           Requests' \subseteq Requests, UNCHANGED <<todo, answered>>,
           answer' = answer \/ \E r : answer' = [answer EXCEPT ![current[t]] = r]
    PROVE  CallsOnce'
  <1>1. /\ result' = [result EXCEPT ![current[t]] = res]
        /\ current' = [current EXCEPT ![t] = NoCall]
    BY DEF Return
  <1>2. \A c \in Calls : c # current[t] => result'[c] = result[c] /\ answer'[c] = answer[c]
    BY <1>1 DEF Types, CallTypes
  <1>3. \A u \in Pollers : u # t => current'[u] = current[u]
    BY <1>1 DEF Types, ThreadTypes
  <1>4. current'[t] = NoCall
    BY <1>1 DEF Types, ThreadTypes
  <1>5. ASSUME NEW u \in Pollers, current'[u] \in Calls
        PROVE  /\ Caller[current'[u]] = u
               /\ current'[u] \notin todo'
               /\ answer'[current'[u]] = NoAnswer
               /\ result'[current'[u]] = "none"
    <2>1. u # t /\ current'[u] = current[u]
      BY <1>3, <1>4, <1>5, CallAssumption
    <2>2. current[u] # current[t]
      BY <1>5, <2>1 DEF CallsOnce
    <2> QED
      BY <1>2, <1>5, <2>1, <2>2 DEF CallsOnce
  <1>6. ASSUME NEW c \in todo'
        PROVE  /\ answer'[c] = NoAnswer /\ result'[c] = "none"
               /\ c \notin answered' /\ c \notin Requests'
    <2>1. c \in todo /\ c \in Calls /\ c # current[t]
      BY <1>6 DEF CallsOnce, Types, CallTypes
    <2> QED
      BY <1>2, <2>1 DEF CallsOnce
  <1> QED
    BY <1>5, <1>6 DEF CallsOnce

LEMMA NextCallsOnce == Types /\ CallsOnce /\ [Next]_vars => CallsOnce'
  <1> SUFFICES ASSUME Types, CallsOnce, [Next]_vars PROVE CallsOnce'
    OBVIOUS
  <1>0. ASSUME UNCHANGED <<current, todo, answer, result, answered>>, Requests' \subseteq Requests
        PROVE  CallsOnce'
    BY <1>0 DEF CallsOnce
  <1>1. ASSUME NEW t \in Pollers, NEW c \in Calls, SendRequest(t, c) PROVE CallsOnce'
    <2>1. /\ c \in todo /\ Caller[c] = t /\ todo' = todo \ {c} /\ pc[t] = "idle"
          /\ UNCHANGED <<answer, answered, toServer>>
      BY <1>1 DEF SendRequest, elsewhere
    <2>2. current[t] = NoCall
      BY <2>1 DEF Types, ThreadTypes
    <2>3. CASE Len(txQueue) < MaxServiceQueueSize
      <3>1. /\ current' = [current EXCEPT ![t] = c] /\ UNCHANGED result
            /\ txQueue' = Append(txQueue, c)
        BY <1>1, <2>3 DEF SendRequest
      <3>2. Requests' = Requests \cup {c}
        BY <2>1, <3>1, RequestsMoved
      <3>3. current'[t] = c /\ \A u \in Pollers : u # t => current'[u] = current[u]
        BY <3>1 DEF Types, ThreadTypes
      <3> QED
        BY <2>1, <3>1, <3>2, <3>3 DEF CallsOnce
    <2>4. CASE ~(Len(txQueue) < MaxServiceQueueSize)
      <3>1. /\ result' = [result EXCEPT ![c] = "noact"]
            /\ UNCHANGED <<current, txQueue>>
        BY <1>1, <2>4 DEF SendRequest
      <3>2. Requests' = Requests
        BY <2>1, <3>1, RequestsSame
      <3>3. \A d \in Calls : d # c => result'[d] = result[d]
        BY <3>1 DEF Types, CallTypes
      <3>4. \A d \in todo' : d \in todo /\ d # c /\ d \in Calls
        BY <2>1 DEF Types, CallTypes
      <3> QED
        BY <2>1, <3>1, <3>2, <3>3, <3>4 DEF CallsOnce
    <2> QED
      BY <2>3, <2>4
  <1>2. ASSUME NEW t \in Pollers, TimeOut(t) PROVE CallsOnce'
    <2>1. current[t] \in Calls
      BY <1>2, PollerTypes DEF TimeOut
    <2>2. Requests' = Requests
      BY <1>2, RequestsSame DEF TimeOut
    <2>3. Return(t, "timeout") /\ UNCHANGED <<todo, answered, answer>>
      BY <1>2 DEF TimeOut, elsewhere
    <2> QED
      BY <2>1, <2>2, <2>3, ReturnCallsOnce
  <1>3. ASSUME NEW t \in Pollers, PollTransport(t) PROVE CallsOnce'
    <2>1. current[t] \in Calls /\ UNCHANGED <<todo, answered, answer>>
      BY <1>3, PollerTypes DEF PollTransport, elsewhere
    <2>2. CASE TransportCycle /\ UNCHANGED <<current, result>>
      BY <1>0, <2>1, <2>2, RequestsMoved
    <2>3. CASE TransportFails /\ Return(t, "com")
      <3>1. Requests' \subseteq Requests
        BY <2>3, RequestsMoved
      <3> QED
        BY <2>1, <2>3, <3>1, ReturnCallsOnce
    <2> QED
      BY <1>3, <2>2, <2>3 DEF PollTransport
  <1>4. ASSUME NEW t \in Pollers, ReadResponse(t) PROVE CallsOnce'
    <2>1. current[t] \in Calls /\ UNCHANGED <<todo, answered, txQueue, toServer>>
      BY <1>4, PollerTypes, ReadOutcome DEF elsewhere
    <2>2. Requests' = Requests
      BY <2>1, RequestsSame
    <2>3. CASE UNCHANGED <<current, result, answer>>
      BY <1>0, <2>1, <2>2, <2>3
    <2>4. ASSUME NEW res, Return(t, res), answer' = [answer EXCEPT ![current[t]] = Head(rxQueue)]
          PROVE  CallsOnce'
      BY <2>1, <2>2, <2>4, ReturnCallsOnce
    <2> QED
      BY <1>4, <2>3, <2>4, ReadOutcome
  <1>5. ASSUME NEW t \in Pollers, Acquire(t) \/ NothingRead(t) \/ Expire(t) PROVE CallsOnce'
    <2>1. UNCHANGED <<current, todo, answer, result, answered, txQueue, toServer>>
      BY <1>5 DEF Acquire, NothingRead, Expire, elsewhere
    <2> QED
      BY <1>0, <2>1, RequestsSame
  <1>6. CASE TryAcquire \/ CycleRead \/ CycleEnd \/ ServerSendsEvent \/ ServerNeedsTime \/ UNCHANGED vars
    <2>1. UNCHANGED <<current, todo, answer, result, answered, txQueue, toServer>>
      BY <1>6 DEF TryAcquire, CycleRead, CycleEnd, ServerSendsEvent, ServerNeedsTime, vars,
                  elsewhere, client
    <2> QED
      BY <1>0, <2>1, RequestsSame
  <1>7. CASE CycleTransport
    <2>1. UNCHANGED <<current, todo, answer, result, answered>>
      BY <1>7 DEF CycleTransport, elsewhere
    <2>2. Requests' \subseteq Requests
      BY <1>7, RequestsMoved DEF CycleTransport
    <2> QED
      BY <1>0, <2>1, <2>2
  <1>8. CASE ServerAnswers
    <2>1. /\ toServer # <<>> /\ toServer' = Tail(toServer) /\ UNCHANGED txQueue
          /\ answered' = answered \cup {Head(toServer)}
          /\ UNCHANGED <<current, todo, answer, result>>
      BY <1>8 DEF ServerAnswers, client
    <2>2. Head(toServer) \in Requests /\ Requests' \subseteq Requests
      BY <2>1, RequestsMoved
    <2> QED
      BY <2>1, <2>2 DEF CallsOnce
  <1>9. CASE ServerIsSilent
    <2>1. /\ toServer # <<>> /\ toServer' = Tail(toServer) /\ UNCHANGED txQueue
          /\ UNCHANGED <<current, todo, answer, result, answered>>
      BY <1>9 DEF ServerIsSilent, client
    <2> QED
      BY <1>0, <2>1, RequestsMoved
  <1> QED
    BY <1>1, <1>2, <1>3, <1>4, <1>5, <1>6, <1>7, <1>8, <1>9 DEF Next, Poll, Cycle

LEMMA CallsOnceInvariant == Spec => []CallsOnce
  BY InitCallsOnce, TypesInvariant, NextCallsOnce, PTL DEF Spec

-----------------------------------------------------------------------------
(* DataEventsReported and ErrorEventsReportedOrTaken.                       *)

\* An event has a form that is handed on, and is taken for an answer only where it is
\* an error event and the call stops all events or registers its element.
LEMMA EventIsAsync ==
    ASSUME NEW r \in Sent, IsEvent(r)
    PROVE  IsAsync(r) /\ r.kind # "pending"
  <1>1. WellFormed(r)
    BY SentFields
  <1>2. CASE r.kind = "data"
    BY <1>1, <1>2 DEF WellFormed, IsAsync
  <1>3. CASE r.kind = "error"
    BY <1>1, <1>3 DEF WellFormed, IsAsync
  <1> QED
    BY <1>2, <1>3 DEF IsEvent

LEMMA OnlyErrorsTaken ==
    ASSUME NEW r \in Sent, IsEvent(r), NEW c \in Calls, Expected(c, r), Answers(c, r)
    PROVE  /\ r.kind = "error"
           /\ Op[c] # "stop" => Op[c] = "register" /\ r.elem = Element[c]
  <1>1. r.kind = "error"
    BY DataIsReported DEF IsEvent
  <1>2. r.neg /\ r.sid = "EVENT" /\ r.size = 6
    BY <1>1, SentFields DEF WellFormed
  <1>3. Op[c] \in {"read", "register", "stop"}
    BY CallAssumption DEF Ops
  <1>4. ~ForOtherElement(c, r)
    BY <1>2 DEF Answers
  <1>5. Op[c] # "read"
    BY <1>2 DEF Expected, SidOf
  <1> QED
    BY <1>1, <1>2, <1>3, <1>4, <1>5 DEF ForOtherElement

LEMMA AppendOther ==
    ASSUME NEW s \in Seq(Sent), NEW x \in Sent, ~IsEvent(x)
    PROVE  EventsIn(Append(s, x)) = EventsIn(s) /\ (Ordered(s) => Ordered(Append(s, x)))
  <1> DEFINE b == Append(s, x)
  <1>1. /\ DOMAIN b = 1 .. Len(s) + 1 /\ DOMAIN s = 1 .. Len(s) /\ Len(s) \in Nat
        /\ b[Len(s) + 1] = x
        /\ \A i \in 1 .. Len(s) : b[i] = s[i]
    OBVIOUS
  <1>2. EventsIn(b) = EventsIn(s)
    BY ToSetAppend DEF EventsIn
  <1> HIDE DEF b
  <1>3. \A i \in DOMAIN b : IsEvent(b[i]) => i \in DOMAIN s /\ b[i] = s[i]
    BY <1>1
  <1>4. Ordered(s) => Ordered(b)
    BY <1>3 DEF Ordered
  <1> QED
    BY <1>2, <1>4 DEF b

LEMMA AppendNext ==
    ASSUME NEW s \in Seq(Sent), NEW x \in Sent, NEW n \in Nat, x.nr = n + 1,
           Ordered(s), \A r \in EventsIn(s) : r.nr <= n
    PROVE  Ordered(Append(s, x))
  <1> DEFINE b == Append(s, x)
  <1>1. /\ DOMAIN b = 1 .. Len(s) + 1 /\ DOMAIN s = 1 .. Len(s) /\ Len(s) \in Nat
        /\ b[Len(s) + 1] = x
        /\ \A i \in 1 .. Len(s) : b[i] = s[i]
    OBVIOUS
  <1> HIDE DEF b
  <1>2. \A i \in DOMAIN s : s[i].nr \in Nat /\ s[i] = b[i] /\ s[i] \in ToSet(s)
    BY <1>1, SentFields DEF ToSet
  <1>3. ASSUME NEW i \in DOMAIN b, NEW j \in DOMAIN b, i < j, IsEvent(b[i]), IsEvent(b[j])
        PROVE  b[i].nr < b[j].nr
    <2>1. i \in DOMAIN s
      BY <1>1, <1>3
    <2>2. CASE j \in DOMAIN s
      BY <1>1, <1>3, <2>1, <2>2 DEF Ordered
    <2>3. CASE j = Len(s) + 1
      <3>1. b[i].nr \in Nat /\ b[i].nr <= n
        BY <1>2, <1>3, <2>1 DEF EventsIn
      <3> QED
        BY <1>1, <2>3, <3>1
    <2> QED
      BY <1>1, <2>2, <2>3
  <1> QED
    BY <1>3 DEF Ordered, b

\* The oldest element of b is removed from a \o b.
LEMMA RemoveOne ==
    ASSUME NEW a \in Seq(Sent), NEW b \in Seq(Sent), b # <<>>, Ordered(a \o b)
    PROVE  /\ Ordered(a \o Tail(b))
           /\ ~IsEvent(Head(b)) => EventsIn(a \o Tail(b)) = EventsIn(a \o b)
           /\ IsEvent(Head(b)) =>
                 /\ EventsIn(a \o Tail(b)) = EventsIn(a \o b) \ {Head(b)}
                 /\ Head(b) \in EventsIn(a \o b)
  <1> DEFINE s == a \o b
             r == a \o Tail(b)
  <1>1. ToSet(s) = ToSet(r) \cup {Head(b)}
    <2>1. ToSet(s) = ToSet(a) \cup ToSet(b) /\ ToSet(r) = ToSet(a) \cup ToSet(Tail(b))
      <3>1. Tail(b) \in Seq(Sent)
        OBVIOUS
      <3> QED
        BY <3>1, ToSetConcat
    <2>2. ToSet(b) = {Head(b)} \cup ToSet(Tail(b))
      BY ToSetHead
    <2> QED
      BY <2>1, <2>2
  <1>2. \A i \in DOMAIN r :
           /\ i <= Len(a) => i \in DOMAIN s /\ r[i] = s[i]
           /\ i > Len(a) => i + 1 \in DOMAIN s /\ r[i] = s[i + 1]
    BY RemoveElement
  <1>3. /\ Len(a) \in Nat /\ DOMAIN r \subseteq Nat /\ DOMAIN s \subseteq Nat
    BY RemoveElement
  <1>4. Len(a) + 1 \in DOMAIN s /\ s[Len(a) + 1] = Head(b)
    OBVIOUS
  <1>5. s \in Seq(Sent) /\ Head(b) \in Sent /\ Head(b).nr \in Nat
    BY SentFields
  <1>6. Ordered(s)
    OBVIOUS
  <1> HIDE DEF r, s
  <1>7. ASSUME NEW i \in DOMAIN r, NEW j \in DOMAIN r, i < j, IsEvent(r[i]), IsEvent(r[j])
        PROVE  r[i].nr < r[j].nr
    <2> DEFINE k(m) == IF m <= Len(a) THEN m ELSE m + 1
    <2>1. k(i) \in DOMAIN s /\ k(j) \in DOMAIN s /\ r[i] = s[k(i)] /\ r[j] = s[k(j)]
      BY <1>2, <1>3
    <2>2. k(i) < k(j)
      BY <1>3, <1>7
    <2> HIDE DEF k
    <2> QED
      BY <1>6, <1>7, <2>1, <2>2 DEF Ordered
  <1>8. ASSUME IsEvent(Head(b)), NEW i \in DOMAIN r PROVE r[i] # Head(b)
    <2> SUFFICES ASSUME r[i] = Head(b) PROVE FALSE
      OBVIOUS
    <2>1. PICK k \in DOMAIN s : s[k] = Head(b) /\ (k < Len(a) + 1 \/ Len(a) + 1 < k)
      BY <1>2, <1>3
    <2>2. Head(b).nr < Head(b).nr
      BY <1>4, <1>6, <1>8, <2>1 DEF Ordered
    <2> QED
      BY <1>5, <2>2
  <1>9. IsEvent(Head(b)) => Head(b) \notin ToSet(r)
    BY <1>8 DEF ToSet
  <1> QED
    BY <1>1, <1>7, <1>9 DEF Ordered, EventsIn, r, s

LEMMA StreamType ==
    ASSUME Types
    PROVE  /\ Stream = reported \o Arriving
           /\ Stream \in Seq(Sent) /\ Arriving \in Seq(Sent) /\ reported \in Seq(Sent)
  <1>1. reported \in Seq(Sent) /\ rxQueue \in Seq(Sent) /\ fromServer \in Seq(Sent)
    BY DEF Types, QueueTypes
  <1> QED
    BY <1>1, Assoc, ConcatProperties DEF Stream, Arriving

\* What the transport protocol brings in stays in the stream.
LEMMA StreamMoved ==
    ASSUME Types, TransportCycle \/ TransportFails, UNCHANGED reported
    PROVE  Stream' = Stream /\ Arriving' = Arriving
  <1>1. rxQueue' = rxQueue \o fromServer /\ fromServer' = <<>>
    BY DEF TransportCycle, TransportFails
  <1>2. Arriving' = Arriving
    BY <1>1, StreamType, ConcatEmpty DEF Arriving
  <1>3. Stream' = (reported \o Arriving) \o <<>>
    BY <1>1 DEF Stream, Arriving
  <1> QED
    BY <1>2, <1>3, StreamType, ConcatEmpty

LEMMA StreamSent ==
    ASSUME Types, NEW r \in Sent, fromServer' = Append(fromServer, r),
           UNCHANGED <<rxQueue, reported>>
    PROVE  Stream' = Append(Stream, r) /\ Arriving' = Append(Arriving, r)
  <1>1. reported \in Seq(Sent) /\ rxQueue \in Seq(Sent) /\ fromServer \in Seq(Sent)
        /\ reported \o rxQueue \in Seq(Sent)
    BY ConcatProperties DEF Types, QueueTypes
  <1> QED
    BY <1>1, ConcatAppend DEF Stream, Arriving

LEMMA StreamRead ==
    ASSUME Types, rxQueue # <<>>, rxQueue' = Tail(rxQueue), UNCHANGED fromServer
    PROVE  /\ Arriving # <<>> /\ Head(Arriving) = Head(rxQueue) /\ Head(rxQueue) \in Sent
           /\ Arriving' = Tail(Arriving)
           /\ reported' = Append(reported, Head(rxQueue)) => Stream' = Stream
           /\ reported' = reported => Stream' = reported \o Tail(Arriving)
  <1>1. reported \in Seq(Sent) /\ rxQueue \in Seq(Sent) /\ fromServer \in Seq(Sent)
    BY DEF Types, QueueTypes
  <1>2. /\ Arriving # <<>> /\ Head(Arriving) = Head(rxQueue) /\ Head(rxQueue) \in Sent
        /\ Arriving' = Tail(Arriving) /\ Tail(rxQueue) \in Seq(Sent)
    BY <1>1, ConcatTail DEF Arriving
  <1>3. ASSUME reported' = Append(reported, Head(rxQueue)) PROVE Stream' = Stream
    BY <1>1, <1>2, <1>3, MoveHead DEF Stream
  <1>4. ASSUME reported' = reported PROVE Stream' = reported \o Tail(Arriving)
    <2>1. Stream' = (reported \o Tail(rxQueue)) \o fromServer
      BY <1>4 DEF Stream
    <2>2. Tail(Arriving) = Tail(rxQueue) \o fromServer
      BY <1>2 DEF Arriving
    <2>3. (reported \o Tail(rxQueue)) \o fromServer = reported \o (Tail(rxQueue) \o fromServer)
      BY <1>1, <1>2, Assoc
    <2> QED
      BY <2>1, <2>2, <2>3
  <1> QED
    BY <1>2, <1>3, <1>4

LEMMA InitNumbered == Init => Numbered /\ TakenOnce
  <1> SUFFICES ASSUME Init PROVE Numbered /\ TakenOnce
    OBVIOUS
  <1>1. Stream = <<>> /\ emitted = <<>> /\ Taking = {}
    BY DEF Init, Stream, Taking
  <1> QED
    BY <1>1 DEF Numbered, TakenOnce, Taken, EventsIn, ToSet, Ordered

\* A thread reads an event, and hands it on, or a response that is no event.
LEMMA NumberedRead ==
    ASSUME Types, Numbered, rxQueue # <<>>, rxQueue' = Tail(rxQueue),
           UNCHANGED <<fromServer, emitted, used>>, Taken' = Taken,
           HandleAsyncResponse(Head(rxQueue)) \/ (UNCHANGED reported /\ ~IsEvent(Head(rxQueue)))
    PROVE  Numbered'
  <1> DEFINE r == Head(rxQueue)
  <1>1. /\ Arriving # <<>> /\ Head(Arriving) = r /\ r \in Sent
        /\ reported' = Append(reported, r) => Stream' = Stream
        /\ reported' = reported => Stream' = reported \o Tail(Arriving)
    BY StreamRead
  <1> HIDE DEF r
  <1>2. CASE Stream' = Stream
    BY <1>2 DEF Numbered, EventsIn, Ordered
  <1>3. CASE Stream' = reported \o Tail(Arriving) /\ ~IsEvent(r)
    <2>1. EventsIn(Stream') = EventsIn(Stream) /\ Ordered(Stream')
      BY <1>1, <1>3, StreamType, RemoveOne DEF Numbered
    <2> QED
      BY <2>1 DEF Numbered, EventsIn, Ordered
  <1>4. IsEvent(r) => reported' = Append(reported, r)
    BY <1>1, EventIsAsync DEF HandleAsyncResponse, r
  <1>5. reported' = Append(reported, r) \/ reported' = reported
    BY HandleAsync DEF r
  <1> QED
    BY <1>1, <1>2, <1>3, <1>4, <1>5

\* A call takes an error event for its answer.
LEMMA NumberedTaken ==
    ASSUME Types, CallsOnce, Numbered, TakenOnce, rxQueue # <<>>, rxQueue' = Tail(rxQueue),
           UNCHANGED <<fromServer, emitted, used, reported>>, IsEvent(Head(rxQueue)),
           NEW c \in Calls, answer[c] = NoAnswer, Expected(c, Head(rxQueue)),
           Answers(c, Head(rxQueue)), answer' = [answer EXCEPT ![c] = Head(rxQueue)]
    PROVE  Numbered' /\ TakenOnce'
  <1> DEFINE r == Head(rxQueue)
  <1>1. /\ Arriving # <<>> /\ Head(Arriving) = r /\ r \in Sent
        /\ Stream' = reported \o Tail(Arriving)
    BY StreamRead
  <1>2. /\ r.kind = "error"
        /\ Op[c] # "stop" => Op[c] = "register" /\ r.elem = Element[c]
    BY <1>1, OnlyErrorsTaken
  <1>3. r # NoAnswer /\ answer' = [answer EXCEPT ![c] = r] /\ answer \in [Calls -> Sent \cup {NoAnswer}]
    BY <1>1, SentIsResponse, AnswerAssumption DEF Types, CallTypes
  <1> HIDE DEF r
  <1>4. /\ Taking' = Taking \cup {c} /\ c \notin Taking
        /\ answer'[c] = r /\ \A d \in Taking : answer'[d] = answer[d]
    BY <1>2, <1>3 DEF Taking
  <1>5. Taken' = Taken \cup {r}
    BY <1>4 DEF Taken
  <1>6. /\ Ordered(Stream') /\ r \in EventsIn(Stream)
        /\ EventsIn(Stream') = EventsIn(Stream) \ {r}
    BY <1>1, StreamType, RemoveOne DEF Numbered, r
  <1>7. r \in EventsIn(emitted) /\ r \notin Taken
    BY <1>6 DEF Numbered
  <1>8. Numbered'
    BY <1>5, <1>6, <1>7 DEF Numbered, EventsIn, Ordered
  <1>9. \A d \in Taking : answer[d] # r
    BY <1>7 DEF Taken
  <1>10. TakenOnce'
    BY <1>2, <1>4, <1>9 DEF TakenOnce
  <1> QED
    BY <1>8, <1>10

\* The server sends something that is no event.
LEMMA NumberedSent ==
    ASSUME Types, Numbered, NEW r \in Sent, ~IsEvent(r), fromServer' = Append(fromServer, r),
           UNCHANGED <<rxQueue, reported, emitted, answer>>, used'.event = used.event
    PROVE  Numbered'
  <1>1. Stream' = Append(Stream, r) /\ Stream \in Seq(Sent)
    BY StreamSent, StreamType
  <1>2. EventsIn(Append(Stream, r)) = EventsIn(Stream) /\ Ordered(Append(Stream, r))
    BY <1>1, AppendOther DEF Numbered
  <1> QED
    BY <1>1, <1>2 DEF Numbered, EventsIn, Ordered, Taken, Taking

LEMMA NumberedEvent == ASSUME Types, Numbered, ServerSendsEvent PROVE Numbered'
  <1>1. PICK e \in active, kind \in EventKinds :
           /\ emitted' = Append(emitted, Event(kind, e, used'.event))
           /\ fromServer' = Append(fromServer, Event(kind, e, used'.event))
    BY DEF ServerSendsEvent
  <1> DEFINE r == Event(kind, e, used'.event)
  <1>2. /\ used.event \in Nat /\ used.event < MaxEvents /\ used'.event = used.event + 1
        /\ UNCHANGED <<rxQueue, reported, answer>>
    BY DEF ServerSendsEvent, Types, ServerTypes, Used, client
  <1>3. r \in Sent /\ r.nr = used.event + 1 /\ IsEvent(r)
    <2>1. e \in Elements /\ used'.event \in 0 .. MaxEvents
      BY <1>2, BoundAssumption DEF Types, ServerTypes
    <2> QED
      BY <1>2, <2>1, BoundAssumption, EventIsSent DEF Event, IsEvent
  <1>4. /\ Stream' = Append(Stream, r) /\ Stream \in Seq(Sent) /\ emitted \in Seq(Sent)
        /\ emitted' = Append(emitted, r)
    BY <1>1, <1>2, <1>3, StreamSent, StreamType DEF Types, ServerTypes
  <1> HIDE DEF r
  <1>5. /\ EventsIn(Append(Stream, r)) = EventsIn(Stream) \cup {r}
        /\ EventsIn(Append(emitted, r)) = EventsIn(emitted) \cup {r}
    BY <1>3, <1>4, ToSetAppend DEF EventsIn
  <1>6. \A x \in EventsIn(emitted) : x.nr \in Nat /\ x.nr <= used.event
    <2>1. EventsIn(emitted) \subseteq Sent
      BY <1>4 DEF EventsIn, ToSet
    <2> QED
      BY <2>1, SentFields DEF Numbered
  <1>7. r \notin EventsIn(emitted)
    BY <1>2, <1>3, <1>6
  <1>8. Ordered(Append(Stream, r))
    <2>1. \A x \in EventsIn(Stream) : x.nr <= used.event
      BY DEF Numbered
    <2> QED
      BY <1>2, <1>3, <1>4, <2>1, AppendNext DEF Numbered
  <1>9. Taken' = Taken
    BY <1>2 DEF Taken, Taking
  <1>10. EventsIn(Stream') = EventsIn(emitted') \ Taken' /\ Taken' \subseteq EventsIn(emitted')
    BY <1>4, <1>5, <1>7, <1>9 DEF Numbered
  <1>11. \A x \in EventsIn(emitted') : x.nr <= used'.event
    BY <1>2, <1>3, <1>4, <1>5, <1>6
  <1> QED
    BY <1>4, <1>8, <1>10, <1>11 DEF Numbered, EventsIn, Ordered

LEMMA NumberedPoll ==
    ASSUME Types, CallsOnce, Numbered, TakenOnce, NEW t \in Pollers, ReadResponse(t)
    PROVE  Numbered' /\ TakenOnce'
  <1> DEFINE r == Head(rxQueue)
             c == current[t]
  <1>1. /\ r \in Sent /\ c \in Calls /\ rxQueue # <<>> /\ rxQueue' = Tail(rxQueue)
        /\ UNCHANGED <<fromServer, emitted, used>> /\ answer[c] = NoAnswer
    BY ReadOutcome, StreamRead, PollerTypes DEF elsewhere, CallsOnce
  <1>2. \/ UNCHANGED answer /\ (HandleAsyncResponse(r) \/ (r.kind = "pending" /\ UNCHANGED reported))
        \/ /\ Expected(c, r) /\ Answers(c, r) /\ UNCHANGED reported
           /\ answer' = [answer EXCEPT ![c] = r]
    BY ReadOutcome
  <1>3. CASE IsEvent(r) /\ Expected(c, r) /\ Answers(c, r) /\ UNCHANGED reported
             /\ answer' = [answer EXCEPT ![c] = r]
    <2> HIDE DEF c
    <2> QED
      BY <1>1, <1>3, NumberedTaken
  <1>4. ASSUME Taking' = Taking, \A d \in Taking : answer'[d] = answer[d],
               HandleAsyncResponse(r) \/ (UNCHANGED reported /\ ~IsEvent(r))
        PROVE  Numbered' /\ TakenOnce'
    <2>1. Taken' = Taken
      BY <1>4 DEF Taken
    <2>2. TakenOnce'
      BY <1>4 DEF TakenOnce
    <2> QED
      BY <1>1, <1>4, <2>1, <2>2, NumberedRead
  <1>5. CASE UNCHANGED answer
    <2>1. Taking' = Taking /\ \A d \in Taking : answer'[d] = answer[d]
      BY <1>5 DEF Taking
    <2>2. r.kind = "pending" => ~IsEvent(r)
      BY DEF IsEvent
    <2>3. HandleAsyncResponse(r) \/ (UNCHANGED reported /\ ~IsEvent(r))
                                 \/ answer' = [answer EXCEPT ![c] = r]
      BY <1>2, <2>2
    <2>4. CASE answer' = [answer EXCEPT ![c] = r]
      <3>1. r = NoAnswer
        BY <1>1, <1>5, <2>4 DEF Types, CallTypes
      <3> QED
        BY <1>1, <3>1, SentIsResponse, AnswerAssumption
    <2> QED
      BY <1>4, <2>1, <2>3, <2>4
  <1>6. CASE ~IsEvent(r) /\ UNCHANGED reported /\ answer' = [answer EXCEPT ![c] = r]
    <2>1. r.kind # "error" /\ answer \in [Calls -> Sent \cup {NoAnswer}]
      BY <1>6 DEF IsEvent, Types, CallTypes
    <2> HIDE DEF r, c
    <2>2. Taking' = Taking /\ \A d \in Taking : answer'[d] = answer[d]
      BY <1>1, <1>6, <2>1 DEF Taking
    <2> QED
      BY <1>4, <1>6, <2>2
  <1> QED
    BY <1>2, <1>3, <1>5, <1>6

LEMMA NextNumbered ==
    Types /\ CallsOnce /\ Numbered /\ TakenOnce /\ [Next]_vars => Numbered' /\ TakenOnce'
  <1> SUFFICES ASSUME Types, CallsOnce, Numbered, TakenOnce, [Next]_vars
               PROVE  Numbered' /\ TakenOnce'
    OBVIOUS
  <1>1. ASSUME UNCHANGED answer PROVE TakenOnce' /\ Taken' = Taken
    BY <1>1 DEF TakenOnce, Taken, Taking
  <1>2. ASSUME Stream' = Stream, UNCHANGED <<emitted, answer>>, used'.event = used.event
        PROVE  Numbered' /\ TakenOnce'
    BY <1>1, <1>2 DEF Numbered, EventsIn, Ordered
  <1>3. ASSUME UNCHANGED <<reported, rxQueue, fromServer>> PROVE Stream' = Stream
    BY <1>3 DEF Stream
  <1>4. ASSUME NEW t \in Pollers, ReadResponse(t) PROVE Numbered' /\ TakenOnce'
    BY <1>4, NumberedPoll
  <1>5. CASE CycleRead
    BY <1>1, <1>5, NumberedRead DEF CycleRead
  <1>6. CASE CycleTransport \/ \E t \in Pollers : PollTransport(t)
    <2>1. TransportCycle \/ TransportFails
      BY <1>6 DEF PollTransport, CycleTransport
    <2>2. UNCHANGED <<reported, emitted, answer>> /\ used'.event = used.event
      BY <1>6 DEF PollTransport, CycleTransport, TransportFails, elsewhere, Types, ServerTypes, Used
    <2> QED
      BY <1>2, <2>1, <2>2, StreamMoved
  <1>7. CASE ServerAnswers
    <2>1. Head(toServer) \in Calls
      BY <1>7 DEF ServerAnswers, Types, QueueTypes
    <2>2. PICK r \in Sent : ~IsEvent(r) /\ fromServer' = Append(fromServer, r)
      <3>1. \/ fromServer' = Append(fromServer, PositiveAnswer(Head(toServer)))
            \/ \E extended \in BOOLEAN :
                  fromServer' = Append(fromServer, NegativeAnswer(Head(toServer), extended))
        BY <1>7 DEF ServerAnswers
      <3>2. ~IsEvent(PositiveAnswer(Head(toServer)))
            /\ \A x \in BOOLEAN : ~IsEvent(NegativeAnswer(Head(toServer), x))
        BY DEF PositiveAnswer, NegativeAnswer, IsEvent
      <3> QED
        BY <2>1, <3>1, <3>2, PositiveIsSent, NegativeIsSent
    <2> QED
      BY <1>1, <1>7, <2>2, NumberedSent DEF ServerAnswers, client
  <1>8. CASE ServerNeedsTime
    <2>1. Head(toServer) \in Calls
      BY <1>8 DEF ServerNeedsTime, Types, QueueTypes
    <2>2. PendingAnswer(Head(toServer)) \in Sent /\ ~IsEvent(PendingAnswer(Head(toServer)))
      BY <2>1, PendingIsSent DEF PendingAnswer, IsEvent
    <2>3. used'.event = used.event
      BY <1>8 DEF ServerNeedsTime, Types, ServerTypes, Used
    <2> QED
      BY <1>1, <1>8, <2>2, <2>3, NumberedSent DEF ServerNeedsTime, client
  <1>9. CASE ServerSendsEvent
    BY <1>1, <1>9, NumberedEvent DEF ServerSendsEvent, client
  <1>10. CASE ServerIsSilent
    <2>1. UNCHANGED <<reported, rxQueue, fromServer, emitted, answer>> /\ used'.event = used.event
      BY <1>10 DEF ServerIsSilent, client, Types, ServerTypes, Used
    <2> QED
      BY <1>2, <1>3, <2>1
  <1>11. CASE TryAcquire \/ CycleEnd \/ UNCHANGED vars
    <2>1. UNCHANGED <<reported, rxQueue, fromServer, emitted, answer, used>>
      BY <1>11 DEF TryAcquire, CycleEnd, vars, elsewhere
    <2> QED
      BY <1>2, <1>3, <2>1
  <1>12. ASSUME NEW t \in Pollers,
                \/ \E c \in Calls : SendRequest(t, c)
                \/ Acquire(t) \/ TimeOut(t) \/ NothingRead(t) \/ Expire(t)
         PROVE  Numbered' /\ TakenOnce'
    <2>1. UNCHANGED <<reported, rxQueue, fromServer, emitted, answer>>
      BY <1>12 DEF SendRequest, Acquire, TimeOut, NothingRead, Expire, elsewhere
    <2>2. used'.event = used.event
      BY <1>12 DEF SendRequest, Acquire, TimeOut, NothingRead, Expire, Types, ServerTypes, Used
    <2> QED
      BY <1>2, <1>3, <2>1, <2>2
  <1> QED
    BY <1>4, <1>5, <1>6, <1>7, <1>8, <1>9, <1>10, <1>11, <1>12 DEF Next, Poll, Cycle

LEMMA NumberedInvariant == Spec => [](Numbered /\ TakenOnce)
  BY InitNumbered, TypesInvariant, CallsOnceInvariant, NextNumbered, PTL DEF Spec

LEMMA NumberedSuffices ==
    ASSUME Types, Numbered, TakenOnce
    PROVE  DataEventsReported /\ ErrorEventsReportedOrTaken
  <1>1. InOrder("data") /\ InOrder("error")
    BY DEF Numbered, Ordered, IsEvent, InOrder
  <1>2. \A r \in Taken : r.kind = "error"
    BY DEF Taken, Taking
  <1>3. /\ OfKind("data", Stream) = OfKind("data", emitted)
        /\ OfKind("error", Stream) = OfKind("error", emitted) \ Taken
    BY <1>2 DEF Numbered, OfKind, EventsIn, IsEvent
  <1>4. \A c \in Taking : answer[c] \in ToSet(emitted)
    BY DEF Numbered, Taken, EventsIn
  <1>5. DataEventsReported
    BY <1>1, <1>3 DEF DataEventsReported, EventsReported
  <1>6. ErrorEventsReportedOrTaken
    BY <1>1, <1>3, <1>4 DEF ErrorEventsReportedOrTaken, TakenOnce, Taken
  <1> QED
    BY <1>5, <1>6

\* Data events reach the application once and in order, whichever thread reads
\* them and whatever is polled for, for any number of threads, calls and events.
THEOREM DataEventsArrive == Spec => []DataEventsReported
  BY TypesInvariant, NumberedInvariant, NumberedSuffices, PTL

\* An error event only goes astray by being taken for the negative response to a call
\* that stops all events or registers its element: the violation that the run
\* op_error_event finds has no other cause, with any threads, time-outs and losses.
THEOREM ErrorEventsArrive == Spec => []ErrorEventsReportedOrTaken
  BY TypesInvariant, NumberedInvariant, NumberedSuffices, PTL

-----------------------------------------------------------------------------
(* One thing at a time.                                                     *)

LEMMA ArrivingRead ==
    ASSUME NEW s \in Seq(Sent), s # <<>>, NEW c
    PROVE  /\ Tail(s) \in Seq(Sent) /\ Head(s) \in Sent
           /\ Events(s) => Events(Tail(s))
           /\ OwnOnly(s, c) => OwnOnly(Tail(s), c) /\ (Head(s).call \in Calls => Head(s).call = c)
           /\ NoFinal(s) => NoFinal(Tail(s))
           /\ FinalLast(s) => FinalLast(Tail(s)) /\ (Final(Head(s)) => Events(Tail(s)))
           /\ HasFinal(s, c) =>
                 HasFinal(Tail(s), c) \/ (Final(Head(s)) /\ Head(s).call = c)
           /\ Final(Head(s)) => ~NoFinal(s)
           /\ Events(s) => Head(s).call = NoCall
           /\ \A i \in DOMAIN Tail(s) : \E j \in DOMAIN s : Tail(s)[i] = s[j]
  <1> DEFINE b == Tail(s)
  <1>1. /\ DOMAIN s = 1 .. Len(s) /\ DOMAIN b = 1 .. Len(s) - 1
        /\ Len(s) \in Nat /\ Len(s) >= 1
        /\ s[1] = Head(s)
        /\ \A i \in 1 .. Len(s) - 1 : b[i] = s[i + 1]
        /\ b \in Seq(Sent) /\ Head(s) \in Sent
    OBVIOUS
  <1> HIDE DEF b
  <1>2. 1 \in DOMAIN s /\ \A i \in DOMAIN b : i + 1 \in DOMAIN s /\ b[i] = s[i + 1]
    BY <1>1
  <1>3. Events(s) => Events(b) /\ Head(s).call = NoCall
    BY <1>1, <1>2 DEF Events
  <1>4. OwnOnly(s, c) => OwnOnly(b, c) /\ (Head(s).call \in Calls => Head(s).call = c)
    BY <1>1, <1>2 DEF OwnOnly
  <1>5. NoFinal(s) => NoFinal(b) /\ ~Final(Head(s))
    BY <1>1, <1>2 DEF NoFinal
  <1>6. ASSUME FinalLast(s) PROVE FinalLast(b) /\ (Final(Head(s)) => Events(b))
    <2>1. \A i, j \in DOMAIN b : i < j => i + 1 < j + 1
      BY <1>1
    <2>2. \A i \in DOMAIN b : 1 < i + 1
      BY <1>1
    <2>3. FinalLast(b)
      BY <1>2, <1>6, <2>1 DEF FinalLast
    <2>4. Final(Head(s)) => Events(b)
      BY <1>1, <1>2, <1>6, <2>2 DEF FinalLast, Events
    <2> QED
      BY <2>3, <2>4
  <1>7. ASSUME HasFinal(s, c) PROVE HasFinal(b, c) \/ (Final(Head(s)) /\ Head(s).call = c)
    <2>1. PICK i \in DOMAIN s : Final(s[i]) /\ s[i].call = c
      BY <1>7 DEF HasFinal
    <2>2. CASE i = 1
      BY <1>1, <2>1, <2>2
    <2>3. CASE i # 1
      <3>1. i - 1 \in DOMAIN b /\ (i - 1) + 1 = i
        BY <1>1, <2>3
      <3> QED
        BY <1>2, <2>1, <3>1 DEF HasFinal
    <2> QED
      BY <2>2, <2>3
  <1> QED
    BY <1>1, <1>2, <1>3, <1>4, <1>5, <1>6, <1>7 DEF b

LEMMA ArrivingSent ==
    ASSUME NEW s \in Seq(Sent), NEW x \in Sent, NEW c
    PROVE  /\ Append(s, x) \in Seq(Sent)
           /\ Events(s) /\ x.call = NoCall => Events(Append(s, x))
           /\ OwnOnly(s, c) /\ (x.call \in Calls => x.call = c) => OwnOnly(Append(s, x), c)
           /\ NoFinal(s) /\ ~Final(x) => NoFinal(Append(s, x))
           /\ FinalLast(s) /\ (x.call = NoCall \/ NoFinal(s)) => FinalLast(Append(s, x))
           /\ HasFinal(s, c) => HasFinal(Append(s, x), c)
           /\ Final(x) /\ x.call = c => HasFinal(Append(s, x), c)
           /\ \A i \in DOMAIN Append(s, x) :
                 Append(s, x)[i] = x \/ \E j \in DOMAIN s : Append(s, x)[i] = s[j]
  <1> DEFINE b == Append(s, x)
  <1>1. /\ DOMAIN b = 1 .. Len(s) + 1 /\ DOMAIN s = 1 .. Len(s) /\ Len(s) \in Nat
        /\ b[Len(s) + 1] = x
        /\ \A i \in 1 .. Len(s) : b[i] = s[i]
        /\ b \in Seq(Sent)
    OBVIOUS
  <1> HIDE DEF b
  <1>2. \A i \in DOMAIN b : i = Len(s) + 1 \/ (i \in DOMAIN s /\ i < Len(s) + 1 /\ b[i] = s[i])
    BY <1>1
  <1>3. Len(s) + 1 \in DOMAIN b /\ \A i \in DOMAIN s : i \in DOMAIN b /\ b[i] = s[i]
    BY <1>1
  <1>4. Events(s) /\ x.call = NoCall => Events(b)
    BY <1>1, <1>2 DEF Events
  <1>5. OwnOnly(s, c) /\ (x.call \in Calls => x.call = c) => OwnOnly(b, c)
    BY <1>1, <1>2 DEF OwnOnly
  <1>6. NoFinal(s) /\ ~Final(x) => NoFinal(b)
    BY <1>1, <1>2 DEF NoFinal
  <1>7. ASSUME FinalLast(s), x.call = NoCall \/ NoFinal(s),
               NEW i \in DOMAIN b, NEW j \in DOMAIN b, Final(b[i]), i < j
        PROVE  b[j].call = NoCall
    <2>1. i \in DOMAIN s /\ b[i] = s[i]
      BY <1>1, <1>2, <1>7
    <2>2. CASE j = Len(s) + 1
      BY <1>1, <1>7, <2>1, <2>2 DEF NoFinal
    <2>3. CASE j # Len(s) + 1
      BY <1>2, <1>7, <2>1, <2>3 DEF FinalLast
    <2> QED
      BY <2>2, <2>3
  <1>8. (HasFinal(s, c) => HasFinal(b, c)) /\ (Final(x) /\ x.call = c => HasFinal(b, c))
    BY <1>1, <1>3 DEF HasFinal
  <1> QED
    BY <1>1, <1>2, <1>4, <1>5, <1>6, <1>7, <1>8 DEF FinalLast, b

Coming(c) == c \in Requests \/ \E i \in DOMAIN Arriving : Arriving[i].call = c

LEMMA ToComeIsComing ==
    ASSUME Types, NEW c
    PROVE  ToCome(c) <=> Coming(c)
  <1>1. ToSet(txQueue \o toServer) = Requests
    BY ToSetConcat DEF Types, QueueTypes, Requests
  <1> QED
    BY <1>1 DEF ToCome, Coming, Arriving

\* When nothing is to come of the call t is in, nothing is to come at all.
LEMMA NothingComes ==
    ASSUME Types, NEW t \in Pollers, OneCall(t), ~Coming(current[t])
    PROVE  Requests = {} /\ Events(Arriving)
  <1>1. Requests = {}
    BY DEF OneCall, Coming
  <1>2. ASSUME NEW i \in DOMAIN Arriving PROVE Arriving[i].call = NoCall
    <2>1. Arriving[i] \in Sent
      BY StreamType, ElementOfSeq
    <2>2. Arriving[i].call \notin Calls
      BY DEF OneCall, OwnOnly, Coming
    <2> QED
      BY <2>1, <2>2, SentFields
  <1> QED
    BY <1>1, <1>2 DEF Events

LEMMA EventsOwnNothing ==
    ASSUME NEW s \in Seq(Sent), Events(s), NEW c
    PROVE  OwnOnly(s, c) /\ NoFinal(s) /\ FinalLast(s)
  <1>1. \A i \in DOMAIN s : s[i] \in Sent /\ s[i].call \notin Calls
    BY CallAssumption, ElementOfSeq DEF Events
  <1>2. \A i \in DOMAIN s : ~Final(s[i])
    BY <1>1, SentFields DEF WellFormed, Final
  <1> QED
    BY <1>1, <1>2 DEF OwnOnly, NoFinal, FinalLast

LEMMA NoRequests ==
    ASSUME Types
    PROVE  Requests = {} <=> txQueue = <<>> /\ toServer = <<>>
  <1>1. txQueue \in Seq(Calls) /\ toServer \in Seq(Calls)
    BY DEF Types, QueueTypes
  <1>2. txQueue # <<>> => ToSet(txQueue) # {}
    BY <1>1, ToSetHead
  <1>3. toServer # <<>> => ToSet(toServer) # {}
    BY <1>1, ToSetHead
  <1>4. ToSet(<<>>) = {}
    BY DEF ToSet
  <1> QED
    BY <1>2, <1>3, <1>4 DEF Requests

LEMMA OneThingPrimed ==
    ASSUME NEW t, Types'
    PROVE  OneThing(t)' <=>
             /\ Len(txQueue') + Len(toServer') <= 1
             /\ Requests' \subseteq {current'[t]} \ answered'
             /\ OwnOnly(Arriving', current'[t])
             /\ txQueue' # <<>> => Events(Arriving')
             /\ toServer' # <<>> => NoFinal(Arriving')
             /\ FinalLast(Arriving')
             /\ current'[t] \in answered' \ snatched' => HasFinal(Arriving', current'[t])
             /\ timeOver'[t] /\ pc'[t] # "idle" =>
                   /\ current'[t] \notin Requests'
                   /\ \A i \in DOMAIN Arriving' : Arriving'[i].call # current'[t]
  <1>1. ToSet(txQueue' \o toServer') = ToSet(txQueue') \cup ToSet(toServer')
    BY ToSetConcat DEF Types, QueueTypes
  <1>2. Requests' = ToSet(txQueue' \o toServer')
    BY <1>1 DEF Requests, ToSet
  <1>3. ToCome(current[t])' <=>
           \/ current'[t] \in Requests'
           \/ \E i \in DOMAIN Arriving' : Arriving'[i].call = current'[t]
    BY <1>2 DEF ToCome, Arriving, ToSet
  <1>4. OneCall(t)' <=> /\ Len(txQueue') + Len(toServer') <= 1
                        /\ Requests' \subseteq {current'[t]} \ answered'
                        /\ OwnOnly(Arriving', current'[t])
                        /\ txQueue' # <<>> => Events(Arriving')
                        /\ toServer' # <<>> => NoFinal(Arriving')
                        /\ FinalLast(Arriving')
    BY DEF OneCall, OwnOnly, Events, NoFinal, FinalLast
  <1>5. AnswerThere(t)' <=>
           (current'[t] \in answered' \ snatched' => HasFinal(Arriving', current'[t]))
    BY DEF AnswerThere, HasFinal
  <1> QED
    BY <1>3, <1>4, <1>5 DEF OneThing, OverWhenSilent

\* A thread that is in no call, with nothing to come.
LEMMA QuietIsOneThing ==
    ASSUME Types, Types', NEW t \in Pollers, txQueue' = <<>>, toServer' = <<>>,
           Events(Arriving'), pc'[t] = "idle"
    PROVE  OneThing(t)'
  <1>1. current'[t] = NoCall /\ NoCall \notin answered'
    BY CallAssumption DEF Types, ThreadTypes, ServerTypes
  <1>2. Requests' = {}
    BY DEF Requests, ToSet
  <1>3. Arriving' \in Seq(Sent)
    BY ConcatProperties DEF Types, QueueTypes, Arriving
  <1>4. OwnOnly(Arriving', current'[t]) /\ FinalLast(Arriving')
    BY <1>3, EventsOwnNothing
  <1>5. Len(txQueue') + Len(toServer') <= 1
    OBVIOUS
  <1> QED
    BY <1>1, <1>2, <1>4, <1>5, OneThingPrimed

\* A step that adds nothing to what is under way, and takes no answer of t away
\* unless it is snatched.
LEMMA NothingAdded ==
    ASSUME Types, Types', NEW t \in Pollers, OneThing(t),
           Requests' \subseteq Requests,
           Len(txQueue') + Len(toServer') <= 1,
           txQueue' # <<>> => txQueue # <<>>,
           toServer' # <<>> => toServer # <<>> \/ txQueue # <<>>,
           current'[t] = current[t], answered' = answered, snatched \subseteq snatched',
           \/ Arriving' = Arriving
           \/ /\ Arriving # <<>> /\ Arriving' = Tail(Arriving)
              /\ Final(Head(Arriving)) /\ Head(Arriving).call = current[t] =>
                    current[t] \in snatched',
           timeOver'[t] /\ pc'[t] # "idle" => timeOver[t] /\ pc[t] # "idle"
    PROVE  OneThing(t)'
  <1>1. /\ Requests \subseteq {current[t]} \ answered
        /\ OwnOnly(Arriving, current[t])
        /\ txQueue # <<>> => Events(Arriving)
        /\ toServer # <<>> => NoFinal(Arriving)
        /\ FinalLast(Arriving)
        /\ current[t] \in answered \ snatched => HasFinal(Arriving, current[t])
    BY DEF OneThing, OneCall, AnswerThere
  <1>2. timeOver[t] /\ pc[t] # "idle" =>
           /\ current[t] \notin Requests
           /\ \A i \in DOMAIN Arriving : Arriving[i].call # current[t]
    BY ToComeIsComing DEF OneThing, OverWhenSilent, Coming
  <1>3. Arriving \in Seq(Sent)
    BY StreamType
  <1>4. txQueue # <<>> => NoFinal(Arriving)
    BY <1>1, <1>3, EventsOwnNothing
  <1>5. /\ OwnOnly(Arriving', current[t])
        /\ Events(Arriving) => Events(Arriving')
        /\ NoFinal(Arriving) => NoFinal(Arriving')
        /\ FinalLast(Arriving')
        /\ current[t] \in answered \ snatched' => HasFinal(Arriving', current[t])
        /\ \A i \in DOMAIN Arriving' : \E j \in DOMAIN Arriving : Arriving'[i] = Arriving[j]
    <2>1. CASE Arriving' = Arriving
      BY <1>1, <2>1
    <2>2. CASE /\ Arriving # <<>> /\ Arriving' = Tail(Arriving)
               /\ Final(Head(Arriving)) /\ Head(Arriving).call = current[t] =>
                     current[t] \in snatched'
      BY <1>1, <1>3, <2>2, ArrivingRead
    <2> QED
      BY <2>1, <2>2
  <1> QED
    BY <1>1, <1>2, <1>4, <1>5, OneThingPrimed

-----------------------------------------------------------------------------
(* OwnAnswer and TimeoutOnlyIfSilent, where one application thread polls.     *)

LEMMA LengthOfQueues ==
    ASSUME Types, Len(txQueue) + Len(toServer) <= 1
    PROVE  /\ TransportCycle =>
                 /\ Len(txQueue') + Len(toServer') <= 1
                 /\ txQueue' # <<>> => txQueue # <<>>
                 /\ toServer' # <<>> => toServer # <<>> \/ txQueue # <<>>
           /\ TransportFails => txQueue # <<>> /\ txQueue' = <<>> /\ toServer' = <<>>
           /\ toServer # <<>> =>
                 Len(toServer) = 1 /\ txQueue = <<>> /\ Tail(toServer) = <<>>
  <1>1. txQueue \in Seq(Calls) /\ toServer \in Seq(Calls)
    BY DEF Types, QueueTypes
  <1>2. Len(txQueue) \in Nat /\ Len(toServer) \in Nat
    BY <1>1
  <1>0. /\ txQueue = <<>> <=> Len(txQueue) = 0
        /\ toServer = <<>> <=> Len(toServer) = 0
    BY <1>1, EmptySeq
  <1>3. /\ txQueue # <<>> => Len(txQueue) = 1 /\ toServer = <<>>
        /\ toServer # <<>> => Len(toServer) = 1 /\ txQueue = <<>>
    <2>1. ASSUME NEW m \in Nat, NEW n \in Nat, m + n <= 1
          PROVE  (m # 0 => m = 1 /\ n = 0) /\ (n # 0 => n = 1 /\ m = 0)
      BY <2>1
    <2> QED
      BY <1>0, <1>2, <2>1
  <1>4. /\ txQueue # <<>> => Tail(txQueue) = <<>>
        /\ toServer # <<>> => Tail(toServer) = <<>>
    <2>1. ASSUME NEW s \in Seq(Calls), Len(s) = 1 PROVE Tail(s) = <<>>
      <3>1. s # <<>>
        BY <2>1
      <3>2. Tail(s) \in Seq(Calls) /\ Len(Tail(s)) = 0
        BY <2>1, <3>1, HeadTailProperties
      <3> QED
        BY <3>2, EmptySeq
    <2> QED
      BY <1>1, <1>3, <2>1
  <1>5. ASSUME TransportCycle
        PROVE  /\ Len(txQueue') + Len(toServer') <= 1
               /\ txQueue' # <<>> => txQueue # <<>>
               /\ toServer' # <<>> => toServer # <<>> \/ txQueue # <<>>
    <2>1. CASE txQueue = <<>>
      BY <1>5, <2>1 DEF TransportCycle
    <2>2. CASE txQueue # <<>>
      <3>1. txQueue' = <<>> /\ toServer' = Append(<<>>, Head(txQueue))
        BY <1>3, <1>4, <1>5, <2>2 DEF TransportCycle
      <3>2. Len(txQueue') = 0 /\ Len(toServer') = 1
        BY <3>1
      <3> QED
        BY <2>2, <3>1, <3>2
    <2> QED
      BY <2>1, <2>2
  <1>6. ASSUME TransportFails PROVE txQueue # <<>> /\ txQueue' = <<>> /\ toServer' = <<>>
    BY <1>3, <1>4, <1>6 DEF TransportFails
  <1> QED
    BY <1>3, <1>4, <1>5, <1>6

\* An answer a poller takes is the final one to its own call.
LEMMA TakesOwnAnswer ==
    ASSUME Types, Types', NEW t \in Pollers, OneThing(t), ReadResponse(t), Undisturbed',
           Expected(current[t], Head(rxQueue)), Answers(current[t], Head(rxQueue)),
           answer' = [answer EXCEPT ![current[t]] = Head(rxQueue)]
    PROVE  Head(rxQueue).call = current[t] /\ Final(Head(rxQueue))
  <1> DEFINE r == Head(rxQueue)
             c == current[t]
  <1>1. rxQueue # <<>> /\ c \in Calls
    BY ReadOutcome, PollerTypes
  <1>2. Arriving # <<>> /\ Head(Arriving) = r /\ r \in Sent
    BY ReadOutcome, StreamRead
  <1>3. r.call \in Calls => r.call = c
    BY <1>2, StreamType, ArrivingRead DEF OneThing, OneCall
  <1>4. answer'[c] = r /\ r # NoAnswer
    BY <1>1, <1>2, SentIsResponse, AnswerAssumption DEF Types, CallTypes
  <1>5. r.kind # "error"
    BY <1>1, <1>4 DEF Undisturbed, Taking
  <1>6. r.call = c
    BY <1>1, <1>2, <1>3, <1>5, AnswerHasCall
  <1> QED
    BY <1>1, <1>2, <1>6, FinalEnds

\* The steps of the poller t.
LEMMA PollerOneThing ==
    ASSUME OnePoller, Types, Types', CallsOnce, NEW t \in Pollers, OneThing(t), Undisturbed',
           \/ \E c \in Calls : SendRequest(t, c)
           \/ Acquire(t) \/ Poll(t) \/ Expire(t)
    PROVE  OneThing(t)'
  <1>1. /\ Len(txQueue) + Len(toServer) <= 1
        /\ Requests \subseteq {current[t]} \ answered
        /\ OwnOnly(Arriving, current[t])
        /\ txQueue # <<>> => Events(Arriving)
        /\ toServer # <<>> => NoFinal(Arriving)
        /\ FinalLast(Arriving)
        /\ OneCall(t)
    BY DEF OneThing, OneCall
  <1>2. Arriving \in Seq(Sent)
    BY StreamType
  <1>3. t \in Threads
    BY DEF Threads
  <1>4. ASSUME NEW c \in Calls, SendRequest(t, c) PROVE OneThing(t)'
    <2>1. /\ c \in todo /\ pc[t] = "idle"
          /\ UNCHANGED <<toServer, fromServer, rxQueue, answered, snatched>>
      BY <1>4 DEF SendRequest, elsewhere
    <2>2. c \notin answered /\ current[t] = NoCall
      BY <2>1 DEF CallsOnce, Types, ThreadTypes
    <2>3. Requests = {} /\ Events(Arriving) /\ Arriving' = Arriving
      <3>1. Requests \subseteq Calls
        BY DEF Requests, ToSet, Types, QueueTypes
      <3>2. \A i \in DOMAIN Arriving : Arriving[i].call \in Calls \cup {NoCall}
        BY <1>2, SentFields, ElementOfSeq
      <3> QED
        BY <1>1, <2>1, <2>2, <3>1, <3>2, CallAssumption DEF OwnOnly, Events, Arriving
    <2>4. txQueue = <<>> /\ toServer = <<>>
      BY <2>3, NoRequests
    <2>5. CASE Len(txQueue) < MaxServiceQueueSize
      <3>1. /\ txQueue' = Append(<<>>, c) /\ toServer' = <<>>
            /\ current' = [current EXCEPT ![t] = c]
            /\ timeOver' = [timeOver EXCEPT ![t] = FALSE]
        BY <1>4, <2>1, <2>4, <2>5 DEF SendRequest
      <3>2. current'[t] = c /\ ~timeOver'[t]
        BY <3>1 DEF Types, ThreadTypes
      <3>3. Requests' = {c}
        BY <2>3, <2>4, <3>1, RequestsMoved
      <3>4. Len(txQueue') + Len(toServer') <= 1
        BY <3>1
      <3>5. OwnOnly(Arriving', c) /\ FinalLast(Arriving')
        BY <1>2, <2>3, EventsOwnNothing
      <3> QED
        BY <2>1, <2>2, <2>3, <3>1, <3>2, <3>3, <3>4, <3>5, OneThingPrimed
    <2>6. CASE ~(Len(txQueue) < MaxServiceQueueSize)
      <3>1. UNCHANGED <<txQueue, pc>>
        BY <1>4, <2>6 DEF SendRequest
      <3> QED
        BY <2>1, <2>3, <2>4, <3>1, QuietIsOneThing
    <2> QED
      BY <2>5, <2>6
  <1>5. ASSUME \/ Acquire(t) \/ NothingRead(t)
        PROVE  OneThing(t)'
    <2>1. /\ UNCHANGED <<current, timeOver, txQueue, toServer, fromServer, rxQueue, answered, snatched>>
          /\ pc[t] # "idle"
      BY <1>5 DEF Acquire, NothingRead, elsewhere
    <2>2. Requests' = Requests /\ Arriving' = Arriving
      BY <2>1, RequestsSame DEF Arriving
    <2> QED
      BY <1>1, <2>1, <2>2, NothingAdded
  <1>6. CASE TimeOut(t)
    <2>1. /\ timeOver[t] /\ pc[t] # "idle" /\ Return(t, "timeout")
          /\ UNCHANGED <<txQueue, toServer, fromServer, rxQueue>>
      BY <1>6 DEF TimeOut, TimeOver
    <2>2. ~Coming(current[t])
      BY <2>1, ToComeIsComing DEF OneThing, OverWhenSilent
    <2>3. Requests = {} /\ Events(Arriving)
      BY <1>1, <2>2, NothingComes
    <2>4. txQueue' = <<>> /\ toServer' = <<>> /\ Arriving' = Arriving
      BY <2>1, <2>3, NoRequests DEF Arriving
    <2>5. pc'[t] = "idle"
      BY <1>3, <2>1 DEF Return, Types, ThreadTypes
    <2> QED
      BY <2>3, <2>4, <2>5, QuietIsOneThing
  <1>7. CASE PollTransport(t)
    <2>1. UNCHANGED <<timeOver, answered, snatched, reported>> /\ pc[t] = "polling"
      BY <1>7 DEF PollTransport, elsewhere
    <2>2. CASE TransportCycle /\ UNCHANGED current
      <3>1. Requests' = Requests /\ Arriving' = Arriving
        BY <2>1, <2>2, RequestsMoved, StreamMoved
      <3> QED
        BY <1>1, <2>1, <2>2, <3>1, LengthOfQueues, NothingAdded
    <2>3. CASE TransportFails /\ Return(t, "com")
      <3>1. Arriving' = Arriving
        BY <2>1, <2>3, StreamMoved
      <3>2. txQueue # <<>> /\ txQueue' = <<>> /\ toServer' = <<>>
        BY <1>1, <2>3, LengthOfQueues
      <3>3. pc'[t] = "idle"
        BY <1>3, <2>3 DEF Return, Types, ThreadTypes
      <3> QED
        BY <1>1, <3>1, <3>2, <3>3, QuietIsOneThing
    <2> QED
      BY <1>7, <2>2, <2>3 DEF PollTransport
  <1>8. CASE ReadResponse(t)
    <2> DEFINE r == Head(rxQueue)
               c == current[t]
    <2>1. /\ rxQueue # <<>> /\ pc[t] = "reading" /\ c \in Calls
          /\ UNCHANGED <<txQueue, toServer, fromServer, answered, snatched>>
      BY <1>8, ReadOutcome, PollerTypes DEF elsewhere
    <2>2. /\ Arriving # <<>> /\ Head(Arriving) = r /\ r \in Sent /\ Arriving' = Tail(Arriving)
      BY <1>8, ReadOutcome, StreamRead
    <2>4. ASSUME ~(Expected(c, r) /\ Answers(c, r)), UNCHANGED current,
                 timeOver'[t] => timeOver[t]
          PROVE  OneThing(t)'
      <3>1. ~(Final(r) /\ r.call = c)
        BY <2>1, <2>2, <2>4, FinalEnds
      <3>2. Requests' = Requests
        BY <2>1, RequestsSame
      <3> QED
        BY <1>1, <2>1, <2>2, <2>4, <3>1, <3>2, NothingAdded
    <2>5. ASSUME Expected(c, r), Answers(c, r), NEW res, Return(t, res),
                 answer' = [answer EXCEPT ![c] = r]
          PROVE  OneThing(t)'
      <3>3. Final(r)
        BY <1>8, <2>5, TakesOwnAnswer
      <3>4. Events(Tail(Arriving)) /\ ~NoFinal(Arriving) /\ ~Events(Arriving)
        <4>1. Events(Tail(Arriving)) /\ ~NoFinal(Arriving)
          BY <1>1, <1>2, <2>2, <3>3, ArrivingRead
        <4>2. ~Events(Arriving)
          BY <1>2, <4>1, EventsOwnNothing
        <4> QED
          BY <4>1, <4>2
      <3>5. txQueue = <<>> /\ toServer = <<>>
        BY <1>1, <3>4
      <3>6. pc'[t] = "idle"
        BY <1>3, <2>5 DEF Return, Types, ThreadTypes
      <3> QED
        BY <2>1, <2>2, <3>4, <3>5, <3>6, QuietIsOneThing
    <2>6. timeOver' = [timeOver EXCEPT ![t] = FALSE] => ~timeOver'[t]
      BY DEF Types, ThreadTypes
    <2> HIDE DEF r, c
    <2> QED
      BY <1>8, <2>4, <2>5, <2>6, ReadOutcome DEF r, c
  <1>9. CASE Expire(t)
    <2>1. /\ UNCHANGED <<pc, current, txQueue, toServer, fromServer, rxQueue, answered, snatched>>
          /\ pc[t] # "idle"
      BY <1>9 DEF Expire, elsewhere
    <2>2. ~ToCome(current[t])
      <3>1. used' = [used EXCEPT !.late = @ + 1] => used'.late # 0
        BY DEF Types, ServerTypes, Used
      <3> QED
        BY <1>9, <3>1 DEF Expire, Undisturbed
    <2>3. /\ current[t] \notin Requests
          /\ \A i \in DOMAIN Arriving : Arriving[i].call # current[t]
      BY <2>2, ToComeIsComing DEF Coming
    <2>4. Requests' = Requests /\ Arriving' = Arriving
      BY <2>1, RequestsSame DEF Arriving
    <2>5. current[t] \in answered \ snatched => HasFinal(Arriving, current[t])
      BY DEF OneThing, AnswerThere
    <2> QED
      BY <1>1, <2>1, <2>3, <2>4, <2>5, OneThingPrimed
  <1> QED
    BY <1>4, <1>5, <1>6, <1>7, <1>8, <1>9 DEF Poll

\* The steps of the cyclic thread.
LEMMA CyclicOneThing ==
    ASSUME Types, Types', NEW t \in Pollers, OneThing(t), TryAcquire \/ Cycle
    PROVE  OneThing(t)'
  <1>1. Len(txQueue) + Len(toServer) <= 1
    BY DEF OneThing, OneCall
  <1>2. Async # t /\ t \in Threads
    BY ThreadAssumption DEF Threads
  <1>3. UNCHANGED <<current, timeOver, answered>> /\ pc'[t] = pc[t]
    BY <1>2 DEF TryAcquire, Cycle, CycleTransport, CycleRead, CycleEnd, Release, elsewhere,
                Types, ThreadTypes
  <1>4. CASE TryAcquire \/ CycleEnd
    <2>1. UNCHANGED <<txQueue, toServer, fromServer, rxQueue, snatched>>
      BY <1>4 DEF TryAcquire, CycleEnd, elsewhere
    <2>2. Requests' = Requests /\ Arriving' = Arriving
      BY <2>1, RequestsSame DEF Arriving
    <2> QED
      BY <1>1, <1>3, <2>1, <2>2, NothingAdded
  <1>5. CASE CycleTransport
    <2>1. (TransportCycle \/ TransportFails) /\ UNCHANGED <<reported, snatched>>
      BY <1>5 DEF CycleTransport, elsewhere
    <2>2. Requests' \subseteq Requests /\ Arriving' = Arriving
      BY <2>1, RequestsMoved, StreamMoved
    <2>3. /\ Len(txQueue') + Len(toServer') <= 1
          /\ txQueue' # <<>> => txQueue # <<>>
          /\ toServer' # <<>> => toServer # <<>> \/ txQueue # <<>>
      BY <1>1, <2>1, LengthOfQueues
    <2> QED
      BY <1>3, <2>1, <2>2, <2>3, NothingAdded
  <1>6. CASE CycleRead
    <2>1. /\ rxQueue # <<>> /\ rxQueue' = Tail(rxQueue)
          /\ UNCHANGED <<txQueue, toServer, fromServer>>
          /\ snatched' = snatched \cup ({Head(rxQueue).call} \ {NoCall})
      BY <1>6 DEF CycleRead
    <2>2. /\ Arriving # <<>> /\ Head(Arriving) = Head(rxQueue) /\ Arriving' = Tail(Arriving)
          /\ Head(rxQueue) \in Sent
      BY <2>1, StreamRead
    <2>3. Final(Head(Arriving)) => Head(Arriving).call # NoCall
      BY <2>2, SentFields, CallAssumption DEF Final, WellFormed
    <2>4. Requests' = Requests
      BY <2>1, RequestsSame
    <2> QED
      BY <1>1, <1>3, <2>1, <2>2, <2>3, <2>4, NothingAdded
  <1> QED
    BY <1>4, <1>5, <1>6 DEF Cycle

\* The steps of the server.
LEMMA ServerOneThing ==
    ASSUME Types, Types', NEW t \in Pollers, OneThing(t),
           ServerAnswers \/ ServerNeedsTime \/ ServerIsSilent \/ ServerSendsEvent
    PROVE  OneThing(t)'
  <1>1. /\ Len(txQueue) + Len(toServer) <= 1
        /\ Requests \subseteq {current[t]} \ answered
        /\ OwnOnly(Arriving, current[t])
        /\ txQueue # <<>> => Events(Arriving)
        /\ toServer # <<>> => NoFinal(Arriving)
        /\ FinalLast(Arriving)
        /\ current[t] \in answered \ snatched => HasFinal(Arriving, current[t])
    BY DEF OneThing, OneCall, AnswerThere
  <1>2. timeOver[t] /\ pc[t] # "idle" =>
           /\ current[t] \notin Requests
           /\ \A i \in DOMAIN Arriving : Arriving[i].call # current[t]
    BY ToComeIsComing DEF OneThing, OverWhenSilent, Coming
  <1>3. Arriving \in Seq(Sent) /\ UNCHANGED <<current, timeOver, pc, snatched, txQueue, rxQueue, reported>>
    BY StreamType DEF ServerAnswers, ServerNeedsTime, ServerIsSilent, ServerSendsEvent, client
  <1>4. toServer # <<>> =>
           /\ Head(toServer) = current[t] /\ Head(toServer) \in Calls /\ Head(toServer) \in Requests
           /\ Len(toServer) = 1 /\ txQueue = <<>> /\ Tail(toServer) = <<>>
    <2>1. toServer # <<>> => Head(toServer) \in Calls /\ Head(toServer) \in Requests
      BY ToSetHead DEF Types, QueueTypes, Requests
    <2> QED
      BY <1>1, <2>1, LengthOfQueues
  <1>5. timeOver[t] /\ pc[t] # "idle" => toServer = <<>>
    BY <1>2, <1>4
  <1>6. CASE ServerAnswers
    <2> DEFINE c == Head(toServer)
    <2>1. /\ toServer # <<>> /\ toServer' = <<>> /\ txQueue' = <<>> /\ c = current[t] /\ c \in Calls
          /\ answered' = answered \cup {c}
      BY <1>3, <1>4, <1>6 DEF ServerAnswers
    <2>2. PICK r \in Sent : Final(r) /\ r.call = c /\ fromServer' = Append(fromServer, r)
      <3>1. \/ fromServer' = Append(fromServer, PositiveAnswer(c))
            \/ \E extended \in BOOLEAN : fromServer' = Append(fromServer, NegativeAnswer(c, extended))
        BY <1>6 DEF ServerAnswers
      <3>2. /\ Final(PositiveAnswer(c)) /\ PositiveAnswer(c).call = c
            /\ \A x \in BOOLEAN : Final(NegativeAnswer(c, x)) /\ NegativeAnswer(c, x).call = c
        BY DEF PositiveAnswer, NegativeAnswer, Final
      <3> QED
        BY <2>1, <3>1, <3>2, PositiveIsSent, NegativeIsSent
    <2>3. Arriving' = Append(Arriving, r)
      BY <1>3, <2>2, StreamSent
    <2>4. /\ OwnOnly(Arriving', c) /\ FinalLast(Arriving') /\ HasFinal(Arriving', c)
      BY <1>1, <1>3, <2>1, <2>2, <2>3, ArrivingSent
    <2>5. Requests' = {} /\ Len(txQueue') + Len(toServer') <= 1
      BY <2>1 DEF Requests, ToSet
    <2> HIDE DEF c
    <2> QED
      BY <1>3, <1>5, <2>1, <2>4, <2>5, OneThingPrimed
  <1>7. CASE ServerNeedsTime
    <2> DEFINE r == PendingAnswer(Head(toServer))
    <2>1. /\ toServer # <<>> /\ UNCHANGED <<toServer, answered>> /\ fromServer' = Append(fromServer, r)
      BY <1>7 DEF ServerNeedsTime
    <2>2. r \in Sent /\ ~Final(r) /\ r.call = current[t]
      BY <1>4, <2>1, PendingIsSent DEF PendingAnswer, Final
    <2>3. Arriving' = Append(Arriving, r) /\ Requests' = Requests
      BY <1>3, <2>1, <2>2, StreamSent, RequestsSame
    <2> HIDE DEF r
    <2>4. /\ OwnOnly(Arriving', current[t]) /\ FinalLast(Arriving') /\ NoFinal(Arriving')
          /\ HasFinal(Arriving, current[t]) => HasFinal(Arriving', current[t])
      BY <1>1, <1>3, <2>1, <2>2, <2>3, ArrivingSent
    <2>5. txQueue' = <<>> /\ Len(txQueue') + Len(toServer') <= 1
      BY <1>1, <1>3, <1>4, <2>1
    <2> QED
      BY <1>1, <1>3, <1>5, <2>1, <2>3, <2>4, <2>5, OneThingPrimed
  <1>8. CASE ServerIsSilent
    <2>1. toServer # <<>> /\ toServer' = Tail(toServer) /\ UNCHANGED <<answered, fromServer>>
      BY <1>8 DEF ServerIsSilent
    <2>2. toServer' = <<>> /\ Requests' \subseteq Requests /\ Arriving' = Arriving
      BY <1>3, <1>4, <2>1, RequestsMoved DEF Arriving
    <2>3. Len(txQueue') + Len(toServer') <= 1
      <3>1. txQueue' = <<>> /\ toServer' = <<>>
        BY <1>3, <1>4, <2>1, <2>2
      <3> QED
        BY <3>1
    <2> QED
      BY <1>3, <2>1, <2>2, <2>3, NothingAdded
  <1>9. CASE ServerSendsEvent
    <2>1. PICK e \in active, kind \in EventKinds :
             fromServer' = Append(fromServer, Event(kind, e, used'.event))
      BY <1>9 DEF ServerSendsEvent
    <2> DEFINE r == Event(kind, e, used'.event)
    <2>2. UNCHANGED <<toServer, answered>> /\ used'.event \in 0 .. MaxEvents /\ e \in Elements
      BY <1>9 DEF ServerSendsEvent, Types, ServerTypes, Used
    <2>3. r \in Sent /\ r.call = NoCall /\ ~Final(r)
      <3>1. kind = "data" \/ kind = "error"
        BY BoundAssumption
      <3>2. r.kind = kind /\ r.call = NoCall
        BY DEF Event
      <3> QED
        BY <2>2, <3>1, <3>2, EventIsSent DEF Final
    <2>4. Arriving' = Append(Arriving, r) /\ Requests' = Requests
      BY <1>3, <2>1, <2>2, <2>3, StreamSent, RequestsSame
    <2> HIDE DEF r
    <2>5. /\ Events(Arriving) => Events(Arriving')
          /\ OwnOnly(Arriving', current[t]) /\ FinalLast(Arriving')
          /\ NoFinal(Arriving) => NoFinal(Arriving')
          /\ HasFinal(Arriving, current[t]) => HasFinal(Arriving', current[t])
          /\ \A i \in DOMAIN Arriving' :
                Arriving'[i] = r \/ \E j \in DOMAIN Arriving : Arriving'[i] = Arriving[j]
      BY <1>1, <1>3, <2>3, <2>4, CallAssumption, ArrivingSent
    <2>6. pc[t] # "idle" => current[t] # NoCall
      BY DEF Types, ThreadTypes
    <2> QED
      BY <1>1, <1>2, <1>3, <2>2, <2>3, <2>4, <2>5, <2>6, OneThingPrimed
  <1> QED
    BY <1>6, <1>7, <1>8, <1>9

\* What a step changes of answers and results.
LEMMA AnswersChange ==
    ASSUME Types, Types', CallsOnce, [Next]_vars
    PROVE  /\ used.late \in Nat /\ used'.late \in Nat /\ used.late <= used'.late
           /\ snatched \subseteq snatched'
           /\ \/ UNCHANGED answer
              \/ \E t \in Pollers : /\ ReadResponse(t) /\ current[t] \in Calls
                                    /\ Expected(current[t], Head(rxQueue))
                                    /\ Answers(current[t], Head(rxQueue))
                                    /\ answer' = [answer EXCEPT ![current[t]] = Head(rxQueue)]
           /\ \A c \in Calls :
                 \/ result'[c] # "timeout"
                 \/ result'[c] = result[c]
                 \/ \E t \in Pollers : TimeOut(t) /\ c = current[t]
           /\ \/ UNCHANGED answered
              \/ toServer # <<>> /\ answered' = answered \cup {Head(toServer)}
  <1>1. used.late \in Nat /\ used'.late \in Nat
    BY DEF Types, ServerTypes, Used
  <1>2. ASSUME NEW t \in Pollers, NEW c \in Calls, SendRequest(t, c)
        PROVE  /\ UNCHANGED <<answer, answered, snatched, used>>
               /\ \A d \in Calls : result'[d] # "timeout" \/ result'[d] = result[d]
    <2>1. UNCHANGED <<answer, answered, snatched, used>>
      BY <1>2 DEF SendRequest, elsewhere
    <2>2. UNCHANGED result \/ result' = [result EXCEPT ![c] = "noact"]
      BY <1>2 DEF SendRequest
    <2> QED
      BY <2>1, <2>2 DEF Types, CallTypes
  <1>3. ASSUME NEW t \in Pollers, TimeOut(t)
        PROVE  /\ UNCHANGED <<answer, answered, snatched, used>>
               /\ \A d \in Calls : d = current[t] \/ result'[d] = result[d]
    BY <1>3 DEF TimeOut, elsewhere, Return, Types, CallTypes
  <1>4. ASSUME NEW t \in Pollers, PollTransport(t)
        PROVE  /\ UNCHANGED <<answer, answered, snatched>> /\ used'.late = used.late
               /\ \A d \in Calls : result'[d] # "timeout" \/ result'[d] = result[d]
    <2>1. UNCHANGED <<answer, answered, snatched>>
      BY <1>4 DEF PollTransport, elsewhere
    <2>2. UNCHANGED result \/ result' = [result EXCEPT ![current[t]] = "com"]
      BY <1>4 DEF PollTransport, Return
    <2>3. used'.late = used.late
      BY <1>4 DEF PollTransport, TransportFails, Types, ServerTypes, Used
    <2> QED
      BY <2>1, <2>2, <2>3 DEF Types, CallTypes
  <1>5. ASSUME NEW t \in Pollers, ReadResponse(t)
        PROVE  /\ UNCHANGED <<answered, snatched, used>>
               /\ \A d \in Calls : result'[d] # "timeout" \/ result'[d] = result[d]
               /\ \/ UNCHANGED answer
                  \/ /\ ReadResponse(t) /\ current[t] \in Calls
                     /\ Expected(current[t], Head(rxQueue))
                     /\ Answers(current[t], Head(rxQueue))
                     /\ answer' = [answer EXCEPT ![current[t]] = Head(rxQueue)]
    <2>1. UNCHANGED <<answered, snatched, used>> /\ current[t] \in Calls
      BY <1>5, ReadOutcome, PollerTypes DEF elsewhere
    <2>2. UNCHANGED result \/ \E res \in Results \ {"timeout"} :
                                result' = [result EXCEPT ![current[t]] = res]
      BY <1>5, ReadOutcome DEF Return
    <2>3. \A d \in Calls : result'[d] # "timeout" \/ result'[d] = result[d]
      BY <2>2 DEF Types, CallTypes
    <2> QED
      BY <1>5, <2>1, <2>3, ReadOutcome
  <1>6. ASSUME NEW t \in Pollers, Acquire(t) \/ NothingRead(t) \/ Expire(t)
        PROVE  UNCHANGED <<answer, answered, snatched, result>> /\ used.late <= used'.late
    <2>1. UNCHANGED <<answer, answered, snatched, result>>
      BY <1>6 DEF Acquire, NothingRead, Expire, elsewhere
    <2>2. used.late <= used'.late
      BY <1>1, <1>6 DEF Acquire, NothingRead, Expire, Types, ServerTypes, Used
    <2> QED
      BY <2>1, <2>2
  <1>7. ASSUME TryAcquire \/ Cycle
        PROVE  /\ UNCHANGED <<answer, answered, result>> /\ used'.late = used.late
               /\ snatched \subseteq snatched'
    <2>1. UNCHANGED <<answer, answered, result>> /\ snatched \subseteq snatched'
      BY <1>7 DEF TryAcquire, Cycle, CycleTransport, CycleRead, CycleEnd, elsewhere
    <2>2. used'.late = used.late
      BY <1>7 DEF TryAcquire, Cycle, CycleTransport, CycleRead, CycleEnd, TransportFails,
                  Types, ServerTypes, Used
    <2> QED
      BY <2>1, <2>2
  <1>8. ASSUME ServerAnswers \/ ServerNeedsTime \/ ServerIsSilent \/ ServerSendsEvent
        PROVE  /\ UNCHANGED <<answer, result, snatched>> /\ used'.late = used.late
               /\ UNCHANGED answered \/
                     (toServer # <<>> /\ answered' = answered \cup {Head(toServer)})
    <2>1. used'.late = used.late
      BY <1>8 DEF ServerAnswers, ServerNeedsTime, ServerIsSilent, ServerSendsEvent,
                  Types, ServerTypes, Used
    <2> QED
      BY <1>8, <2>1 DEF ServerAnswers, ServerNeedsTime, ServerIsSilent, ServerSendsEvent, client
  <1>9. CASE UNCHANGED vars
    BY <1>1, <1>9 DEF vars
  <1> QED
    BY <1>1, <1>2, <1>3, <1>4, <1>5, <1>6, <1>7, <1>8, <1>9 DEF Next, Poll

LEMMA InitFlow == Init => Flow
  <1> SUFFICES ASSUME Init PROVE Flow
    OBVIOUS
  <1>1. txQueue = <<>> /\ toServer = <<>> /\ Requests = {} /\ Arriving = <<>>
    BY DEF Init, Requests, ToSet, Arriving
  <1>2. \A t \in Pollers : OneCall(t)
    BY <1>1 DEF OneCall, OwnOnly, Events, NoFinal, FinalLast
  <1>3. \A t \in Pollers : AnswerThere(t) /\ OverWhenSilent(t)
    BY DEF Init, AnswerThere, OverWhenSilent
  <1>4. OwnAnswer /\ TimeoutOnlyIfSilent
    BY DEF Init, OwnAnswer, TimeoutOnlyIfSilent
  <1> QED
    BY <1>2, <1>3, <1>4 DEF Flow, OneThing

LEMMA NextFlow == OnePoller /\ Types /\ Types' /\ CallsOnce /\ Flow /\ [Next]_vars => Flow'
  <1> SUFFICES ASSUME OnePoller, Types, Types', CallsOnce, Flow, [Next]_vars, Undisturbed'
               PROVE  /\ \A t \in Pollers : OneThing(t)'
                      /\ \A c \in Calls : answer'[c] # NoAnswer => answer'[c].call = c
                      /\ \A c \in Calls : result'[c] = "timeout" => c \notin answered' \ snatched'
    BY DEF Flow, OwnAnswer, TimeoutOnlyIfSilent
  <1>1. Undisturbed
    <2>1. used.late = 0
      BY AnswersChange DEF Undisturbed
    <2>2. ASSUME NEW c \in Calls, answer[c] # NoAnswer PROVE answer'[c] = answer[c]
      <3>1. \A t \in Pollers : current[t] \in Calls => current[t] # c
        BY <2>2 DEF CallsOnce
      <3> QED
        BY <3>1, AnswersChange DEF Types, CallTypes
    <2> QED
      BY <2>1, <2>2 DEF Undisturbed, Taking
  <1>2. /\ \A t \in Pollers : OneThing(t)
        /\ \A c \in Calls : answer[c] # NoAnswer => answer[c].call = c
        /\ \A c \in Calls : result[c] = "timeout" => c \notin answered \ snatched
    BY <1>1 DEF Flow, OwnAnswer, TimeoutOnlyIfSilent
  <1>3. ASSUME NEW t \in Pollers PROVE OneThing(t)'
    <2>1. CASE \E u \in Pollers : \/ \E c \in Calls : SendRequest(u, c)
                                 \/ Acquire(u) \/ Poll(u) \/ Expire(u)
      <3>1. \/ \E c \in Calls : SendRequest(t, c)
            \/ Acquire(t) \/ Poll(t) \/ Expire(t)
        BY <2>1 DEF OnePoller
      <3> QED
        BY <1>2, <3>1, PollerOneThing
    <2>2. CASE TryAcquire \/ Cycle
      BY <1>2, <2>2, CyclicOneThing
    <2>3. CASE ServerAnswers \/ ServerNeedsTime \/ ServerIsSilent \/ ServerSendsEvent
      BY <1>2, <2>3, ServerOneThing
    <2>4. CASE UNCHANGED vars
      <3>1. /\ UNCHANGED <<txQueue, toServer, current, answered, snatched, timeOver, pc>>
            /\ Arriving' = Arriving
        BY <2>4 DEF vars, Arriving
      <3>2. Requests' = Requests
        BY <3>1, RequestsSame
      <3>3. OneThing(t) /\ Len(txQueue) + Len(toServer) <= 1
        BY <1>2 DEF OneThing, OneCall
      <3> QED
        BY <3>1, <3>2, <3>3, NothingAdded
    <2> QED
      BY <2>1, <2>2, <2>3, <2>4 DEF Next
  <1>4. ASSUME NEW c \in Calls, answer'[c] # NoAnswer PROVE answer'[c].call = c
    <2>1. CASE UNCHANGED answer
      BY <1>2, <1>4, <2>1
    <2>2. ASSUME NEW t \in Pollers, ReadResponse(t), current[t] \in Calls,
                 Expected(current[t], Head(rxQueue)), Answers(current[t], Head(rxQueue)),
                 answer' = [answer EXCEPT ![current[t]] = Head(rxQueue)]
          PROVE  answer'[c].call = c
      <3>1. Head(rxQueue).call = current[t]
        BY <1>2, <2>2, TakesOwnAnswer
      <3> QED
        BY <1>2, <1>4, <2>2, <3>1 DEF Types, CallTypes
    <2> QED
      BY <2>1, <2>2, AnswersChange
  <1>5. ASSUME NEW c \in Calls, result'[c] = "timeout" PROVE c \notin answered' \ snatched'
    <2>1. CASE result[c] = "timeout"
      <3>1. toServer # <<>> => Head(toServer) # c
        <4>1. toServer # <<>> => Head(toServer) \in Requests /\ Head(toServer) \in Calls
          BY ToSetHead DEF Types, QueueTypes, Requests
        <4>2. \A t \in Pollers : Requests \subseteq {current[t]}
          BY <1>2 DEF OneThing, OneCall
        <4>3. Caller[c] \in Pollers
          BY CallAssumption
        <4>4. \A t \in Pollers : current[t] = c => result[c] = "none"
          BY DEF CallsOnce
        <4> QED
          BY <2>1, <4>1, <4>2, <4>3, <4>4
      <3> QED
        BY <1>2, <2>1, <3>1, AnswersChange
    <2>2. CASE result[c] # "timeout"
      <3>1. PICK t \in Pollers : TimeOut(t) /\ c = current[t]
        BY <1>5, <2>2, AnswersChange
      <3>2. /\ timeOver[t] /\ pc[t] # "idle" /\ UNCHANGED <<answered, snatched>>
        BY <3>1 DEF TimeOut, TimeOver, elsewhere
      <3>3. ~Coming(c)
        BY <1>2, <3>1, <3>2, ToComeIsComing DEF OneThing, OverWhenSilent
      <3>4. ~HasFinal(Arriving, c)
        BY <3>3 DEF Coming, HasFinal
      <3> QED
        BY <1>2, <3>1, <3>2, <3>4 DEF OneThing, AnswerThere
    <2> QED
      BY <2>1, <2>2
  <1> QED
    BY <1>3, <1>4, <1>5

LEMMA FlowInvariant ==
    ASSUME OnePoller
    PROVE  Spec => []Flow
  <1>1. Types /\ Types' /\ CallsOnce /\ Flow /\ [Next]_vars => Flow'
    BY NextFlow
  <1> QED
    BY <1>1, InitFlow, TypesInvariant, CallsOnceInvariant, PTL DEF Spec

LEMMA FlowSuffices == Flow => OwnAnswer /\ TimeoutOnlyIfSilent
  BY DEF Flow, OwnAnswer, TimeoutOnlyIfSilent

\* Where one application thread polls the driver, a call that returns with an answer
\* returns with the one to its own request, for any calls and any cyclic thread, as
\* long as no answer is late and no error event is taken for an answer.
THEOREM OwnAnswers ==
    ASSUME OnePoller
    PROVE  Spec => []OwnAnswer
  BY FlowInvariant, FlowSuffices, PTL

\* And it only times out if the server has not answered, or the cyclic thread has
\* read the answer.
THEOREM TimeoutsAreSilent ==
    ASSUME OnePoller
    PROVE  Spec => []TimeoutOnlyIfSilent
  BY FlowInvariant, FlowSuffices, PTL
=============================================================================
