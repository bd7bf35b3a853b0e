----------------------------- MODULE ChatProofs -----------------------------
(***************************************************************************)
(* What holds of the session store for any number of concurrent requests   *)
(* and sessions, then of the page and the service together, for any        *)
(* number of other clients, and that to a client that waits the store      *)
(* implements Conversations.                                               *)
(***************************************************************************)
EXTENDS ChatUI, TLAPS

\* A recorded message is its own session's, and its request has got as far as
\* the append that records it.
RecordedByOwner ==
    \A s \in Sessions : \A i \in 1 .. Len(store[s]) :
        /\ session[store[s][i].of] = s
        /\ pc[store[s][i].of] \in {"appendAssistant", "answered"}
        /\ store[s][i].role = "assistant" => pc[store[s][i].of] = "answered"

\* The agent was given messages of the request's own session, already posted.
SeenFromOwnSession ==
    \A r \in Requests :
        /\ pc[r] = "idle" => seen[r] = <<>>
        /\ \A i \in 1 .. Len(seen[r]) :
               /\ session[seen[r][i].of] = session[r]
               /\ pc[seen[r][i].of] # "idle"

QuestionIsRecorded ==
    \A r \in Requests :
        pc[r] = "appendAssistant" => Holds(store[session[r]], User(r))

Inv ==
    /\ TypeOK /\ RecordedByOwner /\ SeenFromOwnSession /\ QuestionIsRecorded
    /\ AnsweredTurnsAreKept /\ NoMessageTwice

LEMMA InitInv == Init => Inv
<1> SUFFICES ASSUME Init PROVE Inv
  OBVIOUS
<1> USE DEF Init
<1>1. TypeOK
  BY DEF TypeOK
<1>2. RecordedByOwner /\ SeenFromOwnSession /\ QuestionIsRecorded
  BY DEF RecordedByOwner, SeenFromOwnSession, QuestionIsRecorded
<1>3. AnsweredTurnsAreKept /\ NoMessageTwice
  BY DEF AnsweredTurnsAreKept, NoMessageTwice
<1> QED
  BY <1>1, <1>2, <1>3 DEF Inv

\* Where a message is, there is a request it belongs to.
LEMMA Owners ==
    ASSUME TypeOK
    PROVE  /\ \A s \in Sessions : \A i \in 1 .. Len(store[s]) :
                  store[s][i] \in Message /\ store[s][i].of \in Requests
           /\ \A r \in Requests : \A i \in 1 .. Len(seen[r]) :
                  seen[r][i] \in Message /\ seen[r][i].of \in Requests
<1>1. \A m \in Message : m.of \in Requests
  BY DEF Message
<1>2. \A h \in Seq(Message) : \A i \in 1 .. Len(h) : h[i] \in Message
  OBVIOUS
<1> QED
  BY <1>1, <1>2 DEF TypeOK

\* What Record does to every history: one history gets one message more, at
\* its end.
LEMMA Recording ==
    ASSUME TypeOK, NEW s \in Sessions, NEW m \in Message, Record(s, m)
    PROVE  /\ store' \in [Sessions -> Seq(Message)]
           /\ \A t \in Sessions \ {s} : store'[t] = store[t]
           /\ Len(store[s]) \in Nat /\ Len(store'[s]) = Len(store[s]) + 1
           /\ store'[s][Len(store[s]) + 1] = m
           /\ \A t \in Sessions : \A i \in 1 .. Len(store[t]) :
                  i \in 1 .. Len(store'[t]) /\ store'[t][i] = store[t][i]
           /\ \A t \in Sessions : \A i \in 1 .. Len(store'[t]) :
                  \/ i \in 1 .. Len(store[t]) /\ store'[t][i] = store[t][i]
                  \/ t = s /\ i = Len(store[s]) + 1 /\ store'[t][i] = m
  BY DEF Record, TypeOK

LEMMA NextInv == Inv /\ [Next]_vars => Inv'
<1> SUFFICES ASSUME Inv, [Next]_vars PROVE Inv'
  OBVIOUS
<1> USE SessionsAssumption, Owners DEF Inv
<1>1. ASSUME NEW r \in Requests, NEW s \in Sessions, Post(r, s) PROVE Inv'
  <2> USE <1>1 DEF Post, Goto
  <2>1. TypeOK'
    BY DEF TypeOK, InFlight
  <2>2. RecordedByOwner'
    BY DEF RecordedByOwner, TypeOK
  <2>3. SeenFromOwnSession'
    BY DEF SeenFromOwnSession, TypeOK
  <2>4. QuestionIsRecorded'
    BY DEF QuestionIsRecorded, TypeOK, Holds
  <2>5. AnsweredTurnsAreKept'
    BY DEF AnsweredTurnsAreKept, TypeOK
  <2>6. NoMessageTwice'
    BY DEF NoMessageTwice
  <2> QED
    BY <2>1, <2>2, <2>3, <2>4, <2>5, <2>6
<1>2. ASSUME NEW r \in Requests, ReadHistory(r) PROVE Inv'
  <2> USE <1>2 DEF ReadHistory, Goto
  <2>1. TypeOK'
    BY DEF TypeOK, InFlight
  <2>2. RecordedByOwner'
    BY DEF RecordedByOwner, TypeOK
  <2>3. SeenFromOwnSession'
    <3>1. PICK s \in Sessions : s = session[r]
      BY DEF TypeOK
    <3>2. /\ \A q \in Requests \ {r} : pc'[q] = pc[q] /\ seen'[q] = seen[q]
          /\ pc'[r] = "invoke" /\ seen'[r] = store[s]
      BY <3>1 DEF TypeOK
    <3>3. \A q \in Requests : pc[q] # "idle" => pc'[q] # "idle"
      BY <3>2
    <3> QED
      BY <3>1, <3>2, <3>3 DEF SeenFromOwnSession, RecordedByOwner
  <2>4. QuestionIsRecorded'
    BY DEF QuestionIsRecorded, TypeOK, Holds
  <2>5. AnsweredTurnsAreKept'
    BY DEF AnsweredTurnsAreKept, TypeOK
  <2>6. NoMessageTwice'
    BY DEF NoMessageTwice
  <2> QED
    BY <2>1, <2>2, <2>3, <2>4, <2>5, <2>6
<1>3. ASSUME NEW r \in Requests, AgentAnswers(r) \/ AgentRaises(r) PROVE Inv'
  <2> USE <1>3 DEF AgentAnswers, AgentRaises, Goto
  <2>1. TypeOK'
    BY DEF TypeOK, InFlight, Ended
  <2>2. RecordedByOwner'
    BY DEF RecordedByOwner, TypeOK
  <2>3. SeenFromOwnSession'
    BY DEF SeenFromOwnSession, TypeOK
  <2>4. QuestionIsRecorded'
    BY DEF QuestionIsRecorded, TypeOK, Holds
  <2>5. AnsweredTurnsAreKept'
    BY DEF AnsweredTurnsAreKept, TypeOK
  <2>6. NoMessageTwice'
    BY DEF NoMessageTwice
  <2> QED
    BY <2>1, <2>2, <2>3, <2>4, <2>5, <2>6
<1>4. ASSUME NEW r \in Requests, AppendUser(r) PROVE Inv'
  <2>1. PICK s \in Sessions : s = session[r]
    BY <1>4 DEF AppendUser, TypeOK
  <2>2. /\ User(r) \in Message /\ User(r).of = r
        /\ User(r).role = "user"
    BY DEF User, Message, Roles
  <2>3. /\ pc[r] = "appendUser" /\ Record(s, User(r))
        /\ UNCHANGED <<session, seen, overlapped>>
    BY <1>4, <2>1 DEF AppendUser
  <2>4. /\ pc' \in [Requests -> {"idle"} \cup InFlight \cup Ended]
        /\ pc'[r] = "appendAssistant"
        /\ \A q \in Requests \ {r} : pc'[q] = pc[q]
    BY <1>4 DEF AppendUser, Goto, TypeOK, InFlight, Ended
  <2> DEFINE n == Len(store[s]) + 1
  <2>5. /\ store' \in [Sessions -> Seq(Message)]
        /\ \A t \in Sessions \ {s} : store'[t] = store[t]
        /\ n \in Nat \ {0} /\ Len(store'[s]) = n /\ store'[s][n] = User(r)
        /\ \A t \in Sessions : \A i \in 1 .. Len(store[t]) :
               i \in 1 .. Len(store'[t]) /\ store'[t][i] = store[t][i]
        /\ \A t \in Sessions : \A i \in 1 .. Len(store'[t]) :
               \/ i \in 1 .. Len(store[t]) /\ store'[t][i] = store[t][i]
               \/ t = s /\ i = n /\ store'[t][i] = User(r)
    BY <2>2, <2>3, Recording
  <2>6. TypeOK'
    BY <1>4, <2>1, <2>3, <2>4, <2>5 DEF TypeOK, AppendUser
  <2>7. RecordedByOwner'
    BY <2>1, <2>2, <2>3, <2>4, <2>5 DEF RecordedByOwner
  <2>8. SeenFromOwnSession'
    BY <2>3, <2>4 DEF SeenFromOwnSession
  <2>9. QuestionIsRecorded'
    <3> SUFFICES ASSUME NEW q \in Requests, pc'[q] = "appendAssistant"
                 PROVE  Holds(store'[session[q]], User(q))
      BY <2>3 DEF QuestionIsRecorded
    <3>1. CASE q = r
      BY <2>1, <2>5, <3>1 DEF Holds
    <3>2. CASE q # r
      <4>1. session[q] \in Sessions /\ Holds(store[session[q]], User(q))
        BY <2>4, <3>2 DEF QuestionIsRecorded, TypeOK
      <4> QED
        BY <2>5, <4>1 DEF Holds
    <3> QED
      BY <3>1, <3>2
  <2>10. AnsweredTurnsAreKept'
    <3> SUFFICES ASSUME NEW q \in Requests, pc'[q] = "answered"
                 PROVE  \E i, j \in 1 .. Len(store'[session[q]]) :
                            /\ i < j
                            /\ store'[session[q]][i] = User(q)
                            /\ store'[session[q]][j] = Assistant(q)
      BY <2>3 DEF AnsweredTurnsAreKept
    <3>1. pc[q] = "answered" /\ session[q] \in Sessions
      BY <2>4 DEF TypeOK
    <3>2. PICK i, j \in 1 .. Len(store[session[q]]) :
                 /\ i < j
                 /\ store[session[q]][i] = User(q)
                 /\ store[session[q]][j] = Assistant(q)
      BY <3>1 DEF AnsweredTurnsAreKept
    <3>3. /\ i \in 1 .. Len(store'[session[q]])
          /\ j \in 1 .. Len(store'[session[q]])
          /\ store'[session[q]][i] = User(q)
          /\ store'[session[q]][j] = Assistant(q)
      BY <2>5, <3>1, <3>2
    <3> QED
      BY <3>2, <3>3
  <2>11. NoMessageTwice'
    BY <2>2, <2>3, <2>5 DEF NoMessageTwice, RecordedByOwner
  <2> QED
    BY <2>6, <2>7, <2>8, <2>9, <2>10, <2>11
<1>5. ASSUME NEW r \in Requests, AppendAssistant(r) PROVE Inv'
  <2>1. PICK s \in Sessions : s = session[r]
    BY <1>5 DEF AppendAssistant, TypeOK
  <2>2. /\ Assistant(r) \in Message /\ Assistant(r).of = r
        /\ Assistant(r).role = "assistant"
    BY DEF Assistant, Message, Roles
  <2>3. /\ pc[r] = "appendAssistant" /\ Record(s, Assistant(r))
        /\ UNCHANGED <<session, seen, overlapped>>
    BY <1>5, <2>1 DEF AppendAssistant
  <2>4. /\ pc' \in [Requests -> {"idle"} \cup InFlight \cup Ended]
        /\ pc'[r] = "answered"
        /\ \A q \in Requests \ {r} : pc'[q] = pc[q]
    BY <1>5 DEF AppendAssistant, Goto, TypeOK, InFlight, Ended
  <2> DEFINE n == Len(store[s]) + 1
  <2>5. /\ store' \in [Sessions -> Seq(Message)]
        /\ \A t \in Sessions \ {s} : store'[t] = store[t]
        /\ n \in Nat \ {0} /\ Len(store'[s]) = n /\ store'[s][n] = Assistant(r)
        /\ \A t \in Sessions : \A i \in 1 .. Len(store[t]) :
               i \in 1 .. Len(store'[t]) /\ store'[t][i] = store[t][i]
        /\ \A t \in Sessions : \A i \in 1 .. Len(store'[t]) :
               \/ i \in 1 .. Len(store[t]) /\ store'[t][i] = store[t][i]
               \/ t = s /\ i = n /\ store'[t][i] = Assistant(r)
    BY <2>2, <2>3, Recording
  <2>6. Holds(store[s], User(r))
    BY <2>1, <2>3 DEF QuestionIsRecorded
  <2>7. s \in known
    BY <2>6 DEF TypeOK, Holds
  <2>8. TypeOK'
    BY <1>5, <2>1, <2>3, <2>4, <2>5, <2>7 DEF TypeOK, AppendAssistant
  <2>9. RecordedByOwner'
    BY <2>1, <2>2, <2>3, <2>4, <2>5 DEF RecordedByOwner
  <2>10. SeenFromOwnSession'
    BY <2>3, <2>4 DEF SeenFromOwnSession
  <2>11. QuestionIsRecorded'
    <3> SUFFICES ASSUME NEW q \in Requests, pc'[q] = "appendAssistant"
                 PROVE  Holds(store'[session[q]], User(q))
      BY <2>3 DEF QuestionIsRecorded
    <3>1. session[q] \in Sessions /\ Holds(store[session[q]], User(q))
      BY <2>4 DEF QuestionIsRecorded, TypeOK
    <3> QED
      BY <2>5, <3>1 DEF Holds
  <2>12. AnsweredTurnsAreKept'
    <3> SUFFICES ASSUME NEW q \in Requests, pc'[q] = "answered"
                 PROVE  \E i, j \in 1 .. Len(store'[session[q]]) :
                            /\ i < j
                            /\ store'[session[q]][i] = User(q)
                            /\ store'[session[q]][j] = Assistant(q)
      BY <2>3 DEF AnsweredTurnsAreKept
    <3>1. CASE q = r
      <4>1. PICK i \in 1 .. Len(store[s]) : store[s][i] = User(r)
        BY <2>6 DEF Holds
      <4>2. /\ i \in 1 .. Len(store'[s]) /\ i < n /\ n \in 1 .. Len(store'[s])
            /\ store'[s][i] = User(r)
        BY <2>5, <4>1
      <4> QED
        BY <2>1, <2>5, <3>1, <4>2
    <3>2. CASE q # r
      <4>1. pc[q] = "answered" /\ session[q] \in Sessions
        BY <2>4, <3>2 DEF TypeOK
      <4>2. PICK i, j \in 1 .. Len(store[session[q]]) :
                   /\ i < j
                   /\ store[session[q]][i] = User(q)
                   /\ store[session[q]][j] = Assistant(q)
        BY <4>1 DEF AnsweredTurnsAreKept
      <4>3. /\ i \in 1 .. Len(store'[session[q]])
            /\ j \in 1 .. Len(store'[session[q]])
            /\ store'[session[q]][i] = User(q)
            /\ store'[session[q]][j] = Assistant(q)
        BY <2>5, <4>1, <4>2
      <4> QED
        BY <4>2, <4>3
    <3> QED
      BY <3>1, <3>2
  <2>13. NoMessageTwice'
    BY <2>2, <2>3, <2>5 DEF NoMessageTwice, RecordedByOwner
  <2> QED
    BY <2>8, <2>9, <2>10, <2>11, <2>12, <2>13
<1>6. CASE Restart
  <2> USE <1>6 DEF Restart
  <2>1. TypeOK'
    BY DEF TypeOK, InFlight, Ended
  <2>2. RecordedByOwner' /\ NoMessageTwice'
    BY DEF RecordedByOwner, NoMessageTwice
  <2>3. SeenFromOwnSession'
    BY DEF SeenFromOwnSession, TypeOK
  <2>4. QuestionIsRecorded' /\ AnsweredTurnsAreKept'
    BY DEF QuestionIsRecorded, AnsweredTurnsAreKept, TypeOK, InFlight
  <2> QED
    BY <2>1, <2>2, <2>3, <2>4
<1>7. CASE UNCHANGED vars
  BY <1>7 DEF vars, TypeOK, RecordedByOwner, SeenFromOwnSession,
     QuestionIsRecorded, AnsweredTurnsAreKept, NoMessageTwice, Holds
<1> QED
  BY <1>1, <1>2, <1>3, <1>4, <1>5, <1>6, <1>7 DEF Next, Step

LEMMA SpecInv == Spec => []Inv
  BY InitInv, NextInv, PTL DEF Spec

\* Every variable keeps its type, and a session that does not exist has no
\* messages.
THEOREM TypeCorrect == Spec => []TypeOK
  BY SpecInv, PTL DEF Inv

\* No interleaving of any number of requests loses, or records twice, a turn
\* whose answer was sent.
THEOREM AnsweredTurnsKept == Spec => [](AnsweredTurnsAreKept /\ NoMessageTwice)
<1>1. Inv => AnsweredTurnsAreKept /\ NoMessageTwice
  BY DEF Inv
<1> QED
  BY <1>1, SpecInv, PTL

\* A request that failed leaves neither of its messages in any session.
THEOREM FailuresLeaveNothing == Spec => []FailedTurnsLeaveNothing
<1>1. Inv => FailedTurnsLeaveNothing
  BY DEF Inv, RecordedByOwner, FailedTurnsLeaveNothing, Holds, User, Assistant
<1> QED
  BY <1>1, SpecInv, PTL

\* No message crosses from one session to another, neither in the store nor
\* in what the agent is told.
THEOREM Isolation == Spec => []SessionsAreIsolated
<1>1. Inv => SessionsAreIsolated
  BY DEF Inv, RecordedByOwner, SeenFromOwnSession, SessionsAreIsolated
<1> QED
  BY <1>1, SpecInv, PTL

\* Together: a history is the answered turns of its session, each once, and what is
\* read to the agent is of that session (append_turn and get_history).
THEOREM HistoriesAreTurns == Spec => []HistoriesMatchTurns
<1>1. (AnsweredTurnsAreKept /\ NoMessageTwice) /\ FailedTurnsLeaveNothing
          /\ SessionsAreIsolated => HistoriesMatchTurns
  BY DEF HistoriesMatchTurns
<1> QED
  BY <1>1, AnsweredTurnsKept, FailuresLeaveNothing, Isolation, PTL

-----------------------------------------------------------------------------
\* Clients that wait for each answer before they ask again.

SoleRequest ==
    \A s \in Sessions \ overlapped : \A q, r \in Requests :
        (/\ session[q] = s /\ pc[q] \in InFlight
         /\ session[r] = s /\ pc[r] \in InFlight) => q = r

\* The one incomplete turn a history may end in.
OpenTurn ==
    \A s \in Sessions \ overlapped : \A r \in Requests :
        (session[r] = s /\ pc[r] = "appendAssistant") =>
            /\ Odd(Len(store[s]))
            /\ store[s][Len(store[s])] = User(r)

WholeTurns ==
    \A s \in Sessions \ overlapped :
        (\A r \in Requests : session[r] = s => pc[r] # "appendAssistant")
            => ~Odd(Len(store[s]))

SerialInv ==
    /\ SoleRequest /\ OpenTurn /\ WholeTurns
    /\ SerialSessionsAlternate /\ SerialContextIsComplete

LEMMA Parity ==
    ~Odd(0) /\ \A n \in Nat : Odd(n + 1) <=> ~Odd(n)
  BY DEF Odd

LEMMA InitSerial == Init => SerialInv
<1> SUFFICES ASSUME Init PROVE SerialInv
  OBVIOUS
<1> USE DEF Init
<1>1. SoleRequest /\ OpenTurn /\ SerialContextIsComplete
  BY DEF SoleRequest, OpenTurn, SerialContextIsComplete, InFlight
<1>2. WholeTurns /\ SerialSessionsAlternate
  BY Parity DEF WholeTurns, SerialSessionsAlternate
<1> QED
  BY <1>1, <1>2 DEF SerialInv

LEMMA NextSerial == Inv /\ SerialInv /\ [Next]_vars => SerialInv'
<1> SUFFICES ASSUME Inv, SerialInv, [Next]_vars PROVE SerialInv'
  OBVIOUS
<1> USE DEF SerialInv, InFlight
<1>0. TypeOK
  BY DEF Inv
<1>1. ASSUME NEW r \in Requests, NEW s \in Sessions, Post(r, s)
      PROVE  SerialInv'
  <2> USE <1>0, <1>1 DEF Post, Goto, TypeOK
  <2>1. SoleRequest'
    BY DEF SoleRequest
  <2>2. OpenTurn'
    BY DEF OpenTurn
  <2>3. WholeTurns'
    BY DEF WholeTurns
  <2>4. SerialSessionsAlternate'
    BY DEF SerialSessionsAlternate
  <2>5. SerialContextIsComplete'
    BY DEF SerialContextIsComplete
  <2> QED
    BY <2>1, <2>2, <2>3, <2>4, <2>5
<1>2. ASSUME NEW r \in Requests,
             ReadHistory(r) \/ AgentAnswers(r) \/ AgentRaises(r)
      PROVE  SerialInv'
  <2> USE <1>0, <1>2 DEF ReadHistory, AgentAnswers, AgentRaises, Goto, TypeOK
  <2>1. SoleRequest'
    <3> SUFFICES ASSUME NEW t \in Sessions \ overlapped',
                        NEW p \in Requests, NEW q \in Requests,
                        session[p] = t, pc'[p] \in InFlight,
                        session[q] = t, pc'[q] \in InFlight
                 PROVE  p = q
      BY DEF SoleRequest
    <3>1. t \notin overlapped /\ pc[p] \in InFlight /\ pc[q] \in InFlight
      OBVIOUS
    <3> QED
      BY <3>1 DEF SoleRequest
  <2>2. OpenTurn'
    BY DEF OpenTurn
  <2>3. WholeTurns'
    BY DEF WholeTurns
  <2>4. SerialSessionsAlternate'
    BY DEF SerialSessionsAlternate
  <2>5. SerialContextIsComplete'
    BY DEF SerialContextIsComplete
  <2> QED
    BY <2>1, <2>2, <2>3, <2>4, <2>5
<1>3. ASSUME NEW r \in Requests, AppendUser(r) PROVE SerialInv'
  <2>1. PICK s \in Sessions : s = session[r]
    BY <1>0, <1>3 DEF AppendUser, TypeOK
  <2>2. /\ User(r) \in Message /\ User(r).of = r
        /\ User(r).role = "user"
    BY DEF User, Message, Roles
  <2>3. /\ pc[r] = "appendUser" /\ Record(s, User(r))
        /\ UNCHANGED <<session, seen, overlapped>>
    BY <1>3, <2>1 DEF AppendUser
  <2>4. /\ pc'[r] = "appendAssistant"
        /\ \A q \in Requests \ {r} : pc'[q] = pc[q]
    BY <1>0, <1>3 DEF AppendUser, Goto, TypeOK
  <2> DEFINE n == Len(store[s]) + 1
  <2>5. /\ \A t \in Sessions \ {s} : store'[t] = store[t]
        /\ n \in Nat \ {0} /\ Len(store[s]) \in Nat
        /\ Len(store'[s]) = n /\ store'[s][n] = User(r)
        /\ \A i \in 1 .. Len(store[s]) : store'[s][i] = store[s][i]
    BY <1>0, <2>2, <2>3, Recording
  <2>6. s \notin overlapped =>
            \A q \in Requests \ {r} : session[q] = s => pc[q] \notin InFlight
    BY <2>1, <2>3 DEF SoleRequest
  <2>7. s \notin overlapped => ~Odd(Len(store[s])) /\ Odd(n)
    BY <2>3, <2>5, <2>6, Parity DEF WholeTurns
  <2>8. SoleRequest'
    BY <2>3, <2>4 DEF SoleRequest
  <2>9. OpenTurn'
    BY <2>1, <2>3, <2>4, <2>5, <2>6, <2>7 DEF OpenTurn
  <2>10. WholeTurns'
    BY <2>1, <2>3, <2>4, <2>5 DEF WholeTurns
  <2>11. SerialSessionsAlternate'
    <3> SUFFICES ASSUME NEW t \in Sessions \ overlapped,
                        NEW i \in 1 .. Len(store'[t])
                 PROVE  InTurn(store'[t], i)
      BY <2>3 DEF SerialSessionsAlternate
    <3>1. CASE t # s
      BY <2>5, <3>1 DEF SerialSessionsAlternate
    <3>2. CASE t = s /\ i = n
      BY <2>2, <2>5, <2>7, <3>2 DEF InTurn
    <3>3. CASE t = s /\ i # n
      <4>1. /\ i \in 1 .. Len(store[s]) /\ InTurn(store[s], i)
            /\ Odd(i) \/ i - 1 \in 1 .. Len(store[s])
        BY <2>5, <3>3 DEF SerialSessionsAlternate, Odd
      <4>2. /\ store'[s][i] = store[s][i]
            /\ Odd(i) \/ store'[s][i - 1] = store[s][i - 1]
        BY <2>5, <4>1
      <4> QED
        BY <3>3, <4>1, <4>2 DEF InTurn
    <3> QED
      BY <3>1, <3>2, <3>3
  <2>12. SerialContextIsComplete'
    BY <1>0, <2>1, <2>3, <2>4, <2>5, <2>6 DEF SerialContextIsComplete, TypeOK
  <2> QED
    BY <2>8, <2>9, <2>10, <2>11, <2>12
<1>4. ASSUME NEW r \in Requests, AppendAssistant(r) PROVE SerialInv'
  <2>1. PICK s \in Sessions : s = session[r]
    BY <1>0, <1>4 DEF AppendAssistant, TypeOK
  <2>2. /\ Assistant(r) \in Message /\ Assistant(r).of = r
        /\ Assistant(r).role = "assistant"
    BY DEF Assistant, Message, Roles
  <2>3. /\ pc[r] = "appendAssistant" /\ Record(s, Assistant(r))
        /\ UNCHANGED <<session, seen, overlapped>>
    BY <1>4, <2>1 DEF AppendAssistant
  <2>4. /\ pc'[r] = "answered"
        /\ \A q \in Requests \ {r} : pc'[q] = pc[q]
    BY <1>0, <1>4 DEF AppendAssistant, Goto, TypeOK
  <2> DEFINE n == Len(store[s]) + 1
  <2>5. /\ \A t \in Sessions \ {s} : store'[t] = store[t]
        /\ n \in Nat \ {0} /\ Len(store[s]) \in Nat
        /\ Len(store'[s]) = n /\ store'[s][n] = Assistant(r)
        /\ \A i \in 1 .. Len(store[s]) : store'[s][i] = store[s][i]
    BY <1>0, <2>2, <2>3, Recording
  <2>6. s \notin overlapped =>
            \A q \in Requests \ {r} : session[q] = s => pc[q] \notin InFlight
    BY <2>1, <2>3 DEF SoleRequest
  <2>7. s \notin overlapped =>
            /\ Odd(Len(store[s])) /\ ~Odd(n)
            /\ store[s][Len(store[s])].of = r
    <3>1. User(r).of = r
      BY DEF User
    <3> QED
      BY <2>1, <2>3, <2>5, <3>1, Parity DEF OpenTurn
  <2>8. SoleRequest'
    BY <2>3, <2>4 DEF SoleRequest
  <2>9. OpenTurn'
    BY <2>1, <2>3, <2>4, <2>5, <2>6 DEF OpenTurn
  <2>10. WholeTurns'
    <3> SUFFICES ASSUME NEW t \in Sessions \ overlapped,
                        \A q \in Requests :
                            session[q] = t => pc'[q] # "appendAssistant"
                 PROVE  ~Odd(Len(store'[t]))
      BY <2>3 DEF WholeTurns
    <3>1. CASE t = s
      BY <2>5, <2>7, <3>1
    <3>2. CASE t # s
      BY <2>1, <2>4, <2>5, <3>2 DEF WholeTurns
    <3> QED
      BY <3>1, <3>2
  <2>11. SerialSessionsAlternate'
    <3> SUFFICES ASSUME NEW t \in Sessions \ overlapped,
                        NEW i \in 1 .. Len(store'[t])
                 PROVE  InTurn(store'[t], i)
      BY <2>3 DEF SerialSessionsAlternate
    <3>1. CASE t # s
      BY <2>5, <3>1 DEF SerialSessionsAlternate
    <3>2. CASE t = s /\ i = n
      <4>1. n - 1 \in 1 .. Len(store[s]) /\ n - 1 = Len(store[s])
        BY <2>5, <2>7, <3>2, Parity
      <4> QED
        BY <2>2, <2>5, <2>7, <3>2, <4>1 DEF InTurn
    <3>3. CASE t = s /\ i # n
      <4>1. /\ i \in 1 .. Len(store[s]) /\ InTurn(store[s], i)
            /\ Odd(i) \/ i - 1 \in 1 .. Len(store[s])
        BY <2>5, <3>3 DEF SerialSessionsAlternate, Odd
      <4>2. /\ store'[s][i] = store[s][i]
            /\ Odd(i) \/ store'[s][i - 1] = store[s][i - 1]
        BY <2>5, <4>1
      <4> QED
        BY <3>3, <4>1, <4>2 DEF InTurn
    <3> QED
      BY <3>1, <3>2, <3>3
  <2>12. SerialContextIsComplete'
    <3> SUFFICES ASSUME NEW q \in Requests, session[q] \notin overlapped,
                        pc'[q] \in {"invoke", "appendUser"}
                 PROVE  seen[q] = store'[session[q]]
      BY <2>3 DEF SerialContextIsComplete
    <3>1. q # r /\ pc[q] = pc'[q] /\ session[q] \in Sessions
      BY <1>0, <2>4 DEF TypeOK
    <3>2. session[q] # s
      BY <2>6, <3>1
    <3> QED
      BY <2>5, <3>1, <3>2 DEF SerialContextIsComplete
  <2> QED
    BY <2>8, <2>9, <2>10, <2>11, <2>12
<1>5. CASE Restart
  <2> USE <1>0, <1>5 DEF Restart, TypeOK
  <2>1. SoleRequest' /\ OpenTurn' /\ SerialContextIsComplete'
    BY DEF SoleRequest, OpenTurn, SerialContextIsComplete
  <2>2. WholeTurns' /\ SerialSessionsAlternate'
    BY Parity DEF WholeTurns, SerialSessionsAlternate
  <2> QED
    BY <2>1, <2>2
<1>6. CASE UNCHANGED vars
  <2> USE <1>6 DEF vars
  <2>1. SoleRequest' /\ OpenTurn' /\ SerialContextIsComplete'
    BY DEF SoleRequest, OpenTurn, SerialContextIsComplete
  <2>2. WholeTurns' /\ SerialSessionsAlternate'
    BY DEF WholeTurns, SerialSessionsAlternate
  <2> QED
    BY <2>1, <2>2
<1> QED
  BY <1>1, <1>2, <1>3, <1>4, <1>5, <1>6 DEF Next, Step

\* A conversation whose client waits for each answer is whole turns in order,
\* and each of its questions is answered from all of it.
THEOREM SerialSessions ==
    Spec => []SerialSessionsAreConversations
<1>1. SerialInv => SerialSessionsAreConversations
  BY DEF SerialInv, SerialSessionsAreConversations
<1> QED
  BY <1>1, SpecInv, InitSerial, NextSerial, PTL DEF Spec
-----------------------------------------------------------------------------
(* The page, composed with the service *)

\* Nothing the page does is news to the service: it is one client of many.
LEMMA PageIsAClient == [UINext]_uiVars => [Next]_vars
<1> USE DEF vars, server
<1>1. ASSUME Serve PROVE [Next]_vars
  BY <1>1 DEF Serve, Next, Step
<1>2. ASSUME NEW r \in Requests, Send(r) PROVE Next
  BY <1>2 DEF Send, Next, Step
<1>3. ASSUME Browse PROVE UNCHANGED vars
  BY <1>3 DEF Browse, NewChat, ClearMessages, Open, HistoryArrives, HistoryFails, Ask,
              AnswerArrives, RegisterConversation, Activate, SendFails, Interact, Reopen
<1>4. UNCHANGED uiVars => UNCHANGED vars
  BY DEF uiVars
<1> QED
  BY <1>1, <1>2, <1>3, <1>4 DEF UINext

\* The composition implements the service among arbitrary clients, so that all
\* that is proved of the one holds in the other.
THEOREM PageImplementsClient == UISpec => Spec
<1>1. UIInit => Init
  BY DEF UIInit
<1> QED
  BY <1>1, PageIsAClient, PTL DEF UISpec, Spec

(***************************************************************************)
(* The page's own invariant                                                *)
(***************************************************************************)
PageTypeOK ==
    /\ active \in Sessions \cup {NoSession}
    /\ listed \subseteq Sessions
    /\ displayed \in Seq(Message)
    /\ script \in {"idle"} \cup Switching \cup OfRequest
    /\ waiting \in Requests \cup {NoRequest}
    /\ script \in OfRequest <=> waiting # NoRequest
    /\ asked \subseteq Requests
    /\ abandoned \subseteq asked
    /\ torn \in BOOLEAN

\* A run that asks has not sent its question yet.
AsksOnce == script = "asking" => waiting \in asked /\ pc[waiting] = "idle"

\* What the page waits for has been posted, and in the conversation it is in.
SendsToActive ==
    script \in {"sending"} \cup Answering =>
        /\ waiting \in asked
        /\ pc[waiting] # "idle"
        /\ active # NoSession => session[waiting] = active

\* An answer is only displayed once its request has ended well.
Delivered == {"answered", "lost"}
ShownAnswersWereDelivered ==
    /\ script \in Answering => pc[waiting] \in Delivered
    /\ \A i \in 1 .. Len(displayed) :
           displayed[i].role = "assistant" => pc[displayed[i].of] \in Delivered

PageInv ==
    /\ PageTypeOK /\ AsksOnce /\ SendsToActive /\ ShownAnswersWereDelivered
    /\ AnswersBelongToActive /\ AgentKnowsWhatIsShown

LEMMA EmptyPage ==
    /\ <<>> \in Seq(Message)
    /\ \A i \in 1 .. Len(<<>>) : FALSE
  OBVIOUS

LEMMA InitPage == UIInit => PageInv
  BY RequestsAssumption, EmptyPage
  DEF UIInit, NewPage, PageInv, PageTypeOK, AsksOnce, SendsToActive, Switching, Answering,
      OfRequest, ShownAnswersWereDelivered, AnswersBelongToActive, AgentKnowsWhatIsShown

\* What the service never takes back: a request that has been posted keeps its
\* session, and one that has ended well stays so or is lost.
LEMMA PostedStays ==
    ASSUME TypeOK, Next, NEW r \in Requests, pc[r] # "idle"
    PROVE  /\ pc'[r] # "idle" /\ session'[r] = session[r]
           /\ pc[r] \in Delivered => pc'[r] \in Delivered
           /\ pc[r] \in Delivered /\ pc'[r] = "answered" => pc[r] = "answered"
  BY DEF Next, Step, Restart, Post, ReadHistory, AgentAnswers, AgentRaises, AppendUser,
         AppendAssistant, Goto, TypeOK, Delivered, InFlight

LEMMA OnThePage ==
    ASSUME PageTypeOK
    PROVE  /\ Len(displayed) \in Nat
           /\ \A i \in 1 .. Len(displayed) :
                  displayed[i] \in Message /\ displayed[i].of \in Requests
<1>1. \A m \in Message : m.of \in Requests
  BY DEF Message
<1>2. \A h \in Seq(Message) : \A i \in 1 .. Len(h) : h[i] \in Message
  OBVIOUS
<1> QED
  BY <1>1, <1>2 DEF PageTypeOK

\* What adding a message to the page does.
LEMMA Showing ==
    ASSUME PageTypeOK, NEW m \in Message, displayed' = Append(displayed, m)
    PROVE  /\ displayed' \in Seq(Message)
           /\ \A i \in 1 .. Len(displayed') :
                  \/ i \in 1 .. Len(displayed) /\ displayed'[i] = displayed[i]
                  \/ displayed'[i] = m
  BY DEF PageTypeOK

\* A question that is answered knows every answer of its conversation that had
\* been given by the time its history was read.
LEMMA ReadingKnows ==
    ASSUME Inv, PageInv, NEW r \in Requests, ReadHistory(r),
           script = "sending", waiting = r, ~torn,
           NEW i \in 1 .. Len(displayed), displayed[i].role = "assistant",
           pc[displayed[i].of] = "answered"
    PROVE  Holds(seen'[r], displayed[i])
<1> DEFINE q == displayed[i].of
<1>1. q \in Requests /\ displayed[i] = Assistant(q)
  BY OnThePage DEF PageInv, Message, Assistant, Roles
<1>2. session[q] \in Sessions /\ session[q] = active
  BY <1>1 DEF Inv, TypeOK, PageInv, AnswersBelongToActive, Shown, Switching, Answering
<1>3. session[r] = session[q]
  BY <1>2, SessionsAssumption DEF PageInv, SendsToActive
<1>4. Holds(store[session[q]], Assistant(q))
  BY <1>1 DEF Inv, AnsweredTurnsAreKept, Holds
<1>5. seen'[r] = store[session[r]]
  BY DEF ReadHistory, Inv, TypeOK
<1> QED
  BY <1>1, <1>3, <1>4, <1>5

\* The answers of a page stay where they are while requests only go forward.
LEMMA AnswersStay ==
    ASSUME PageInv, displayed' = displayed, script' = script, waiting' = waiting,
           active' = active, torn' = torn,
           \A q \in Requests : pc[q] # "idle" => session'[q] = session[q]
    PROVE  AnswersBelongToActive'
<1> SUFFICES ASSUME script \notin Switching, ~torn, NEW i \in 1 .. Len(displayed),
                    displayed[i].role = "assistant"
             PROVE  session'[displayed[i].of] = Shown'
  BY DEF AnswersBelongToActive
<1>1. session[displayed[i].of] = Shown /\ session'[displayed[i].of] = session[displayed[i].of]
  BY OnThePage DEF PageInv, AnswersBelongToActive, ShownAnswersWereDelivered, Delivered
<1>2. Shown' = Shown
  <2>1. CASE script \in Answering
    BY <2>1 DEF Shown, PageInv, PageTypeOK, OfRequest, SendsToActive
  <2>2. CASE script \notin Answering
    BY <2>2 DEF Shown
  <2> QED
    BY <2>1, <2>2
<1> QED
  BY <1>1, <1>2

LEMMA ServeKeepsPage == Inv /\ PageInv /\ Serve => PageInv'
<1> SUFFICES ASSUME Inv, PageInv, Serve PROVE PageInv'
  OBVIOUS
<1> USE DEF Inv
<1>1. Next /\ UNCHANGED page
  BY DEF Serve, Next, Step
<1>2. \A q \in Requests : pc[q] # "idle" =>
          /\ pc'[q] # "idle" /\ session'[q] = session[q]
          /\ pc[q] \in Delivered => pc'[q] \in Delivered
          /\ pc[q] \in Delivered /\ pc'[q] = "answered" => pc[q] = "answered"
  BY <1>1, PostedStays
<1>3. PageTypeOK'
  BY <1>1 DEF page, PageInv, PageTypeOK
<1>4. AsksOnce'
  <2> SUFFICES ASSUME script = "asking" PROVE waiting \in asked /\ pc'[waiting] = "idle"
    BY <1>1 DEF page, AsksOnce
  <2>1. waiting \in asked /\ waiting \in Requests /\ pc[waiting] = "idle"
    BY DEF PageInv, PageTypeOK, AsksOnce
  <2> QED
    BY <2>1 DEF Serve, Restart, Post, ReadHistory, AgentAnswers, AgentRaises, AppendUser,
                AppendAssistant, Goto, TypeOK, InFlight
<1>5. SendsToActive'
  BY <1>1, <1>2 DEF page, PageInv, PageTypeOK, SendsToActive
<1>6. ShownAnswersWereDelivered'
  <2>1. script \in Answering => waiting \in Requests /\ pc[waiting] # "idle"
    BY DEF PageInv, PageTypeOK, SendsToActive
  <2> QED
    BY <1>1, <1>2, <2>1, OnThePage DEF page, PageInv, ShownAnswersWereDelivered, Delivered
<1>7. AnswersBelongToActive'
  BY <1>1, <1>2, AnswersStay DEF page
<1>8. AgentKnowsWhatIsShown'
  <2> SUFFICES ASSUME ~torn', script' = "sending", pc'[waiting'] \in {"invoke", "appendUser"},
                      NEW i \in 1 .. Len(displayed'), displayed'[i].role = "assistant",
                      pc'[displayed'[i].of] = "answered"
               PROVE  Holds(seen'[waiting'], displayed'[i])
    BY DEF AgentKnowsWhatIsShown
  <2>1. /\ ~torn /\ script = "sending" /\ waiting' = waiting /\ displayed' = displayed
        /\ waiting \in Requests
    BY <1>1, RequestsAssumption DEF page, PageInv, PageTypeOK, OfRequest
  <2>2. pc[displayed[i].of] = "answered"
    BY <1>2, <2>1, OnThePage DEF PageInv, ShownAnswersWereDelivered, Delivered
  <2>3. CASE ReadHistory(waiting)
    BY <2>1, <2>2, <2>3, ReadingKnows
  <2>4. CASE ~ReadHistory(waiting)
    <3>1. pc[waiting] \in {"invoke", "appendUser"} /\ seen'[waiting] = seen[waiting]
      BY <1>1, <2>1, <2>4
      DEF Next, Step, Restart, Post, ReadHistory, AgentAnswers, AgentRaises, AppendUser,
          AppendAssistant, Goto, TypeOK, PageInv, SendsToActive, InFlight
    <3> QED
      BY <2>1, <2>2, <3>1 DEF PageInv, AgentKnowsWhatIsShown
  <2> QED
    BY <2>3, <2>4
<1> QED
  BY <1>3, <1>4, <1>5, <1>6, <1>7, <1>8 DEF PageInv

LEMMA SendKeepsPage ==
    ASSUME Inv, PageInv, NEW r \in Requests, Send(r) PROVE PageInv'
<1> USE DEF Inv, PageInv
<1>1. PICK s \in Sessions : Post(r, s) /\ (active # NoSession => s = active)
  BY DEF Send
<1>2. /\ pc[r] = "idle" /\ pc'[r] = "read" /\ session'[r] = s
      /\ \A q \in Requests \ {r} : pc'[q] = pc[q] /\ session'[q] = session[q]
  BY <1>1 DEF Post, Goto, TypeOK
<1>3. /\ script = "asking" /\ script' = "sending" /\ waiting = r
      /\ UNCHANGED <<active, listed, displayed, waiting, asked, abandoned, torn>>
  BY DEF Send
<1>4. PageTypeOK'
  BY <1>3 DEF PageTypeOK, OfRequest
<1>5. AsksOnce' /\ SendsToActive'
  BY <1>1, <1>2, <1>3 DEF AsksOnce, SendsToActive
<1>6. \A i \in 1 .. Len(displayed) : displayed[i].role = "assistant" =>
          displayed[i].of \in Requests \ {r} /\ displayed[i].of \in Requests
  BY <1>2, OnThePage DEF ShownAnswersWereDelivered, Delivered
<1>7. ShownAnswersWereDelivered' /\ AnswersBelongToActive'
  BY <1>2, <1>3, <1>6
  DEF ShownAnswersWereDelivered, AnswersBelongToActive, Shown, Switching, Answering
<1>8. AgentKnowsWhatIsShown'
  BY <1>2, <1>3 DEF AgentKnowsWhatIsShown
<1> QED
  BY <1>4, <1>5, <1>7, <1>8

LEMMA BrowseKeepsPage == Inv /\ PageInv /\ Browse => PageInv'
<1> SUFFICES ASSUME Inv, PageInv, Browse PROVE PageInv'
  OBVIOUS
<1> USE RequestsAssumption, SessionsAssumption, EmptyPage
    DEF PageInv, PageTypeOK, AsksOnce, SendsToActive, ShownAnswersWereDelivered,
        AnswersBelongToActive, AgentKnowsWhatIsShown, Rest, Display, Abandon, Shown,
        Switching, Answering, OfRequest, server
<1>1. CASE NewChat \/ ClearMessages
  BY <1>1 DEF NewChat, ClearMessages
<1>2. ASSUME NEW s \in Sessions, Open(s) PROVE PageInv'
  BY <1>2 DEF Open
<1>3. CASE HistoryArrives
  <2>0. active \in Sessions
    BY <1>3 DEF HistoryArrives, Inv, TypeOK
  <2>1. /\ store[active] \in Seq(Message)
        /\ \A i \in 1 .. Len(store[active]) :
               /\ session[store[active][i].of] = active
               /\ store[active][i].role = "assistant"
                      => pc[store[active][i].of] = "answered"
    BY <2>0 DEF Inv, TypeOK, RecordedByOwner
  <2> QED
    BY <1>3, <2>1 DEF HistoryArrives, Delivered
<1>4. CASE HistoryFails
  BY <1>4 DEF HistoryFails
<1>5. ASSUME NEW r \in Requests, Ask(r) PROVE PageInv'
  <2>1. User(r) \in Message /\ User(r).role = "user"
    BY DEF User, Message, Roles
  <2>2. /\ displayed' \in Seq(Message)
        /\ \A i \in 1 .. Len(displayed') : displayed'[i].role = "assistant" =>
               i \in 1 .. Len(displayed) /\ displayed'[i] = displayed[i]
    BY <1>5, <2>1, Showing DEF Ask
  <2> QED
    BY <1>5, <2>2 DEF Ask
<1>6. CASE AnswerArrives
  <2>1. /\ waiting \in Requests /\ pc[waiting] = "answered"
        /\ session[waiting] \in Sessions
    BY <1>6 DEF AnswerArrives, Inv, TypeOK
  <2>2. Assistant(waiting) \in Message /\ Assistant(waiting).of = waiting
    BY <2>1 DEF Assistant, Message, Roles
  <2>3. /\ displayed' \in Seq(Message)
        /\ \A i \in 1 .. Len(displayed') :
               \/ i \in 1 .. Len(displayed) /\ displayed'[i] = displayed[i]
               \/ displayed'[i] = Assistant(waiting)
    BY <1>6, <2>2, Showing DEF AnswerArrives
  <2>4. (PageTypeOK /\ AsksOnce /\ SendsToActive /\ AgentKnowsWhatIsShown)'
    BY <1>6, <2>1, <2>3 DEF AnswerArrives
  <2>5. ShownAnswersWereDelivered'
    BY <1>6, <2>1, <2>2, <2>3 DEF AnswerArrives, Delivered
  <2>6. \A i \in 1 .. Len(displayed) : ~torn /\ displayed[i].role = "assistant" =>
            session[displayed[i].of] = session[waiting]
    <3> SUFFICES ASSUME NEW i \in 1 .. Len(displayed), ~torn,
                        displayed[i].role = "assistant"
                 PROVE  session[displayed[i].of] = session[waiting]
      OBVIOUS
    <3>1. session[displayed[i].of] = active
      BY <1>6 DEF AnswerArrives
    <3>2. session[displayed[i].of] \in Sessions
      BY OnThePage DEF Delivered, Inv, TypeOK
    <3> QED
      BY <1>6, <3>1, <3>2 DEF AnswerArrives
  <2>7. AnswersBelongToActive'
    BY <1>6, <2>2, <2>3, <2>6 DEF AnswerArrives
  <2> QED
    BY <2>4, <2>5, <2>7
<1>7. CASE RegisterConversation
  <2>1. session[waiting] \in Sessions
    BY <1>7 DEF RegisterConversation, Inv, TypeOK, Delivered
  <2> QED
    BY <1>7, <2>1 DEF RegisterConversation
<1>8. CASE Activate
  <2>1. session[waiting] \in Sessions /\ script \in Answering
    BY <1>8 DEF Activate, Inv, TypeOK, Delivered
  <2> QED
    BY <1>8, <2>1 DEF Activate
<1>9. CASE SendFails
  BY <1>9 DEF SendFails
<1>10. CASE Interact
  <2>1. PageTypeOK'
    BY <1>10 DEF Interact
  <2>2. (AsksOnce /\ SendsToActive /\ ShownAnswersWereDelivered /\ AgentKnowsWhatIsShown)'
    BY <1>10 DEF Interact
  <2>3. AnswersBelongToActive'
    BY <1>10 DEF Interact
  <2> QED
    BY <2>1, <2>2, <2>3
<1>11. CASE Reopen
  BY <1>11 DEF Reopen
<1> QED
  BY <1>1, <1>2, <1>3, <1>4, <1>5, <1>6, <1>7, <1>8, <1>9, <1>10, <1>11 DEF Browse

LEMMA StutterKeepsPage == PageInv /\ UNCHANGED uiVars => PageInv'
  BY DEF uiVars, PageInv, PageTypeOK, AsksOnce, SendsToActive, Shown,
         ShownAnswersWereDelivered, AnswersBelongToActive, AgentKnowsWhatIsShown

LEMMA PageSpecInv == UISpec => [](Inv /\ PageInv)
<1>1. UIInit => Inv /\ PageInv
  BY InitInv, InitPage DEF UIInit
<1>2. Inv /\ PageInv /\ [UINext]_uiVars => (Inv /\ PageInv)'
  <2> SUFFICES ASSUME Inv, PageInv, [UINext]_uiVars PROVE Inv' /\ PageInv'
    OBVIOUS
  <2>1. Inv'
    BY PageIsAClient, NextInv
  <2>2. PageInv'
    BY ServeKeepsPage, SendKeepsPage, BrowseKeepsPage, StutterKeepsPage DEF UINext
  <2> QED
    BY <2>1, <2>2
<1> QED
  BY <1>1, <1>2, PTL DEF UISpec

\* The types of the page and of the service.
THEOREM PageTypeCorrect == UISpec => []UITypeOK
<1>1. Inv /\ PageInv => UITypeOK
  BY DEF Inv, PageInv, PageTypeOK, UITypeOK
<1> QED
  BY <1>1, PageSpecInv, PTL

\* The answers displayed are those of the active conversation, whatever fails
\* and whenever the user clicks, but after a run that was stopped halfway
\* through a change of conversation.
THEOREM PageShowsActive == UISpec => []AnswersBelongToActive
  BY PageSpecInv, PTL DEF PageInv

\* Every answer on such a page is in the history a question is answered from.
THEOREM AgentSharesThePage == UISpec => []AgentKnowsWhatIsShown
  BY PageSpecInv, PTL DEF PageInv

(***************************************************************************)
(* The page of a user who waits does not race with itself                  *)
(***************************************************************************)
\* What the page has in flight it waits for, or has left alone.
WaitsForItsOwn ==
    \A r \in asked :
        pc[r] \in InFlight => r \in abandoned \/ (script = "sending" /\ waiting = r)

\* Where requests overlapped there is a posted one the page does not answer for.
OverlapHasStranger ==
    \A s \in overlapped : \E r \in Requests :
        pc[r] # "idle" /\ session[r] = s /\ (r \in abandoned \/ r \notin asked)

TurnInv == WaitsForItsOwn /\ OverlapHasStranger

LEMMA ServeKeepsTurn == Inv /\ PageInv /\ TurnInv /\ Serve => TurnInv'
<1> SUFFICES ASSUME Inv, PageInv, TurnInv, Serve PROVE TurnInv'
  OBVIOUS
<1> USE DEF Inv, TurnInv
<1>1. Next /\ UNCHANGED page /\ asked \subseteq Requests
  BY DEF Serve, Next, Step, PageInv, PageTypeOK
<1>2. \A q \in Requests : pc[q] # "idle" => pc'[q] # "idle" /\ session'[q] = session[q]
  BY <1>1, PostedStays
<1>3. \A q \in asked : pc'[q] \in InFlight => pc[q] \in InFlight
  BY <1>1
  DEF Serve, Restart, Post, ReadHistory, AgentAnswers, AgentRaises, AppendUser,
      AppendAssistant, Goto, TypeOK, InFlight, Ended
<1>4. WaitsForItsOwn'
  BY <1>1, <1>3 DEF page, WaitsForItsOwn
<1>5. OverlapHasStranger'
  <2>1. ASSUME NEW r \in Requests \ asked, NEW s \in Sessions, Post(r, s)
        PROVE  OverlapHasStranger'
    <3>1. /\ overlapped' \subseteq overlapped \cup {s} /\ r \notin asked
          /\ pc'[r] # "idle" /\ session'[r] = s
      BY <2>1 DEF Post, Goto, TypeOK
    <3> QED
      BY <1>1, <1>2, <3>1 DEF OverlapHasStranger, page
  <2>2. CASE ~\E r \in Requests \ asked, s \in Sessions : Post(r, s)
    <3>1. overlapped' \subseteq overlapped
      BY <2>2 DEF Serve, Restart, ReadHistory, AgentAnswers, AgentRaises, AppendUser,
                  AppendAssistant
    <3> QED
      BY <1>1, <1>2, <3>1 DEF OverlapHasStranger, page
  <2> QED
    BY <2>1, <2>2
<1> QED
  BY <1>4, <1>5

LEMMA SendKeepsTurn ==
    ASSUME Inv, PageInv, TurnInv, NEW r \in Requests, Send(r) PROVE TurnInv'
<1> USE DEF Inv, TurnInv
<1>1. PICK s \in Sessions : Post(r, s)
  BY DEF Send
<1>2. /\ pc[r] = "idle" /\ pc'[r] = "read" /\ session'[r] = s
      /\ \A q \in Requests \ {r} : pc'[q] = pc[q] /\ session'[q] = session[q]
  BY <1>1 DEF Post, Goto, TypeOK
<1>3. /\ script = "asking" /\ script' = "sending" /\ waiting' = r
      /\ asked' = asked /\ abandoned' = abandoned /\ asked \subseteq Requests
  BY DEF Send, PageInv, PageTypeOK
<1>4. WaitsForItsOwn'
  BY <1>2, <1>3 DEF WaitsForItsOwn
<1>5. OverlapHasStranger'
  <2> SUFFICES ASSUME NEW t \in overlapped'
               PROVE  \E q \in Requests : /\ pc'[q] # "idle" /\ session'[q] = t
                                          /\ (q \in abandoned \/ q \notin asked)
    BY <1>3 DEF OverlapHasStranger
  <2>1. CASE t \in overlapped
    BY <1>2, <2>1 DEF OverlapHasStranger
  <2>2. CASE t \notin overlapped
    <3>1. PICK q \in Requests : pc[q] \in InFlight /\ session[q] = t
      BY <1>1, <2>2 DEF Post
    <3>2. pc[q] # "idle" /\ q # r
      BY <1>2, <3>1 DEF InFlight
    <3>3. q \in abandoned \/ q \notin asked
      BY <1>3, <3>1 DEF WaitsForItsOwn
    <3> QED
      BY <1>2, <3>1, <3>2, <3>3
  <2> QED
    BY <2>1, <2>2
<1> QED
  BY <1>4, <1>5

LEMMA BrowseKeepsTurn == Inv /\ PageInv /\ TurnInv /\ Browse => TurnInv'
<1> SUFFICES ASSUME Inv, PageInv, TurnInv, Browse PROVE TurnInv'
  OBVIOUS
<1>1. CASE \E r \in Requests : Ask(r)
  <2>1. PICK r \in Requests : Ask(r)
    BY <1>1
  <2>2. /\ UNCHANGED <<pc, session, overlapped, abandoned>>
        /\ asked' = asked \cup {r} /\ pc[r] = "idle" /\ script = "idle"
    BY <2>1 DEF Ask, server
  <2>3. WaitsForItsOwn'
    BY <2>2 DEF TurnInv, WaitsForItsOwn, InFlight
  <2>4. OverlapHasStranger'
    BY <2>2 DEF TurnInv, OverlapHasStranger
  <2> QED
    BY <2>3, <2>4 DEF TurnInv
<1>2. CASE ~\E r \in Requests : Ask(r)
  <2>1. UNCHANGED <<pc, session, overlapped, asked>> /\ abandoned \subseteq abandoned'
    BY <1>2 DEF Browse, NewChat, ClearMessages, Open, HistoryArrives, HistoryFails,
                AnswerArrives, RegisterConversation, Activate, SendFails, Interact, Reopen,
                Abandon, server
  <2>2. ASSUME NEW r \in asked, pc[r] \in InFlight, script = "sending", waiting = r
        PROVE  r \in abandoned' \/ (script' = "sending" /\ waiting' = r)
    BY <1>2, <2>2 DEF Browse, NewChat, ClearMessages, Open, HistoryArrives, HistoryFails,
                AnswerArrives, RegisterConversation, Activate, SendFails, Interact, Reopen,
                Abandon, InFlight
  <2> QED
    BY <2>1, <2>2 DEF TurnInv, WaitsForItsOwn, OverlapHasStranger
<1> QED
  BY <1>1, <1>2

\* While the user waits for the answers and the connection holds, the page never has
\* two requests of one conversation in flight.
THEOREM PageIsSerial == UISpec => []PatientUsersAreSerial
<1>1. UIInit => TurnInv
  BY DEF UIInit, Init, TurnInv, WaitsForItsOwn, OverlapHasStranger
<1>2. Inv /\ PageInv /\ TurnInv /\ [UINext]_uiVars => TurnInv'
  <2>1. UNCHANGED uiVars /\ TurnInv => TurnInv'
    BY DEF uiVars, TurnInv, WaitsForItsOwn, OverlapHasStranger
  <2> QED
    BY <2>1, ServeKeepsTurn, SendKeepsTurn, BrowseKeepsTurn DEF UINext
<1>3. TurnInv => PatientUsersAreSerial
  BY DEF TurnInv, OverlapHasStranger, PatientUsersAreSerial
<1> QED
  BY <1>1, <1>2, <1>3, PageSpecInv, PTL DEF UISpec

-----------------------------------------------------------------------------
(* To a client that waits, the store takes whole turns *)

\* Half of a history's length counts its whole turns.
LEMMA Halved ==
    \A n \in Nat : /\ n \div 2 \in Nat
                   /\ n = IF Odd(n) THEN 2 * (n \div 2) + 1 ELSE 2 * (n \div 2)
<1> TAKE n \in Nat
<1>1. n \div 2 \in Nat /\ n = 2 * (n \div 2) + (n % 2) /\ n % 2 \in {0, 1}
  <2>1. n \div 2 \in Nat
    OBVIOUS
  <2>2. n = 2 * (n \div 2) + (n % 2)
    OBVIOUS
  <2>3. n % 2 \in {0, 1}
    OBVIOUS
  <2> QED
    BY <2>1, <2>2, <2>3
<1> QED
  BY <1>1 DEF Odd

LEMMA HalfOfEven == \A m \in Nat : (2 * m) \div 2 = m /\ ~Odd(2 * m)
<1> TAKE m \in Nat
<1>1. (2 * m) \div 2 = m
  OBVIOUS
<1>2. (2 * m) % 2 = 0
  OBVIOUS
<1> QED
  BY <1>1, <1>2 DEF Odd

LEMMA HalfOfOdd == \A m \in Nat : (2 * m + 1) \div 2 = m
  OBVIOUS

\* They are where its places are odd, then even.
LEMMA Places ==
    \A n \in Nat : \A i \in 1 .. n \div 2 :
        2 * i - 1 \in 1 .. n /\ 2 * i \in 1 .. n /\ ~Odd(2 * i)
<1> TAKE n \in Nat
<1>1. PICK h \in Nat : h = n \div 2 /\ 2 * h <= n
  BY Halved
<1>2. \A i \in 1 .. h : 2 * i - 1 \in 1 .. n /\ 2 * i \in 1 .. n /\ ~Odd(2 * i)
  <2> TAKE i \in 1 .. h
  <2>1. 2 * i - 1 \in 1 .. n /\ 2 * i \in 1 .. n
    BY <1>1
  <2> QED
    BY <2>1, HalfOfEven
<1> QED
  BY <1>1, <1>2

\* While a turn is being recorded, what precedes it is what the agent was told.
ContextStands ==
    \A r \in Requests :
        (pc[r] = "appendAssistant" /\ session[r] \notin overlapped)
            => store[session[r]] = Append(seen[r], User(r))

LEMMA NextContext ==
    Inv /\ SerialInv /\ ContextStands /\ [Next]_vars => ContextStands'
<1> SUFFICES ASSUME Inv, SerialInv, ContextStands, [Next]_vars,
                    NEW q \in Requests, pc'[q] = "appendAssistant",
                    session'[q] \notin overlapped'
             PROVE  store'[session'[q]] = Append(seen'[q], User(q))
  BY DEF ContextStands
<1>0. TypeOK
  BY DEF Inv
<1>1. ASSUME pc[q] = "appendAssistant", session'[q] = session[q], seen'[q] = seen[q],
             session[q] \notin overlapped, store'[session[q]] = store[session[q]]
      PROVE  store'[session'[q]] = Append(seen'[q], User(q))
  BY <1>1 DEF ContextStands
<1>2. ASSUME NEW r \in Requests, NEW s \in Sessions, Post(r, s)
      PROVE  store'[session'[q]] = Append(seen'[q], User(q))
  BY <1>0, <1>1, <1>2 DEF Post, Goto, TypeOK
<1>3. ASSUME NEW r \in Requests, ReadHistory(r) \/ AgentAnswers(r) \/ AgentRaises(r)
      PROVE  store'[session'[q]] = Append(seen'[q], User(q))
  BY <1>0, <1>1, <1>3 DEF ReadHistory, AgentAnswers, AgentRaises, Goto, TypeOK
<1>4. ASSUME NEW r \in Requests, AppendUser(r)
      PROVE  store'[session'[q]] = Append(seen'[q], User(q))
  <2>1. /\ store' = [store EXCEPT ![session[r]] = Append(@, User(r))]
        /\ session' = session /\ seen' = seen /\ overlapped' = overlapped
        /\ pc[r] = "appendUser" /\ session[r] \in Sessions
        /\ \A p \in Requests : p # r => pc'[p] = pc[p]
    BY <1>0, <1>4 DEF AppendUser, Record, Goto, TypeOK
  <2>2. CASE q = r
    <3>1. seen[r] = store[session[r]]
      BY <2>1, <2>2 DEF SerialInv, SerialContextIsComplete
    <3> QED
      BY <1>0, <2>1, <2>2, <3>1 DEF TypeOK
  <2>3. CASE q # r
    <3>1. session[q] # session[r]
      BY <1>0, <2>1, <2>3 DEF SerialInv, SoleRequest, InFlight, TypeOK
    <3> QED
      BY <1>0, <1>1, <2>1, <2>3, <3>1 DEF TypeOK
  <2> QED
    BY <2>2, <2>3
<1>5. ASSUME NEW r \in Requests, AppendAssistant(r)
      PROVE  store'[session'[q]] = Append(seen'[q], User(q))
  <2>1. /\ store' = [store EXCEPT ![session[r]] = Append(@, Assistant(r))]
        /\ session' = session /\ seen' = seen /\ overlapped' = overlapped
        /\ pc[r] = "appendAssistant" /\ session[r] \in Sessions
        /\ pc'[r] = "answered"
        /\ \A p \in Requests : p # r => pc'[p] = pc[p]
    BY <1>0, <1>5 DEF AppendAssistant, Record, Goto, TypeOK
  <2>2. q # r
    BY <2>1
  <2>3. session[q] # session[r]
    BY <1>0, <2>1, <2>2 DEF SerialInv, SoleRequest, InFlight, TypeOK
  <2> QED
    BY <1>0, <1>1, <2>1, <2>2, <2>3 DEF TypeOK
<1>6. CASE Restart
  BY <1>0, <1>6 DEF Restart, TypeOK, InFlight
<1>7. CASE UNCHANGED vars
  BY <1>1, <1>7 DEF vars
<1> QED
  BY <1>2, <1>3, <1>4, <1>5, <1>6, <1>7 DEF Next, Step

\* The answer of a turn that is in a waiting client's history has been given.
LEMMA TurnsAreAnswered ==
    ASSUME Inv, SerialInv, NEW s \in Sessions \ overlapped,
           NEW i \in 1 .. Len(store[s]) \div 2
    PROVE  /\ 2 * i - 1 \in 1 .. Len(store[s]) /\ 2 * i \in 1 .. Len(store[s])
           /\ store[s][2 * i].of \in Requests /\ pc[store[s][2 * i].of] = "answered"
<1>1. Len(store[s]) \in Nat
  BY DEF Inv, TypeOK
<1>2. 2 * i - 1 \in 1 .. Len(store[s]) /\ 2 * i \in 1 .. Len(store[s]) /\ ~Odd(2 * i)
  BY <1>1, Places
<1>3. store[s][2 * i].role = "assistant"
  BY <1>2 DEF SerialInv, SerialSessionsAlternate, InTurn
<1> QED
  BY <1>2, <1>3, Owners DEF Inv, RecordedByOwner

\* What a turn is, place by place.
LEMMA TurnsUnfolded ==
    ASSUME NEW history, NEW n \in Nat, n = Len(history) \div 2
    PROVE  TurnsOf(history) =
               [i \in 1 .. n |->
                   [exchange |-> <<history[2 * i - 1], history[2 * i]>>,
                    context |-> Exchanges(seen[history[2 * i].of])]]
<1>1. \A i \in 1 .. n : Exchanges(history)[i] = <<history[2 * i - 1], history[2 * i]>>
  BY DEF Exchanges
<1>2. TurnsOf(history) =
          [i \in 1 .. n |-> [exchange |-> Exchanges(history)[i],
                             context |-> Exchanges(seen[history[2 * i].of])]]
  BY DEF TurnsOf
<1> QED
  BY <1>1, <1>2

\* Turns stay as they are while their history gets no new turn and what the agent was
\* told of them is kept.
LEMMA SameTurns ==
    ASSUME Inv, SerialInv, NEW s \in Sessions \ overlapped,
           Len(store'[s]) \div 2 = Len(store[s]) \div 2,
           \A i \in 1 .. Len(store[s]) : store'[s][i] = store[s][i],
           \A r \in Requests : pc[r] = "answered" => seen'[r] = seen[r]
    PROVE  TurnsOf(store[s])' = TurnsOf(store[s])
<1>1. \A i \in 1 .. Len(store[s]) \div 2 :
          /\ store'[s][2 * i - 1] = store[s][2 * i - 1]
          /\ store'[s][2 * i] = store[s][2 * i]
          /\ Exchanges(seen'[store'[s][2 * i].of]) = Exchanges(seen[store[s][2 * i].of])
  BY TurnsAreAnswered
<1>2. \A i \in 1 .. Len(store[s]) \div 2 : Exchanges(store'[s])[i] = Exchanges(store[s])[i]
  BY <1>1 DEF Exchanges
<1> QED
  BY <1>1, <1>2 DEF TurnsOf

\* So most steps add no turn.
LEMMA NoNewTurn ==
    ASSUME Inv, SerialInv, overlapped' = overlapped,
           \A s \in Sessions \ overlapped :
               /\ Len(store'[s]) \div 2 = Len(store[s]) \div 2
               /\ \A i \in 1 .. Len(store[s]) : store'[s][i] = store[s][i],
           \A r \in Requests : pc[r] = "answered" => seen'[r] = seen[r]
    PROVE  UNCHANGED <<Turns, overlapped>>
<1>1. \A s \in Sessions \ overlapped : TurnsOf(store[s])' = TurnsOf(store[s])
  BY SameTurns
<1>2. Turns' = [s \in Sessions |-> IF s \in overlapped' THEN <<>> ELSE TurnsOf(store[s])']
  BY DEF Turns
<1> QED
  BY <1>1, <1>2 DEF Turns

LEMMA PostKeepsPromise ==
    ASSUME Inv, SerialInv, NEW r \in Requests, NEW s \in Sessions, Post(r, s)
    PROVE  [Promise!ConvNext]_<<Turns, overlapped>>
<1>1. /\ store' = store /\ seen' = seen
      /\ overlapped' = overlapped \/ overlapped' = overlapped \cup {s}
  <2>1. {t \in {s} : \E q \in Requests : pc[q] \in InFlight /\ session[q] = s} \in {{}, {s}}
    OBVIOUS
  <2> QED
    BY <2>1 DEF Post
<1>2. CASE overlapped' = overlapped
  BY <1>1, <1>2, NoNewTurn
<1>3. CASE overlapped' = overlapped \cup {s}
  <2>1. \A t \in Sessions : TurnsOf(store[t])' = TurnsOf(store[t])
    BY <1>1 DEF TurnsOf, Exchanges
  <2>2. Turns' = [t \in Sessions |-> IF t \in overlapped' THEN <<>> ELSE TurnsOf(store[t])']
    BY DEF Turns
  <2>3. Turns' = [Turns EXCEPT ![s] = <<>>]
    BY <1>3, <2>1, <2>2 DEF Turns
  <2> QED
    BY <1>3, <2>3 DEF Promise!ConvNext, Promise!Race
<1> QED
  BY <1>1, <1>2, <1>3

LEMMA AnswerKeepsPromise ==
    ASSUME Inv, SerialInv, ContextStands, NEW r \in Requests, AppendAssistant(r)
    PROVE  [Promise!ConvNext]_<<Turns, overlapped>>
<1>1. PICK s \in Sessions : s = session[r]
  BY DEF AppendAssistant, Inv, TypeOK
<1>2. /\ pc[r] = "appendAssistant" /\ Record(s, Assistant(r))
      /\ UNCHANGED <<session, seen, overlapped>>
  BY <1>1 DEF AppendAssistant
<1>3. Assistant(r) \in Message /\ Assistant(r).of = r /\ TypeOK
  BY DEF Assistant, Message, Roles, Inv
<1>4. /\ \A t \in Sessions \ {s} : store'[t] = store[t]
      /\ Len(store[s]) \in Nat /\ Len(store'[s]) = Len(store[s]) + 1
      /\ store'[s][Len(store[s]) + 1] = Assistant(r)
      /\ \A i \in 1 .. Len(store[s]) : store'[s][i] = store[s][i]
  BY <1>2, <1>3, Recording
<1>5. CASE s \in overlapped
  BY <1>2, <1>4, <1>5, NoNewTurn
<1>6. CASE s \notin overlapped
  <2>0. PICK n \in Nat : n = Len(store[s]) \div 2
    BY <1>4, Halved
  <2> DEFINE now == Turns[s]
             turn == [exchange |-> <<User(r), Assistant(r)>>,
                      context |-> Promise!ExchangesOf(now)]
  <2>1. Odd(Len(store[s])) /\ store[s] = Append(seen[r], User(r))
    BY <1>1, <1>2, <1>6 DEF SerialInv, OpenTurn, ContextStands
  <2>2. /\ Len(store[s]) = 2 * n + 1
        /\ Len(store'[s]) = 2 * (n + 1) /\ Len(store'[s]) \div 2 = n + 1
    <3>1. Len(store[s]) = 2 * n + 1
      BY <1>4, <2>0, <2>1, Halved
    <3>2. Len(store'[s]) = 2 * (n + 1) /\ n + 1 \in Nat
      BY <1>4, <3>1
    <3> QED
      BY <3>1, <3>2, HalfOfEven
  <2>3. now = [i \in 1 .. n |->
                  [exchange |-> <<store[s][2 * i - 1], store[s][2 * i]>>,
                   context |-> Exchanges(seen[store[s][2 * i].of])]]
    <3>1. now = TurnsOf(store[s])
      BY <1>6 DEF Turns
    <3> QED
      BY <2>0, <3>1, TurnsUnfolded
  <2>4. Len(now) = n
    BY <2>3
  \* The agent was told of all that precedes the question.
  <2>5. /\ Len(seen[r]) = 2 * n /\ store[s][2 * n + 1] = User(r)
        /\ \A i \in 1 .. 2 * n : seen[r][i] = store[s][i]
    <3>1. PICK h \in Seq(Message) : h = seen[r]
      BY <1>3 DEF TypeOK
    <3>2. Len(Append(h, User(r))) = Len(h) + 1 /\ Append(h, User(r))[Len(h) + 1] = User(r)
      BY <3>1
    <3>3. \A i \in 1 .. Len(h) : Append(h, User(r))[i] = h[i]
      BY <3>1
    <3>4. Len(h) \in Nat /\ store[s] = Append(h, User(r))
      BY <2>1, <3>1
    <3>5. Len(h) = 2 * n
      BY <2>2, <3>2, <3>4
    <3> QED
      BY <3>1, <3>2, <3>3, <3>4, <3>5
  <2>6. Promise!ExchangesOf(now) = Exchanges(seen[r])
    <3>1. Len(seen[r]) \div 2 = n
      BY <2>5, HalfOfEven
    <3>2. \A i \in 1 .. n : 2 * i - 1 \in 1 .. 2 * n /\ 2 * i \in 1 .. 2 * n
      OBVIOUS
    <3>3. \A i \in 1 .. n : <<seen[r][2 * i - 1], seen[r][2 * i]>> = now[i].exchange
      <4> TAKE i \in 1 .. n
      <4>1. now[i] = [exchange |-> <<store[s][2 * i - 1], store[s][2 * i]>>,
                      context |-> Exchanges(seen[store[s][2 * i].of])]
        BY <2>3
      <4> HIDE DEF now
      <4> QED
        BY <2>5, <3>2, <4>1
    <3>4. Exchanges(seen[r]) = [i \in 1 .. n |-> <<seen[r][2 * i - 1], seen[r][2 * i]>>]
      BY <3>1 DEF Exchanges
    <3>5. Promise!ExchangesOf(now) = [i \in 1 .. n |-> now[i].exchange]
      BY <2>4 DEF Promise!ExchangesOf
    <3> HIDE DEF now
    <3> QED
      BY <3>3, <3>4, <3>5
  <2>7. \A t \in Sessions \ {s} : Turns'[t] = Turns[t]
    <3>1. \A t \in Sessions : TurnsOf(store[t])' = TurnsOf(store'[t])
      BY <1>2 DEF TurnsOf, Exchanges
    <3> QED
      BY <1>2, <1>4, <3>1 DEF Turns
  <2>8. Turns'[s] = Append(now, turn)
    <3>0. Turns'[s] = TurnsOf(store'[s])
      <4>1. Turns'[s] = TurnsOf(store[s])'
        BY <1>2, <1>6 DEF Turns
      <4> QED
        BY <1>2, <4>1 DEF TurnsOf, Exchanges
    <3>1. Turns'[s] = [i \in 1 .. n + 1 |->
                          [exchange |-> <<store'[s][2 * i - 1], store'[s][2 * i]>>,
                           context |-> Exchanges(seen[store'[s][2 * i].of])]]
      <4>1. n + 1 \in Nat /\ n + 1 = Len(store'[s]) \div 2
        BY <2>2
      <4>2. ASSUME NEW h, n + 1 = Len(h) \div 2
            PROVE  TurnsOf(h) = [i \in 1 .. n + 1 |->
                                    [exchange |-> <<h[2 * i - 1], h[2 * i]>>,
                                     context |-> Exchanges(seen[h[2 * i].of])]]
        BY <4>1, <4>2, TurnsUnfolded
      <4> QED
        BY <3>0, <4>1, <4>2
    <3>2. \A i \in 1 .. n : /\ 2 * i - 1 \in 1 .. Len(store[s]) /\ 2 * i \in 1 .. Len(store[s])
                            /\ store'[s][2 * i - 1] = store[s][2 * i - 1]
                            /\ store'[s][2 * i] = store[s][2 * i]
      <4> TAKE i \in 1 .. n
      <4>1. 2 * i - 1 \in 1 .. Len(store[s]) /\ 2 * i \in 1 .. Len(store[s])
        BY <2>2
      <4> QED
        BY <1>4, <4>1
    <3>3. store'[s][2 * (n + 1)] = Assistant(r) /\ store'[s][2 * (n + 1) - 1] = User(r)
      BY <1>4, <2>2, <2>5
    <3>4. \A i \in 1 .. n : Turns'[s][i] = now[i]
      <4> TAKE i \in 1 .. n
      <4>1. i \in 1 .. n + 1
        OBVIOUS
      <4>2. Turns'[s][i] = [exchange |-> <<store'[s][2 * i - 1], store'[s][2 * i]>>,
                            context |-> Exchanges(seen[store'[s][2 * i].of])]
        BY <3>1, <4>1
      <4>3. now[i] = [exchange |-> <<store[s][2 * i - 1], store[s][2 * i]>>,
                      context |-> Exchanges(seen[store[s][2 * i].of])]
        BY <2>3
      <4> HIDE DEF now
      <4> QED
        BY <3>2, <4>2, <4>3
    <3>5. Turns'[s][n + 1] = turn
      <4>1. Turns'[s][n + 1] =
                [exchange |-> <<store'[s][2 * (n + 1) - 1], store'[s][2 * (n + 1)]>>,
                 context |-> Exchanges(seen[store'[s][2 * (n + 1)].of])]
        BY <3>1
      <4> HIDE DEF now
      <4> QED
        BY <1>3, <2>6, <3>3, <4>1
    <3>6. now = [i \in 1 .. n |-> now[i]]
      BY <2>3
    <3>7. Append(now, turn) = [i \in 1 .. n + 1 |-> IF i \in 1 .. n THEN now[i] ELSE turn]
      <4> HIDE DEF now, turn
      <4>1. now \in Seq({now[i] : i \in 1 .. n})
        BY <3>6
      <4> QED
        BY <2>4, <3>6, <4>1
    <3> HIDE DEF now, turn
    <3> QED
      <4>1. Turns'[s] = [i \in 1 .. n + 1 |-> Turns'[s][i]]
        BY <3>1
      <4>2. \A i \in 1 .. n + 1 : Turns'[s][i] = IF i \in 1 .. n THEN now[i] ELSE turn
        BY <3>4, <3>5
      <4> QED
        BY <3>7, <4>1, <4>2
  <2>9. \A t \in Sessions : \A i \in 1 .. Len(Turns[t]) : Turns[t][i].exchange[2] # Assistant(r)
    <3> SUFFICES ASSUME NEW t \in Sessions, NEW i \in 1 .. Len(Turns[t])
                 PROVE  Turns[t][i].exchange[2] # Assistant(r)
      OBVIOUS
    <3>1. t \notin overlapped /\ Turns[t] = TurnsOf(store[t])
      BY DEF Turns
    <3>2. PICK h \in Nat : h = Len(store[t]) \div 2
      BY <1>3, Halved DEF TypeOK
    <3>3. Turns[t] = [j \in 1 .. h |->
                         [exchange |-> <<store[t][2 * j - 1], store[t][2 * j]>>,
                          context |-> Exchanges(seen[store[t][2 * j].of])]]
      BY <3>1, <3>2, TurnsUnfolded
    <3>4. i \in 1 .. h
      BY <3>3
    <3>5. Turns[t][i] = [exchange |-> <<store[t][2 * i - 1], store[t][2 * i]>>,
                         context |-> Exchanges(seen[store[t][2 * i].of])]
      BY <3>3, <3>4
    <3>6. Turns[t][i].exchange[2] = store[t][2 * i]
      BY <3>5
    <3>7. i \in 1 .. Len(store[t]) \div 2
      BY <3>2, <3>4, Zenon
    <3>8. pc[store[t][2 * i].of] = "answered"
      BY <3>1, <3>7, TurnsAreAnswered
    <3> QED
      BY <1>2, <1>3, <3>6, <3>8
  <2>10. Turns' = [Turns EXCEPT ![s] = Append(now, turn)]
    <3>1. Turns = [t \in Sessions |-> Turns[t]] /\ Turns' = [t \in Sessions |-> Turns'[t]]
      BY DEF Turns
    <3> HIDE DEF now, turn
    <3> QED
      BY <2>7, <2>8, <3>1
  <2>11. Promise!Answer(r, s)
    BY <1>2, <1>6, <2>9, <2>10 DEF Promise!Answer
  <2> QED
    BY <2>11 DEF Promise!ConvNext
<1> QED
  BY <1>5, <1>6

LEMMA StepKeepsPromise ==
    Inv /\ SerialInv /\ ContextStands /\ [Next]_vars
        => [Promise!ConvNext]_<<Turns, overlapped>>
<1> SUFFICES ASSUME Inv, SerialInv, ContextStands, [Next]_vars
             PROVE  [Promise!ConvNext]_<<Turns, overlapped>>
  OBVIOUS
<1>1. TypeOK
  BY DEF Inv
<1>2. ASSUME NEW r \in Requests, ReadHistory(r) \/ AgentAnswers(r) \/ AgentRaises(r)
      PROVE  UNCHANGED <<Turns, overlapped>>
  <2>1. store' = store /\ overlapped' = overlapped
    BY <1>2 DEF ReadHistory, AgentAnswers, AgentRaises
  <2>2. \A q \in Requests : pc[q] = "answered" => seen'[q] = seen[q]
    BY <1>1, <1>2 DEF ReadHistory, AgentAnswers, AgentRaises, TypeOK
  <2> QED
    BY <2>1, <2>2, NoNewTurn
<1>3. ASSUME NEW r \in Requests, AppendUser(r)
      PROVE  UNCHANGED <<Turns, overlapped>>
  <2>1. PICK s \in Sessions : s = session[r]
    BY <1>1, <1>3 DEF AppendUser, TypeOK
  <2>2. /\ pc[r] = "appendUser" /\ Record(s, User(r))
        /\ UNCHANGED <<session, seen, overlapped>>
    BY <1>3, <2>1 DEF AppendUser
  <2>3. User(r) \in Message
    BY DEF User, Message, Roles
  <2>4. /\ \A t \in Sessions \ {s} : store'[t] = store[t]
        /\ Len(store[s]) \in Nat /\ Len(store'[s]) = Len(store[s]) + 1
        /\ \A i \in 1 .. Len(store[s]) : store'[s][i] = store[s][i]
    BY <1>1, <2>2, <2>3, Recording
  <2>5. s \notin overlapped => ~Odd(Len(store[s]))
    <3>1. s \notin overlapped =>
              \A q \in Requests \ {r} : session[q] = s => pc[q] \notin InFlight
      BY <2>1, <2>2 DEF SerialInv, SoleRequest, InFlight
    <3> QED
      BY <2>2, <3>1 DEF SerialInv, WholeTurns, InFlight
  <2>6. s \notin overlapped => Len(store'[s]) \div 2 = Len(store[s]) \div 2
    <3> SUFFICES ASSUME s \notin overlapped PROVE Len(store'[s]) \div 2 = Len(store[s]) \div 2
      OBVIOUS
    <3>1. PICK n \in Nat : n = Len(store[s]) \div 2 /\ Len(store[s]) = 2 * n
      BY <2>4, <2>5, Halved
    <3>2. Len(store'[s]) = 2 * n + 1
      BY <2>4, <3>1
    <3> QED
      BY <3>1, <3>2, HalfOfOdd
  <2> QED
    BY <2>2, <2>4, <2>6, NoNewTurn
<1>4. CASE Restart
  <2>1. overlapped' = {} /\ store' = [s \in Sessions |-> <<>>]
    BY <1>4 DEF Restart
  <2>2. \A s \in Sessions : TurnsOf(store[s])' = <<>>
    BY <2>1 DEF TurnsOf
  <2>3. Turns' = [s \in Sessions |-> IF s \in overlapped' THEN <<>> ELSE TurnsOf(store[s])']
    BY DEF Turns
  <2> QED
    BY <2>1, <2>2, <2>3 DEF Promise!ConvNext, Promise!Forget
<1>5. CASE UNCHANGED vars
  BY <1>5, NoNewTurn DEF vars
<1> QED
  BY <1>2, <1>3, <1>4, <1>5, PostKeepsPromise, AnswerKeepsPromise DEF Next, Step

\* However many clients there are, and however their requests interleave in a store
\* without a lock: to one that waits for its answers the service is a store of whole
\* turns, each answered in the light of all before it, recorded once, and lost only
\* with the process (chat, get_history and append_turn).
THEOREM ServiceKeepsPromise == Spec => KeepsPromise
<1>1. Init => ContextStands
  BY DEF Init, ContextStands
<1>2. Init => Promise!ConvInit
  <2> SUFFICES ASSUME Init PROVE Promise!ConvInit
    OBVIOUS
  <2>1. \A s \in Sessions : TurnsOf(store[s]) = <<>>
    BY DEF Init, TurnsOf
  <2> QED
    BY <2>1 DEF Init, Turns, Promise!ConvInit
<1>3. Spec => [](Inv /\ SerialInv /\ ContextStands)
  BY <1>1, InitInv, NextInv, InitSerial, NextSerial, NextContext, PTL DEF Spec
<1> QED
  BY <1>2, <1>3, StepKeepsPromise, PTL DEF Spec, KeepsPromise, Promise!ConvSpec

\* And so it is to one beside the page, and to the page itself.
THEOREM PageKeepsPromise == UISpec => KeepsPromise
  BY PageImplementsClient, ServiceKeepsPromise
=============================================================================
