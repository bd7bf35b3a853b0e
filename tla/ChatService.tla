---------------------------- MODULE ChatService ----------------------------
(***************************************************************************)
(* The chat endpoints of the API over the in-memory session store.  FastAPI *)
(* runs every POST /chat in a thread of its own and the store has no lock,  *)
(* so requests interleave between the calls that touch the store: reading   *)
(* the history, and the two appends of append_turn.  One action is what a   *)
(* thread does between two of these points.                                 *)
(*                                                                          *)
(* A message is known by its role and the request it belongs to.  GET       *)
(* /chat/{session_id}/history changes nothing: 404 for a session that is    *)
(* not known, and its messages for one that is.                             *)
(***************************************************************************)
EXTENDS Naturals, Sequences

CONSTANTS
    Requests,   \* POST /chat requests
    Sessions    \* session identifiers, the client's or generated

Roles == {"user", "assistant"}
Message == [role : Roles, of : Requests]
User(r) == [role |-> "user", of |-> r]
Assistant(r) == [role |-> "assistant", of |-> r]

NoSession == "none"
ASSUME SessionsAssumption == NoSession \notin Sessions

\* Where a thread is; then how its request ended.
InFlight == {"read", "invoke", "appendUser", "appendAssistant"}
Ended == {"answered", "failed", "lost"}

VARIABLES
    known,      \* the keys of SessionStore.sessions
    store,      \* the message list under each key
    pc,         \* what each request does next
    session,    \* the session each request is for
    seen,       \* the messages each request passed to the agent
    overlapped  \* sessions that had two requests in flight at once

vars == <<known, store, pc, session, seen, overlapped>>

TypeOK ==
    /\ known \subseteq Sessions
    /\ store \in [Sessions -> Seq(Message)]
    /\ \A s \in Sessions \ known : store[s] = <<>>
    /\ pc \in [Requests -> {"idle"} \cup InFlight \cup Ended]
    /\ session \in [Requests -> Sessions \cup {NoSession}]
    /\ \A r \in Requests : pc[r] # "idle" => session[r] \in Sessions
    /\ seen \in [Requests -> Seq(Message)]
    /\ overlapped \subseteq Sessions

Init ==
    /\ known = {}
    /\ store = [s \in Sessions |-> <<>>]
    /\ pc = [r \in Requests |-> "idle"]
    /\ session = [r \in Requests |-> NoSession]
    /\ seen = [r \in Requests |-> <<>>]
    /\ overlapped = {}

Goto(r, step) == pc' = [pc EXCEPT ![r] = step]
Record(s, message) == store' = [store EXCEPT ![s] = Append(@, message)]

\* The Session-Id header is any identifier the client likes; a generated one
\* is a session nobody has named yet.
Post(r, s) ==
    /\ pc[r] = "idle"
    /\ Goto(r, "read")
    /\ session' = [session EXCEPT ![r] = s]
    /\ overlapped' = overlapped \cup
           {t \in {s} : \E q \in Requests : pc[q] \in InFlight /\ session[q] = s}
    /\ UNCHANGED <<known, store, seen>>

\* Mutant: only the last turn is given to the agent.
ReadLastTurn(r) ==
    /\ pc[r] = "read"
    /\ known' = known \cup {session[r]}
    /\ seen' = [seen EXCEPT ![r] =
           LET history == store[session[r]]
           IN  IF Len(history) > 2
               THEN SubSeq(history, Len(history) - 1, Len(history))
               ELSE history]
    /\ Goto(r, "invoke")
    /\ UNCHANGED <<store, session, overlapped>>

\* get_history creates the session, with no messages, before there is a turn
\* to record in it.  The copy iterates over the live list, so it holds what
\* is there when it ends.
ReadHistory(r) ==
    /\ pc[r] = "read"
    /\ known' = known \cup {session[r]}
    /\ seen' = [seen EXCEPT ![r] = store[session[r]]]
    /\ Goto(r, "invoke")
    /\ UNCHANGED <<store, session, overlapped>>

\* agent.invoke, see AgentGraph: an answer, the fallback message included.
AgentAnswers(r) ==
    /\ pc[r] = "invoke"
    /\ Goto(r, "appendUser")
    /\ UNCHANGED <<known, store, session, seen, overlapped>>

\* An exception of the agent is the client's 500, and nothing is recorded.
AgentRaises(r) ==
    /\ pc[r] = "invoke"
    /\ Goto(r, "failed")
    /\ UNCHANGED <<known, store, session, seen, overlapped>>

\* Mutant: the turn is added to the copy read before the agent ran.
AppendUserToCopy(r) ==
    /\ pc[r] = "appendUser"
    /\ known' = known \cup {session[r]}
    /\ store' = [store EXCEPT ![session[r]] = Append(seen[r], User(r))]
    /\ Goto(r, "appendAssistant")
    /\ UNCHANGED <<session, seen, overlapped>>

\* append_turn, the first of its two appends.
AppendUser(r) ==
    /\ pc[r] = "appendUser"
    /\ known' = known \cup {session[r]}
    /\ Record(session[r], User(r))
    /\ Goto(r, "appendAssistant")
    /\ UNCHANGED <<session, seen, overlapped>>

\* append_turn, the second append, and the response.
AppendAssistant(r) ==
    /\ pc[r] = "appendAssistant"
    /\ Record(session[r], Assistant(r))
    /\ Goto(r, "answered")
    /\ UNCHANGED <<known, session, seen, overlapped>>

\* The process ends and is started again: the store and every thread are gone.
Restart ==
    /\ known' = {}
    /\ store' = [s \in Sessions |-> <<>>]
    /\ pc' = [r \in Requests |->
                  IF pc[r] \in InFlight \cup {"answered"} THEN "lost" ELSE pc[r]]
    /\ overlapped' = {}
    /\ UNCHANGED <<session, seen>>

Step(r) ==
    \/ \E s \in Sessions : Post(r, s)
    \/ ReadHistory(r) \/ AgentAnswers(r) \/ AgentRaises(r)
    \/ AppendUser(r) \/ AppendAssistant(r)

Next == Restart \/ \E r \in Requests : Step(r)

Spec == Init /\ [][Next]_vars

(***************************************************************************)
(* Properties                                                              *)
(***************************************************************************)
Holds(history, message) ==
    \E i \in 1 .. Len(history) : history[i] = message

\* A turn the client was given an answer for stays in its conversation, once
\* and question first, whatever other requests of the session were doing
\* between the read of the history and the two appends.
AnsweredTurnsAreKept ==
    \A r \in Requests : pc[r] = "answered" =>
        \E i, j \in 1 .. Len(store[session[r]]) :
            /\ i < j
            /\ store[session[r]][i] = User(r)
            /\ store[session[r]][j] = Assistant(r)

\* No message is recorded twice.
NoMessageTwice ==
    \A s \in Sessions : \A i, j \in 1 .. Len(store[s]) :
        store[s][i] = store[s][j] => i = j

\* A request that got a 500 leaves no half turn behind (chat.py appends only
\* after agent.invoke returned).
FailedTurnsLeaveNothing ==
    \A r \in Requests, s \in Sessions : pc[r] = "failed" =>
        ~Holds(store[s], User(r)) /\ ~Holds(store[s], Assistant(r))

\* No message crosses over: a session's history, and what the agent was told
\* of it, hold messages of that session's requests only.
SessionsAreIsolated ==
    /\ \A s \in Sessions : \A i \in 1 .. Len(store[s]) :
           session[store[s][i].of] = s
    /\ \A r \in Requests : \A i \in 1 .. Len(seen[r]) :
           session[seen[r][i].of] = session[r]

\* A history is its answered turns, in any interleaving of the requests of a session,
\* whose store has no lock: each is there and once, and there is nothing else, no half
\* of a turn that failed and no message of another session, in the store or in what
\* the agent reads of it.
HistoriesMatchTurns ==
    /\ AnsweredTurnsAreKept /\ NoMessageTwice
    /\ FailedTurnsLeaveNothing /\ SessionsAreIsolated

Odd(n) == n % 2 = 1

\* Message i of a history is where a conversation of whole turns has it.
InTurn(history, i) ==
    IF Odd(i) THEN history[i].role = "user"
    ELSE /\ history[i].role = "assistant"
         /\ history[i].of = history[i - 1].of

\* A client that waits for each answer has whole turns in its history, in
\* order; at most the turn being recorded is incomplete.
SerialSessionsAlternate ==
    \A s \in Sessions \ overlapped : \A i \in 1 .. Len(store[s]) :
        InTurn(store[s], i)

\* Such a client's question is answered from the whole conversation so far.
SerialContextIsComplete ==
    \A r \in Requests :
        (pc[r] \in {"invoke", "appendUser"} /\ session[r] \notin overlapped)
            => seen[r] = store[session[r]]

\* To a client that waits for its answers a session is a conversation: the
\* history alternates, and every question is answered in the light of all of it.
SerialSessionsAreConversations == SerialSessionsAlternate /\ SerialContextIsComplete

\* The whole turns of a history, each with those the agent was told of when it answered.
Exchanges(history) ==
    [i \in 1 .. Len(history) \div 2 |-> <<history[2 * i - 1], history[2 * i]>>]
TurnsOf(history) ==
    [i \in 1 .. Len(history) \div 2 |->
        [exchange |-> Exchanges(history)[i],
         context |-> Exchanges(seen[history[2 * i].of])]]

Turns == [s \in Sessions |-> IF s \in overlapped THEN <<>> ELSE TurnsOf(store[s])]

Promise == INSTANCE Conversations
    WITH Question <- User, Reply <- Assistant, turns <- Turns, raced <- overlapped

\* The store without a lock, written in two appends after a read long before, is to a
\* client that waits for its answers one that takes whole turns, each answered in the
\* light of all before it, and loses them only with the process.
KeepsPromise == Promise!ConvSpec
=============================================================================
