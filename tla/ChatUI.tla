------------------------------- MODULE ChatUI -------------------------------
(***************************************************************************)
(* The Streamlit page of the chat, composed with the service it talks to.   *)
(* The page is a script that runs from top to bottom on every interaction;  *)
(* what it keeps between two runs is its session state.  A run blocks on    *)
(* POST /chat or on GET history, without a time-out, and the user can go on *)
(* clicking and typing: Streamlit stops the run and starts the next one at  *)
(* once beside it (runner.fastReruns, its default).  A run that is stopped  *)
(* ends where it next calls st or touches the session state, so it changes  *)
(* nothing more, and the request it sent goes on in the service.            *)
(*                                                                          *)
(* One action is what a run does from one such point to the next.  A run is *)
(* idle once nothing is left in it that changes the session state.  Other   *)
(* clients of the service post beside the page.  A request that never       *)
(* reaches the service is one whose thread takes no step.                   *)
(***************************************************************************)
EXTENDS ChatService

NoRequest == "none"
ASSUME RequestsAssumption == NoRequest \notin Requests

VARIABLES
    active,    \* the conversation the page is in, NoSession for a new one
    listed,    \* the conversations in the sidebar
    displayed, \* the messages in the main area
    script,    \* what the run of the script is about to do, or blocked on
    waiting,   \* the request it is for
    asked,     \* the requests the page has displayed a question for so far
    abandoned, \* those of them that nobody on the page waits for any more
    torn       \* a run was stopped between changing active and displayed

server == <<known, store, pc, session, seen, overlapped>>
page == <<active, listed, displayed, script, waiting, asked, abandoned, torn>>
uiVars == <<known, store, pc, session, seen, overlapped,
            active, listed, displayed, script, waiting, asked, abandoned, torn>>

Switching == {"clearing", "fetching"}
Answering == {"recording", "activating"}
OfRequest == {"asking", "sending"} \cup Answering

UITypeOK ==
    /\ TypeOK
    /\ active \in Sessions \cup {NoSession}
    /\ listed \subseteq Sessions
    /\ displayed \in Seq(Message)
    /\ script \in {"idle"} \cup Switching \cup OfRequest
    /\ waiting \in Requests \cup {NoRequest}
    /\ script \in OfRequest <=> waiting # NoRequest
    /\ asked \subseteq Requests
    /\ abandoned \subseteq asked
    /\ torn \in BOOLEAN

NewPage ==
    /\ active = NoSession /\ listed = {} /\ displayed = <<>>
    /\ script = "idle" /\ waiting = NoRequest /\ torn = FALSE

UIInit == Init /\ NewPage /\ asked = {} /\ abandoned = {}

\* The run of the script ends.
Rest == script' = "idle" /\ waiting' = NoRequest

\* Another list of messages takes the place of what is displayed.
Display(messages) == displayed' = messages /\ torn' = FALSE

\* A request in the service whose run ends is waited for no more.
Abandon == abandoned' = abandoned \cup {r \in asked : r = waiting /\ pc[r] \in InFlight}

\* The button "New chat": no conversation is active, then its messages go.
NewChat ==
    /\ script = "idle"
    /\ active' = NoSession
    /\ script' = "clearing"
    /\ UNCHANGED <<server, listed, displayed, waiting, asked, abandoned, torn>>

ClearMessages ==
    /\ script = "clearing"
    /\ Display(<<>>)
    /\ Rest
    /\ UNCHANGED <<server, active, listed, asked, abandoned>>

\* A conversation in the sidebar: it becomes active before its history is here.
Open(s) ==
    /\ script = "idle"
    /\ s \in listed
    /\ active' = s
    /\ script' = "fetching"
    /\ UNCHANGED <<server, listed, displayed, waiting, asked, abandoned, torn>>

\* Mutant: the history is added to what is displayed.
HistoryExtends ==
    /\ script = "fetching"
    /\ active \in known
    /\ Display(displayed \o store[active])
    /\ Rest
    /\ UNCHANGED <<server, active, listed, asked, abandoned>>

\* The history of a session the service knows replaces what is displayed.
HistoryArrives ==
    /\ script = "fetching"
    /\ active \in known
    /\ Display(store[active])
    /\ Rest
    /\ UNCHANGED <<server, active, listed, asked, abandoned>>

\* A 404 or no connection: an error is shown, and no messages.
HistoryFails ==
    /\ script = "fetching"
    /\ Display(<<>>)
    /\ Rest
    /\ UNCHANGED <<server, active, listed, asked, abandoned>>

\* A question is displayed.
Ask(r) ==
    /\ script = "idle"
    /\ r \notin asked
    /\ pc[r] = "idle"
    /\ displayed' = Append(displayed, User(r))
    /\ script' = "asking"
    /\ waiting' = r
    /\ asked' = asked \cup {r}
    /\ UNCHANGED <<server, active, listed, abandoned, torn>>

\* The session a request without a header gets: one that nobody has used.
Fresh(s) == s \notin known /\ \A r \in Requests : session[r] # s

\* Mutant: the page never sends the header.
SendWithoutHeader(r) ==
    /\ script = "asking" /\ waiting = r
    /\ \E s \in Sessions : Fresh(s) /\ Post(r, s)
    /\ script' = "sending"
    /\ UNCHANGED <<active, listed, displayed, waiting, asked, abandoned, torn>>

\* Mutant: in a conversation there is, a thread of its own sends the question, and
\* the script goes on.
SendInBackground(r) ==
    /\ script = "asking" /\ waiting = r
    /\ \E s \in Sessions :
           /\ IF active = NoSession THEN Fresh(s) ELSE s = active
           /\ Post(r, s)
    /\ IF active = NoSession THEN script' = "sending" /\ UNCHANGED waiting ELSE Rest
    /\ UNCHANGED <<active, listed, displayed, asked, abandoned, torn>>

\* The question is sent, in the conversation that is active by then.
Send(r) ==
    /\ script = "asking" /\ waiting = r
    /\ \E s \in Sessions :
           /\ IF active = NoSession THEN Fresh(s) ELSE s = active
           /\ Post(r, s)
    /\ script' = "sending"
    /\ UNCHANGED <<active, listed, displayed, waiting, asked, abandoned, torn>>

\* The answer is displayed.
AnswerArrives ==
    /\ script = "sending"
    /\ pc[waiting] = "answered"
    /\ displayed' = Append(displayed, Assistant(waiting))
    /\ script' = "recording"
    /\ UNCHANGED <<server, active, listed, waiting, asked, abandoned, torn>>

\* The first answer of a new conversation puts it in the sidebar.
RegisterConversation ==
    /\ script = "recording"
    /\ active = NoSession
    /\ listed' = listed \cup {session[waiting]}
    /\ script' = "activating"
    /\ UNCHANGED <<server, active, displayed, waiting, asked, abandoned, torn>>

\* The conversation of the answer is the active one.
Activate ==
    /\ script = "activating" \/ (script = "recording" /\ active # NoSession)
    /\ active' = session[waiting]
    /\ Rest
    /\ UNCHANGED <<server, listed, displayed, asked, abandoned, torn>>

\* A 500, or a connection that breaks at any time: an error is shown, and the
\* question stays without an answer.
SendFails ==
    /\ script = "sending"
    /\ Rest
    /\ Abandon
    /\ UNCHANGED <<server, active, listed, displayed, asked, torn>>

\* The user clicks or types before the run is over, which is stopped for good.  Which
\* interaction it is shows in what the next run does.
Interact ==
    /\ script # "idle"
    /\ Rest
    /\ Abandon
    /\ torn' = \/ torn
               \/ script \in Switching
               \/ script \in Answering /\ active = NoSession
    /\ UNCHANGED <<server, active, listed, displayed, asked>>

\* The tab is closed, and another opened: its session state is gone.
Reopen ==
    /\ active' = NoSession /\ listed' = {}
    /\ Display(<<>>)
    /\ Rest
    /\ Abandon
    /\ UNCHANGED <<server, asked>>

Browse ==
    \/ NewChat \/ ClearMessages
    \/ (\E s \in Sessions : Open(s)) \/ HistoryArrives \/ HistoryFails
    \/ (\E r \in Requests : Ask(r)) \/ AnswerArrives \/ RegisterConversation \/ Activate
    \/ SendFails \/ Interact \/ Reopen

Serve ==
    /\ \/ Restart
       \/ \E r \in Requests :
              \/ r \notin asked /\ \E s \in Sessions : Post(r, s)
              \/ ReadHistory(r) \/ AgentAnswers(r) \/ AgentRaises(r)
              \/ AppendUser(r) \/ AppendAssistant(r)
    /\ UNCHANGED page

UINext == Serve \/ Browse \/ \E r \in Requests : Send(r)

UISpec == UIInit /\ [][UINext]_uiVars

(***************************************************************************)
(* Properties                                                              *)
(***************************************************************************)
\* The conversation the page is about: while an answer is being recorded, the one the
\* answer came from.
Shown == IF script \in Answering THEN session[waiting] ELSE active

\* Outside a switch, the answers on the page are those of the conversation the next
\* question goes to, through failures, restarts of the service and runs the user
\* stopped; but for a run stopped between the two halves of a change of conversation,
\* until the messages are next replaced.
AnswersBelongToActive ==
    (script \notin Switching /\ ~torn) => \A i \in 1 .. Len(displayed) :
        displayed[i].role = "assistant" => session[displayed[i].of] = Shown

\* The agent knows what the user sees: a question is answered from a history
\* that holds every answer on the page, unless the service has lost it, or a run
\* was stopped halfway through a change of conversation.
AgentKnowsWhatIsShown ==
    (~torn /\ script = "sending" /\ pc[waiting] \in {"invoke", "appendUser"}) =>
        \A i \in 1 .. Len(displayed) :
            (displayed[i].role = "assistant" /\ pc[displayed[i].of] = "answered")
                => Holds(seen[waiting], displayed[i])

\* The page of a user who waits does not race with itself: two requests of a
\* conversation are only in flight at once when one came from elsewhere, or when the
\* user clicked on, left the page or lost the connection before its answer was there.
PatientUsersAreSerial ==
    \A s \in overlapped : \E r \in Requests :
        session[r] = s /\ (r \in abandoned \/ r \notin asked)

=============================================================================
