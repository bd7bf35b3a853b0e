--------------------------- MODULE Conversations ---------------------------
(***************************************************************************)
(* What the chat service promises a client that waits for each answer      *)
(* before it asks again: a conversation grows by whole turns, one at a     *)
(* time, and each is answered in the light of all those before it.  Only   *)
(* the end of the process takes turns away.  To a client that does not     *)
(* wait nothing of this is promised.                                       *)
(***************************************************************************)
EXTENDS Sequences, Naturals

CONSTANTS
    Requests,       \* what clients ask for
    Sessions,       \* conversations
    Question(_),    \* the two messages of a request
    Reply(_)

VARIABLES
    turns,      \* the turns of each conversation, in order: the two messages exchanged
                \*   and the exchanges its reply took into account
    raced       \* conversations whose client did not wait

ConvInit == turns = [s \in Sessions |-> <<>>] /\ raced = {}

ExchangesOf(conversation) == [i \in 1 .. Len(conversation) |-> conversation[i].exchange]

Answer(r, s) ==
    /\ s \notin raced
    /\ \A t \in Sessions : \A i \in 1 .. Len(turns[t]) : turns[t][i].exchange[2] # Reply(r)
    /\ turns' = [turns EXCEPT ![s] =
                     Append(@, [exchange |-> <<Question(r), Reply(r)>>,
                                context |-> ExchangesOf(@)])]
    /\ UNCHANGED raced

Race(s) ==
    /\ raced' = raced \cup {s}
    /\ turns' = [turns EXCEPT ![s] = <<>>]

Forget == turns' = [s \in Sessions |-> <<>>] /\ raced' = {}

ConvNext ==
    \/ \E r \in Requests, s \in Sessions : Answer(r, s)
    \/ \E s \in Sessions : Race(s)
    \/ Forget

ConvSpec == ConvInit /\ [][ConvNext]_<<turns, raced>>
=============================================================================
