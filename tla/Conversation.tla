---------------------------- MODULE Conversation ----------------------------
(* What the session promises for what it has written down: one turn at a     *)
(* time is answered, the answer grows by the next chunk and closes once, and *)
(* what is closed stays as it is.                                            *)
EXTENDS Naturals, Sequences

CONSTANTS Call, Query

VARIABLES answer, asked

talk == <<answer, asked>>

Final == {"done", "failed", "cancelled"}

Init == /\ answer = [c \in Call |-> [status |-> "absent", text |-> <<>>]]
        /\ asked = {}

Answering(c) == answer[c].status = "running"

Open(c, q) == /\ answer[c].status = "absent"
              /\ \A d \in Call : ~Answering(d)
              /\ answer' = [answer EXCEPT ![c].status = "running"]
              /\ asked' = asked \cup {<<q, c>>}

\* A message typed while a turn runs belongs to that turn.
Steer(c, q) == /\ Answering(c)
               /\ asked' = asked \cup {<<q, c>>}
               /\ UNCHANGED answer

\* Chunks arrive in the order they were sent, and none is missing.
Grow(c) == /\ Answering(c)
           /\ answer' = [answer EXCEPT ![c].text = Append(@, Len(@) + 1)]
           /\ UNCHANGED asked

Close(c, how) == /\ Answering(c)
                 /\ answer' = [answer EXCEPT ![c].status = how]
                 /\ UNCHANGED asked

Next == \E c \in Call : \/ \E q \in Query : Open(c, q) \/ Steer(c, q)
                        \/ Grow(c)
                        \/ \E how \in Final : Close(c, how)

Spec == Init /\ [][Next]_talk
=============================================================================
