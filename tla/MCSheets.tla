------------------------------ MODULE MCSheets ------------------------------
EXTENDS Sheets

CONSTANTS c1, w1, w2, s1, w3, s2

\* A question, two equal writes outside the project, a command that asks, a write
\* inside the project, and a command of an explorer that does more than read.
Kinds == [r \in Req |-> CASE r = c1         -> "clarify"
                          [] r \in {s1, s2} -> "shell"
                          [] OTHER          -> "file"]

Write == [tool |-> "write", role |-> None, command |-> None, parts |-> {},
          path |-> "outside", project |-> "p", detail |-> "text"]
Push  == [tool |-> "shell", role |-> "worker", command |-> "ls; push", parts |-> {"ls", "push"},
          path |-> "inside", project |-> "p", detail |-> None]

Requests == [r \in Req |-> CASE r = s1 -> Push
                             [] r = s2 -> [Push EXCEPT !.role = "explorer"]
                             [] r = w3 -> [Write EXCEPT !.path = "inside"]
                             [] OTHER  -> Write]

Together == {{w1, w2}, {c1, s1}, {w3, s2}}

Rules1 == <<
    [id |-> "ask-push", tool |-> "shell", command |-> {"push"}, path |-> None, action |-> "ask"],
    [id |-> "allow-inside", tool |-> "write", command |-> None, path |-> [p |-> {"inside"}],
     action |-> "allow"],
    [id |-> "allow-ls", tool |-> "shell", command |-> {"ls"}, path |-> None, action |-> "allow"] >>
=============================================================================
