------------------------------- MODULE Rules -------------------------------
(* The rulebook and the approvals of a session (src/src/rule.rs, Book).    *)
(* A request names a tool, the role that asks, a command with the parts a  *)
(* shell would run one after the other, a path, a project and a detail (a  *)
(* signature of the content).  A pattern is the set of what it matches: a  *)
(* command pattern a set of commands and parts, a path pattern one set of  *)
(* paths for each project, because {project} is replaced when a request is *)
(* matched.  Splitting a command into parts and reading their words is the *)
(* business of the instance, which says of every part whether it inspects. *)
EXTENDS Naturals, Sequences

CONSTANTS
    Rulebook,    \* sequence of rules: [id, tool, command, path, action]
    Home,        \* paths inside the home directory
    Inspection,  \* parts of a command that only read
    None

ReadOnly(request) ==
    /\ request.parts # {}
    /\ request.parts \subseteq Inspection

MatchesPath(rule, request) ==
    rule.path = None \/ request.path \in rule.path[request.project]

\* An allowing rule has to cover every part of a command, any other rule the
\* command or one of its parts.
MatchesCommand(rule, request) ==
    \/ rule.command = None
    \/ /\ request.command # None
       /\ \/ /\ rule.action = "allow"
             /\ request.parts # {}
             /\ request.parts \subseteq rule.command
          \/ /\ rule.action # "allow"
             /\ ({request.command} \cup request.parts) \cap rule.command # {}

Matches(rule, request) ==
    /\ rule.tool = request.tool
    /\ MatchesPath(rule, request)
    /\ MatchesCommand(rule, request)

Matched(request, action) ==
    {i \in DOMAIN Rulebook :
        Rulebook[i].action = action /\ Matches(Rulebook[i], request)}

Fingerprint(request) ==
    <<request.tool, request.role, request.command, request.path, request.detail>>

\* The rule that asks is the first one that matches.
AskedBy(request) ==
    IF Matched(request, "ask") = {} THEN "unmatched"
    ELSE Rulebook[CHOOSE i \in Matched(request, "ask") :
                    \A j \in Matched(request, "ask") : i <= j].id

AllowKey(request) == <<AskedBy(request), Fingerprint(request)>>

Refused(request) ==
    \/ /\ request.role = "explorer"
       /\ request.tool = "shell"
       /\ request.detail # None \/ ~ReadOnly(request)
    \/ request.path \notin Home
    \/ Matched(request, "deny") # {}

\* allowed: the keys of the approvals given for the session.
Decide(request, allowed) ==
    IF Refused(request) THEN "deny"
    ELSE IF AllowKey(request) \in allowed \/ Matched(request, "allow") # {} THEN "allow"
    ELSE "ask"

\* What Book::open accepts: every rule has a pattern, only a shell rule has a
\* command pattern, no id is used twice.
ValidRulebook ==
    /\ \A i, j \in DOMAIN Rulebook : Rulebook[i].id = Rulebook[j].id => i = j
    /\ \A i \in DOMAIN Rulebook :
        /\ Rulebook[i].command # None \/ Rulebook[i].path # None
        /\ Rulebook[i].tool # "shell" => Rulebook[i].command = None
        /\ Rulebook[i].action \in {"allow", "ask", "deny"}

ASSUME RulebookAssumption == ValidRulebook

=============================================================================
