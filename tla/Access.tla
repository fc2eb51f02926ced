------------------------------- MODULE Access -------------------------------
(***************************************************************************)
(* The policy decision of auth/dbpolicy: which verbs on which resources a  *)
(* role grants, and the requests no policy can grant.                      *)
(***************************************************************************)
EXTENDS Naturals

CONSTANTS Projects, AnyProject, NoProject

ASSUME AccessAssumption ==
  AnyProject \notin Projects /\ NoProject \notin Projects \cup {AnyProject}

Roles == {"admin", "editor", "viewer", "agent"}
Kinds == {"service", "job", "secret", "project", "policy", "subject", "node"}
Verbs == {"get", "list", "create", "update", "delete", "exec", "logs"}

Policy == [role: Roles, project: Projects \cup {AnyProject}]
AuthzRequest == [verb: Verbs, kind: Kinds, project: Projects \cup {NoProject}]

IsProjectScoped(kind) == kind \in {"service", "job", "secret"}
IsRead(verb) == verb \in {"get", "list"}

\* matches: policy p grants request q.
Matches(p, q) ==
  \/ /\ p.role = "admin"
     /\ p.project \in {AnyProject, q.project} \/ ~IsProjectScoped(q.kind)
  \/ /\ p.role = "editor" /\ p.project = q.project
     /\ \/ IsProjectScoped(q.kind)
        \/ q.kind \in {"project", "policy", "subject"} /\ IsRead(q.verb)
  \/ p.role = "viewer" /\ p.project = q.project /\ IsRead(q.verb)
  \/ /\ p.role = "agent"
     /\ \/ q.kind \in {"service", "job"} /\ IsRead(q.verb)
        \/ q.kind = "node" /\ q.verb \in {"update", "get"}

\* Authorize, for a subject with these policies.
Authorize(policies, q) ==
  /\ IsProjectScoped(q.kind) => q.project # NoProject
  /\ \E p \in policies : Matches(p, q)
=============================================================================
