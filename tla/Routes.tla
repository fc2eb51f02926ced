------------------------------- MODULE Routes -------------------------------
(***************************************************************************)
(* The pure part of routing: which routes conflict when a service is       *)
(* stored (parser/toml/validate.go), which sets of routes the ingress      *)
(* accepts, and which route answers a request (ingress/router.go).         *)
(*                                                                         *)
(* A path is a sequence of characters; a glob is one that may end in "*".  *)
(* A service is a pair of a project and a name; an entry is a route        *)
(* together with the service that declares it.                             *)
(***************************************************************************)
EXTENDS Naturals, Sequences

CONSTANTS Projects, Names, Hosts, Globs, Ports, Chars

Strategies == {"", "random", "round-robin"}

\* l4 is empty for HTTP routes; port is for the others.
Route == [l4: {"", "tcp", "udp"}, host: Hosts, path: Globs, port: Ports, lb: Strategies]

Service == Projects \X Names
ProjectOf(s) == s[1]

Entry == [svc: Service, route: Route]

ASSUME RoutesAssumption ==
  /\ Projects \subseteq Nat /\ Globs \subseteq Seq(Chars) /\ {"/", "*"} \subseteq Chars

-----------------------------------------------------------------------------
(* Conflicts. *)

\* routesConflict: the check an upsert makes against every stored route. It
\* looks at host and path only, whatever the protocol.
RoutesConflict(a, b, aProject, bProject) ==
  a.host = b.host /\ (aProject # bProject \/ a.path = b.path)

\* Two entries that BuildRouter refuses to hold together. (It also refuses one
\* service that declares the very same route twice: sets have no duplicates.)
Clash(e, f) ==
  LET a == e.route  b == f.route
  IN  \/ a.l4 # "" /\ a.l4 = b.l4 /\ a.port = b.port
      \/ /\ a.l4 = "" /\ b.l4 = "" /\ a.host = b.host
         /\ ProjectOf(e.svc) # ProjectOf(f.svc) \/ a.path = b.path

\* Wrong form of Accepts: hosts shared between projects pass.
AcceptsShared(es) ==
  \A e, f \in es :
    e # f /\ Clash(e, f) => e.route.l4 = "" /\ ProjectOf(e.svc) # ProjectOf(f.svc)

\* BuildRouter returns a table and no error.
Accepts(es) == \A e, f \in es : e # f => ~Clash(e, f)

-----------------------------------------------------------------------------
(* Lookup. *)

HasPrefix(s, p) == Len(p) <= Len(s) /\ SubSeq(s, 1, Len(p)) = p

IsWild(glob) == glob # <<>> /\ glob[Len(glob)] = "*"

\* glob without its last n characters
Cut(glob, n) == SubSeq(glob, 1, Len(glob) - n)

\* "/v1/*": everything under /v1, and /v1 itself.
IsUnder(glob) == IsWild(glob) /\ Len(glob) > 1 /\ glob[Len(glob) - 1] = "/"

MatchPath(glob, path) ==
  \/ glob = <<>>
  \/ IsUnder(glob) /\ (path = Cut(glob, 2) \/ HasPrefix(path, Cut(glob, 1)))
  \/ IsWild(glob) /\ ~IsUnder(glob) /\ HasPrefix(path, Cut(glob, 1))
  \/ ~IsWild(glob) /\ glob = path

Matching(es, host, path) ==
  {e \in es : e.route.l4 = "" /\ e.route.host = host /\ MatchPath(e.route.path, path)}

\* Wrong form of Outranks: the shortest glob comes first.
OutranksShort(g, h) == Len(g) < Len(h) \/ (Len(g) = Len(h) /\ ~IsWild(g) /\ IsWild(h))

\* The sort of BuildRouter: longer globs first, exact ones before wildcards of
\* the same length. (Further ties are broken by name, of which none matters.)
Outranks(g, h) == Len(g) > Len(h) \/ (Len(g) = Len(h) /\ ~IsWild(g) /\ IsWild(h))

\* LookupL7: the entries that can come first among the matching ones.
LookupL7(es, host, path) ==
  {e \in Matching(es, host, path) :
     \A f \in Matching(es, host, path) : ~Outranks(f.route.path, e.route.path)}
=============================================================================
