--------------------------- MODULE IngressProofs ---------------------------
(***************************************************************************)
(* What holds of the routing layer for any services, routes, handlers and  *)
(* requests: a request has one route at most (OneRoute), the narrowest one *)
(* (MostSpecific), and a host does not change projects behind its owner's  *)
(* back (KeepsHost).                                                       *)
(***************************************************************************)
EXTENDS Ingress, TLAPS

\* A glob without its end, character by character.
LEMMA CutOf ==
  ASSUME NEW g \in Seq(Chars), NEW n \in Nat, n <= Len(g)
  PROVE  /\ Cut(g, n) \in Seq(Chars) /\ Len(Cut(g, n)) = Len(g) - n
         /\ \A i \in 1 .. Len(g) - n : Cut(g, n)[i] = g[i]
<1>1. PICK m \in Nat : m = Len(g) - n /\ m <= Len(g)
  OBVIOUS
<1>2. /\ SubSeq(g, 1, m) \in Seq(Chars) /\ Len(SubSeq(g, 1, m)) = m
      /\ \A i \in 1 .. m : SubSeq(g, 1, m)[i] = g[i]
  BY <1>1
<1> QED  BY <1>1, <1>2 DEF Cut

\* What a wildcard says of a path it matches: the path begins with all of it but
\* the star, or is all of it but the slash and the star.
LEMMA WildMatch ==
  ASSUME NEW g \in Seq(Chars), NEW path \in Seq(Chars), IsWild(g), MatchPath(g, path)
  PROVE  /\ Len(g) \in Nat /\ Len(g) >= 1 /\ g[Len(g)] = "*"
         /\ \/ /\ Len(path) >= Len(g) - 1
               /\ \A i \in 1 .. Len(g) - 1 : g[i] = path[i]
            \/ /\ Len(path) = Len(g) - 2 /\ Len(g) >= 2 /\ g[Len(g) - 1] = "/"
               /\ \A i \in 1 .. Len(g) - 2 : g[i] = path[i]
<1>1. Len(g) \in Nat /\ Len(g) >= 1 /\ g[Len(g)] = "*"
  BY DEF IsWild
<1>2. Len(Cut(g, 1)) = Len(g) - 1 /\ \A i \in 1 .. Len(g) - 1 : Cut(g, 1)[i] = g[i]
  BY <1>1, CutOf
<1>3. CASE HasPrefix(path, Cut(g, 1))
  <2>1. Len(g) - 1 <= Len(path) /\ SubSeq(path, 1, Len(g) - 1) = Cut(g, 1)
    BY <1>2, <1>3 DEF HasPrefix
  <2>2. \A i \in 1 .. Len(g) - 1 : SubSeq(path, 1, Len(g) - 1)[i] = path[i]
    BY <1>1, <2>1
  <2> QED  BY <1>1, <1>2, <2>1, <2>2
<1>4. CASE IsUnder(g) /\ path = Cut(g, 2)
  <2>1. Len(g) >= 2 /\ g[Len(g) - 1] = "/"
    BY <1>1, <1>4 DEF IsUnder
  <2>2. Len(Cut(g, 2)) = Len(g) - 2 /\ \A i \in 1 .. Len(g) - 2 : Cut(g, 2)[i] = g[i]
    BY <1>1, <2>1, CutOf
  <2> QED  BY <1>1, <1>4, <2>1, <2>2
<1> QED  BY <1>3, <1>4 DEF MatchPath, IsWild

\* And what is enough for it to match.
LEMMA WildMatches ==
  ASSUME NEW g \in Seq(Chars), NEW path \in Seq(Chars), IsWild(g),
         Len(path) >= Len(g) - 1, \A i \in 1 .. Len(g) - 1 : g[i] = path[i]
  PROVE  MatchPath(g, path)
<1>1. Len(g) \in Nat /\ Len(g) >= 1 /\ Len(path) \in Nat
  BY DEF IsWild
<1>2. /\ Cut(g, 1) \in Seq(Chars) /\ Len(Cut(g, 1)) = Len(g) - 1
      /\ \A i \in 1 .. Len(g) - 1 : Cut(g, 1)[i] = g[i]
  BY <1>1, CutOf
<1> DEFINE start == SubSeq(path, 1, Len(g) - 1)
<1>3. /\ start \in Seq(Chars) /\ Len(start) = Len(g) - 1
      /\ \A i \in 1 .. Len(g) - 1 : start[i] = path[i]
  <2>1. Len(g) - 1 \in Nat /\ Len(g) - 1 <= Len(path)
    BY <1>1
  <2>2. PICK m \in Nat : m = Len(g) - 1 /\ m <= Len(path)
    BY <2>1
  <2> QED  BY <2>2
<1> HIDE DEF start
<1>4. start = Cut(g, 1)
  BY <1>2, <1>3
<1>5. HasPrefix(path, Cut(g, 1))
  BY <1>1, <1>2, <1>4 DEF HasPrefix, start
<1> QED  BY <1>5 DEF MatchPath

\* Two wildcards of one length that match the same path are the same glob: what
\* remains of them is a prefix of the path, of the same length.
LEMMA SameWild ==
  ASSUME NEW g \in Seq(Chars), NEW h \in Seq(Chars), NEW path \in Seq(Chars),
         IsWild(g), IsWild(h), Len(g) = Len(h), MatchPath(g, path), MatchPath(h, path)
  PROVE  g = h
<1>1. Len(g) \in Nat /\ Len(g) >= 1 /\ g[Len(g)] = "*" /\ h[Len(g)] = "*" /\ Len(path) \in Nat
  BY WildMatch
<1>2. \/ /\ Len(path) >= Len(g) - 1
         /\ \A i \in 1 .. Len(g) - 1 : g[i] = path[i]
      \/ /\ Len(path) = Len(g) - 2 /\ Len(g) >= 2 /\ g[Len(g) - 1] = "/"
         /\ \A i \in 1 .. Len(g) - 2 : g[i] = path[i]
  BY WildMatch
<1>3. \/ /\ Len(path) >= Len(g) - 1
         /\ \A i \in 1 .. Len(g) - 1 : h[i] = path[i]
      \/ /\ Len(path) = Len(g) - 2 /\ Len(g) >= 2 /\ h[Len(g) - 1] = "/"
         /\ \A i \in 1 .. Len(g) - 2 : h[i] = path[i]
  BY WildMatch
<1>4. ASSUME NEW i \in 1 .. Len(g) PROVE g[i] = h[i]
  <2>1. i = Len(g) \/ i = Len(g) - 1 \/ i \in 1 .. Len(g) - 2
    BY <1>1
  <2>2. i # Len(g) => i \in 1 .. Len(g) - 1
    BY <1>1
  <2> QED  BY <1>1, <1>2, <1>3, <2>1, <2>2
<1> QED  BY <1>4, Len(g) = Len(h)

\* Of two wildcards that match the same path, the longer matches nothing that
\* the shorter does not.
LEMMA ShorterWildIsWider ==
  ASSUME NEW g \in Seq(Chars), NEW h \in Seq(Chars), NEW path \in Seq(Chars),
         IsWild(g), IsWild(h), Len(h) <= Len(g), MatchPath(g, path), MatchPath(h, path),
         NEW other \in Seq(Chars), MatchPath(g, other)
  PROVE  MatchPath(h, other)
<1>1. CASE Len(h) = Len(g)
  BY <1>1, SameWild
<1>2. CASE Len(h) # Len(g)
  <2>1. /\ Len(g) \in Nat /\ Len(h) \in Nat /\ Len(h) >= 1 /\ Len(path) \in Nat /\ Len(other) \in Nat
        /\ Len(h) - 1 <= Len(g) - 2
    BY <1>2, WildMatch
  <2>2. Len(path) >= Len(g) - 2 /\ \A i \in 1 .. Len(g) - 2 : g[i] = path[i]
    <3>1. \/ Len(path) >= Len(g) - 1 /\ \A i \in 1 .. Len(g) - 1 : g[i] = path[i]
          \/ Len(path) = Len(g) - 2 /\ \A i \in 1 .. Len(g) - 2 : g[i] = path[i]
      BY WildMatch
    <3> QED  BY <2>1, <3>1
  <2>3. Len(other) >= Len(g) - 2 /\ \A i \in 1 .. Len(g) - 2 : g[i] = other[i]
    <3>1. \/ Len(other) >= Len(g) - 1 /\ \A i \in 1 .. Len(g) - 1 : g[i] = other[i]
          \/ Len(other) = Len(g) - 2 /\ \A i \in 1 .. Len(g) - 2 : g[i] = other[i]
      BY WildMatch
    <3> QED  BY <2>1, <3>1
  <2>4. \A i \in 1 .. Len(h) - 1 : h[i] = path[i]
    <3>1. \/ Len(path) >= Len(h) - 1 /\ \A i \in 1 .. Len(h) - 1 : h[i] = path[i]
          \/ Len(path) = Len(h) - 2
      BY WildMatch
    <3> QED  BY <2>1, <2>2, <3>1
  <2>5. \A i \in 1 .. Len(h) - 1 : i \in 1 .. Len(g) - 2
    BY <2>1
  <2>6. Len(other) >= Len(h) - 1 /\ \A i \in 1 .. Len(h) - 1 : h[i] = other[i]
    BY <2>1, <2>2, <2>3, <2>4, <2>5
  <2> QED  BY <2>6, WildMatches
<1> QED  BY <1>1, <1>2

\* A wildcard longer than a path it matches is the path and its own ending.
LEMMA LongerWild ==
  ASSUME NEW g \in Seq(Chars), NEW path \in Seq(Chars), IsWild(g), MatchPath(g, path),
         Len(g) > Len(path)
  PROVE  Extends(g, path)
<1>0. Len(g) \in Nat /\ Len(path) \in Nat /\ g[Len(g)] = "*" /\ {"/", "*"} \subseteq Chars
  BY WildMatch, RoutesAssumption
<1>1. CASE Len(path) >= Len(g) - 1 /\ \A i \in 1 .. Len(g) - 1 : g[i] = path[i]
  <2>1. Len(g) = Len(path) + 1
    BY <1>0, <1>1
  <2>2. path \o <<"*">> \in Seq(Chars) /\ Len(path \o <<"*">>) = Len(path) + 1
    BY <1>0
  <2>3. \A i \in 1 .. Len(path) + 1 : (path \o <<"*">>)[i] = g[i]
    BY <1>0, <1>1, <2>1
  <2>4. g = path \o <<"*">>
    BY <2>1, <2>2, <2>3
  <2> QED  BY <2>4 DEF Extends
<1>2. CASE /\ Len(path) = Len(g) - 2 /\ g[Len(g) - 1] = "/"
           /\ \A i \in 1 .. Len(g) - 2 : g[i] = path[i]
  <2>1. Len(g) = Len(path) + 2
    BY <1>0, <1>2
  <2>2. path \o <<"/", "*">> \in Seq(Chars) /\ Len(path \o <<"/", "*">>) = Len(path) + 2
    BY <1>0
  <2>3. \A i \in 1 .. Len(path) + 2 : (path \o <<"/", "*">>)[i] = g[i]
    <3> SUFFICES ASSUME NEW i \in 1 .. Len(path) + 2 PROVE (path \o <<"/", "*">>)[i] = g[i]
      OBVIOUS
    <3>1. CASE i \in 1 .. Len(path)
      BY <1>0, <1>2, <2>1, <3>1
    <3>2. CASE i = Len(path) + 1
      BY <1>0, <1>2, <2>1, <3>2
    <3>3. CASE i = Len(path) + 2
      BY <1>0, <1>2, <2>1, <3>3
    <3> QED  BY <1>0, <3>1, <3>2, <3>3
  <2>4. g = path \o <<"/", "*">>
    BY <2>1, <2>2, <2>3
  <2> QED  BY <2>4 DEF Extends
<1> QED  BY <1>1, <1>2, WildMatch

\* LookupL7 is a function: in a table BuildRouter accepts, whatever the order of
\* its routes, a request has one answer at most.
THEOREM LookupIsUnique ==
  ASSUME NEW es, es \subseteq Entry, Accepts(es), NEW host, NEW path \in Seq(Chars),
         NEW e \in LookupL7(es, host, path), NEW f \in LookupL7(es, host, path)
  PROVE  e = f
<1> DEFINE g == e.route.path
           h == f.route.path
<1>1. /\ e \in Matching(es, host, path) /\ f \in Matching(es, host, path)
      /\ ~Outranks(g, h) /\ ~Outranks(h, g)
  BY DEF LookupL7
<1>2. /\ e \in es /\ f \in es /\ e \in Entry /\ f \in Entry
      /\ e.route.l4 = "" /\ f.route.l4 = "" /\ e.route.host = f.route.host
      /\ MatchPath(g, path) /\ MatchPath(h, path)
  BY <1>1 DEF Matching
<1>3. g \in Globs /\ h \in Globs /\ g \in Seq(Chars) /\ h \in Seq(Chars)
  BY <1>2, RoutesAssumption DEF Entry, Route, RoutesAssumption
<1>4. Len(g) = Len(h) /\ (IsWild(g) <=> IsWild(h))
  BY <1>1, <1>3 DEF Outranks
<1>5. g = h
  <2>1. CASE IsWild(g)
    <3> HIDE DEF g, h
    <3> QED  BY <1>2, <1>3, <1>4, <2>1, SameWild
  <2>2. CASE ~IsWild(g)
    <3> HIDE DEF g, h
    <3>1. (g = <<>> \/ g = path) /\ (h = <<>> \/ h = path)
      BY <1>2, <1>4, <2>2 DEF MatchPath, IsUnder
    <3> QED  BY <1>3, <1>4, <3>1
  <2> QED  BY <2>1, <2>2
<1>6. Clash(e, f)
  BY <1>2, <1>5 DEF Clash
<1> QED  BY <1>2, <1>6 DEF Accepts

\* No route that matches is narrower than the one LookupL7 gives, but the exact
\* one that is the beginning of a wildcard.
LEMMA LookupIsSpecific ==
  ASSUME NEW es, es \subseteq Entry, NEW host, NEW path \in Paths,
         NEW e \in LookupL7(es, host, path), NEW f \in Matching(es, host, path),
         Narrower(f.route.path, e.route.path)
  PROVE  Extends(e.route.path, f.route.path)
<1> DEFINE g == e.route.path
           h == f.route.path
<1>1. /\ g \in Seq(Chars) /\ h \in Seq(Chars) /\ path \in Seq(Chars) /\ Paths \subseteq Seq(Chars)
      /\ MatchPath(g, path) /\ MatchPath(h, path) /\ ~Outranks(h, g) /\ Narrower(h, g)
  BY RoutesAssumption, IngressAssumption DEF LookupL7, Matching, Entry, Route
<1> HIDE DEF g, h
<1>2. /\ Len(g) \in Nat /\ Len(h) \in Nat /\ Len(h) <= Len(g)
      /\ Len(h) = Len(g) => IsWild(h) \/ ~IsWild(g)
  BY <1>1 DEF Outranks
<1>3. PICK other \in Paths : MatchPath(g, other) /\ ~MatchPath(h, other)
  BY <1>1 DEF Narrower
<1>4. h # <<>>
  BY <1>3 DEF MatchPath
<1>5. g # <<>>
  BY <1>1, <1>2, <1>4
<1>6. IsWild(g)
  <2> SUFFICES ASSUME ~IsWild(g) PROVE FALSE
    OBVIOUS
  <2>1. g = path /\ g = other
    BY <1>1, <1>3, <1>5 DEF MatchPath, IsUnder
  <2> QED  BY <1>1, <1>3, <2>1
<1>7. ~IsWild(h)
  BY <1>1, <1>2, <1>3, <1>6, ShorterWildIsWider
<1>8. h = path
  BY <1>1, <1>4, <1>7 DEF MatchPath, IsUnder
<1>9. Len(g) > Len(path)
  BY <1>2, <1>6, <1>7, <1>8
<1>10. Extends(g, h)
  BY <1>1, <1>6, <1>8, <1>9, LongerWild
<1> QED  BY <1>10 DEF g, h

-----------------------------------------------------------------------------
(***************************************************************************)
(* The inductive invariant. KeepsHost compares the live table with the one *)
(* being collected, so the invariant has to say what is known of the rows  *)
(* the tick has passed: a host missing from what was collected of a        *)
(* project was missing from its rows at some time since the tick began.    *)
(***************************************************************************)
RowTypes ==
  /\ stored \in [Services -> Rows]
  /\ handler \in [Handlers -> Handler]
  /\ tick \in Tick
  /\ table \subseteq Entry

CollectedOrReleased ==
  tick.pc = "collect" =>
    \A p \in Projects \ tick.projects, h \in Hosts :
      Serves(tick.entries, p, h) \/ <<p, h>> \in released

RoutingInv ==
  RowTypes /\ Accepts(table) /\ Without(stored) \subseteq released /\ CollectedOrReleased

\* Entries read from the store are entries.
LEMMA EntriesTyped ==
  ASSUME NEW st \in [Services -> Rows], NEW S \in SUBSET Services
  PROVE  EntriesOf(st, S) \subseteq Entry
<1>1. \A s \in S : s \in Service /\ st[s] \in Rows
  BY IngressAssumption DEF IngressAssumption
<1>2. \A s \in S : st[s] # NoRow => st[s] \subseteq Route
  BY <1>1, IngressAssumption DEF IngressAssumption, Rows
<1> QED  BY <1>1, <1>2 DEF EntriesOf, Entry

\* The invariant holds when the server starts.
LEMMA RoutingInit == Init => RoutingInv
<1> SUFFICES ASSUME Init PROVE RoutingInv
  OBVIOUS
<1>1. RowTypes
  BY DEF Init, RowTypes, NoRoutes, IdleHandler, IdleTick, Rows, Handler, Tick
<1>2. Accepts(table)
  BY DEF Init, Accepts
<1>3. Without(stored) \subseteq released
  BY DEF Init, Without
<1>4. CollectedOrReleased
  BY DEF Init, IdleTick, CollectedOrReleased
<1> QED  BY <1>1, <1>2, <1>3, <1>4 DEF RoutingInv

\* A write of rows during a tick keeps what is known of the tick.
LEMMA RowsWritten ==
  ASSUME RoutingInv, stored' \in [Services -> Rows], released' = released \cup Without(stored'),
         handler' \in [Handlers -> Handler], tick' \in Tick, UNCHANGED table,
         tick'.pc = "collect" => tick' = tick
  PROVE  RoutingInv'
<1>1. RowTypes'
  BY DEF RoutingInv, RowTypes
<1>2. Accepts(table)'
  BY DEF RoutingInv, Accepts
<1>3. (Without(stored) \subseteq released)'
  OBVIOUS
<1>4. CollectedOrReleased'
  BY DEF RoutingInv, CollectedOrReleased
<1> QED  BY <1>1, <1>2, <1>3, <1>4 DEF RoutingInv

\* Handlers keep the invariant: what they write widens released.
LEMMA ApiKeeps == RoutingInv /\ Api => RoutingInv'
<1> SUFFICES ASSUME RoutingInv, Api PROVE RoutingInv'
  OBVIOUS
<1> USE DEF RoutingInv, RowTypes
<1>1. ASSUME NEW hd \in [Handlers -> Handler], handler' = hd,
             UNCHANGED <<stored, tick, table, released>>
      PROVE  RoutingInv'
  BY <1>1 DEF Accepts, CollectedOrReleased
<1>2. ASSUME NEW h \in Handlers, NEW s \in Services, NEW routes \in Choices,
             UpsertBegin(h, s, routes)
      PROVE  RoutingInv'
  <2>1. handler' \in [Handlers -> Handler]
    BY <1>2 DEF UpsertBegin, Handler
  <2> QED  BY <1>1, <1>2, <2>1 DEF UpsertBegin, ingress
<1>3. ASSUME NEW h \in Handlers, NEW s \in Services, ScaleGet(h, s)
      PROVE  RoutingInv'
  <2>1. stored[s] \in Choices \cup {{}}
    BY <1>3 DEF ScaleGet, Rows
  <2>2. handler' \in [Handlers -> Handler]
    BY <1>3, <2>1 DEF ScaleGet, Handler
  <2> QED  BY <1>1, <1>3, <2>2 DEF ScaleGet, ingress
<1>4. ASSUME NEW h \in Handlers, UpsertCheck(h)
      PROVE  RoutingInv'
  <2> DEFINE p == First(handler[h].todo)
             todo == handler[h].todo \ {p}
             next == IF ConflictsIn(p, handler[h].svc, handler[h].routes) THEN IdleHandler
                     ELSE [handler[h] EXCEPT !.todo = todo,
                             !.pc = IF todo = {} THEN "put" ELSE "check"]
  <2>1. handler' = [handler EXCEPT ![h] = next]
    BY <1>4 DEF UpsertCheck
  <2>2. next \in Handler
    BY DEF Handler, IdleHandler
  <2>3. handler' \in [Handlers -> Handler]
    BY <2>1, <2>2
  <2> QED  BY <1>1, <1>4, <2>3 DEF UpsertCheck, ingress
<1>5. ASSUME NEW h \in Handlers, HandlerPut(h)
      PROVE  RoutingInv'
  <2>1. handler[h].routes \in Rows /\ handler[h].svc \in Services \cup {NoService}
    BY DEF Handler, Rows
  <2>2. stored' \in [Services -> Rows] /\ handler' \in [Handlers -> Handler]
    BY <1>5, <2>1 DEF HandlerPut, PutService, Handler, IdleHandler
  <2> QED  BY <1>5, <2>2, RowsWritten DEF HandlerPut, PutService, ingress
<1>6. ASSUME NEW s \in Services, Delete(s)
      PROVE  RoutingInv'
  <2>1. stored' \in [Services -> Rows]
    BY <1>6 DEF Delete, PutService, Rows
  <2> QED  BY <1>6, <2>1, RowsWritten DEF Delete, PutService, ingress
<1> QED  BY <1>2, <1>3, <1>4, <1>5, <1>6 DEF Api

\* The reconciler keeps the invariant: only Collect and UpdateRoutes touch what
\* it says of the tick and of the table.
LEMMA ReconcileKeeps == RoutingInv /\ Reconcile => RoutingInv'
<1> SUFFICES ASSUME RoutingInv, Reconcile PROVE RoutingInv'
  OBVIOUS
<1> USE DEF RoutingInv, RowTypes
<1>1. ASSUME tick' \in Tick, tick'.pc # "collect",
             UNCHANGED <<stored, handler, table, released>>
      PROVE  RoutingInv'
  BY <1>1 DEF Accepts, CollectedOrReleased
<1>2. NoRoutes \in [Services -> Rows] /\ IdleTick \in Tick
  BY DEF NoRoutes, Rows, IdleTick, Tick
<1>3. CASE TickBegin
  <2>1. tick' \in Tick /\ tick'.projects = Projects
    BY <1>2, <1>3 DEF TickBegin, Tick, IdleTick
  <2> QED  BY <1>3, <2>1 DEF TickBegin, ingress, Accepts, CollectedOrReleased
<1>4. CASE Collect
  <2> DEFINE p == First(tick.projects)
  <2>1. /\ tick.pc = "collect" /\ tick'.pc = "collect" /\ tick'.projects = tick.projects \ {p}
        /\ UNCHANGED <<stored, handler, table>>
        /\ released \subseteq released' /\ tick.entries \subseteq tick'.entries
    BY <1>4 DEF Collect, Tick, ingress
  <2>2. tick' \in Tick
    <3>1. EntriesOf(stored, In(p)) \subseteq Entry
      BY EntriesTyped DEF In
    <3> QED  BY <1>4, <3>1 DEF Collect, Tick
  <2>3. ASSUME p \in Projects, NEW h \in Hosts
        PROVE  Serves(tick'.entries, p, h) \/ <<p, h>> \in released'
    <3>1. CASE tick' = [tick EXCEPT !.projects = @ \ {p},
                                    !.entries = @ \cup EntriesOf(stored, In(p))]
      <4>1. EntriesOf(stored, In(p)) \subseteq tick'.entries
        BY <3>1 DEF Tick
      <4>2. CASE Serves(EntriesOf(stored, In(p)), p, h)
        BY <4>1, <4>2 DEF Serves
      <4>3. CASE ~Serves(EntriesOf(stored, In(p)), p, h)
        BY <2>1, <2>3, <4>3 DEF Without
      <4> QED  BY <4>2, <4>3
    <3>2. CASE released' = released \cup ({p} \X Hosts)
      BY <3>2
    <3> QED  BY <1>4, <3>1, <3>2 DEF Collect
  <2>4. CollectedOrReleased'
    <3> SUFFICES ASSUME NEW q \in Projects \ tick'.projects, NEW h \in Hosts
                 PROVE  Serves(tick'.entries, q, h) \/ <<q, h>> \in released'
      BY DEF CollectedOrReleased
    <3>1. CASE q = p
      BY <2>3, <3>1
    <3>2. CASE q # p
      <4>1. Serves(tick.entries, q, h) \/ <<q, h>> \in released
        BY <2>1, <3>2 DEF CollectedOrReleased
      <4> QED  BY <2>1, <4>1 DEF Serves
    <3> QED  BY <3>1, <3>2
  <2>5. Accepts(table)' /\ (Without(stored) \subseteq released)'
    BY <2>1
  <2> QED  BY <2>1, <2>2, <2>4, <2>5
<1>5. CASE UpdateRoutes
  <2>1. /\ UNCHANGED <<stored, handler, released>>
        /\ table' = IF Accepts(tick.entries) THEN tick.entries ELSE table
        /\ tick' = [IdleTick EXCEPT !.pc = "project", !.projects = Projects]
    BY <1>5 DEF UpdateRoutes
  <2>2. tick' \in Tick /\ tick'.pc = "project"
    BY <1>2, <2>1 DEF Tick, IdleTick
  <2>3. table' \subseteq Entry /\ Accepts(table')
    BY <2>1 DEF Tick
  <2> QED  BY <2>1, <2>2, <2>3 DEF CollectedOrReleased
<1>6. CASE ReadProject
  <2> DEFINE p == First(tick.projects)
             rows == [s \in Services |-> IF s \in In(p) THEN stored[s] ELSE NoRow]
  <2>1. rows \in [Services -> Rows]
    BY DEF Rows
  <2>2. tick' \in Tick /\ tick'.pc # "collect"
    BY <1>6, <2>1 DEF ReadProject, Tick
  <2> QED  BY <1>1, <1>6, <2>2 DEF ReadProject, ingress
<1>7. CASE EndProject
  <2>1. PICK changed \in SUBSET {s \in Services : tick.desired[s] # NoRow} :
          /\ stored' = [s \in Services |-> IF s \in changed THEN tick.desired[s] ELSE stored[s]]
          /\ released' = released \cup Without(stored')
    BY <1>7 DEF EndProject
  <2>2. stored' \in [Services -> Rows]
    BY <2>1 DEF Tick
  <2>3. tick' \in Tick /\ tick'.pc # "collect"
    BY <1>2, <1>7 DEF EndProject, Tick
  <2> QED  BY <1>7, <2>1, <2>2, <2>3, RowsWritten DEF EndProject, ingress
<1>8. CASE TickEnd
  <2>1. tick' \in Tick /\ tick'.pc # "collect"
    BY <1>2, <1>8 DEF TickEnd, IdleTick
  <2> QED  BY <1>1, <1>8, <2>1 DEF TickEnd, ingress
<1>9. ASSUME NEW s \in Services, NEW list \in Lists, PushBackends(s, list)
      PROVE  RoutingInv'
  <2>1. tick' \in Tick /\ tick'.pc # "collect"
    BY <1>9 DEF PushBackends, Tick
  <2> QED  BY <1>1, <1>9, <2>1 DEF PushBackends, ingress
<1> QED  BY <1>3, <1>4, <1>5, <1>6, <1>7, <1>8, <1>9 DEF Reconcile

\* Run, requests and stuttering leave rows, table and tick alone.
LEMMA OthersKeep ==
  (Run \/ Serve \/ UNCHANGED vars) => UNCHANGED <<stored, handler, tick, table, released>>
BY DEF Run, Serve, Lookup, GetPool, Pick, Answered, ingress, vars

\* The invariant is kept by every step.
LEMMA RoutingStep == RoutingInv /\ [Next]_vars => RoutingInv'
<1> SUFFICES ASSUME RoutingInv, [Next]_vars PROVE RoutingInv'
  OBVIOUS
<1>1. CASE Run \/ Serve \/ UNCHANGED vars
  BY <1>1, OthersKeep DEF RoutingInv, RowTypes, Accepts, CollectedOrReleased
<1> QED  BY <1>1, ApiKeeps, ReconcileKeeps DEF Next

\* The invariant holds in every behaviour.
LEMMA RoutingInvariant == Spec => []RoutingInv
BY RoutingInit, RoutingStep, PTL DEF Spec

\* Whatever the reconciler has published, a request for a host and a path has
\* one route at most: ServeHTTP's answer does not depend on map order.
THEOREM RequestsHaveOneRoute == Spec => []OneRoute
<1>1. RoutingInv => OneRoute
  BY LookupIsUnique, IngressAssumption DEF RoutingInv, RowTypes, OneRoute, IngressAssumption
<1> QED  BY <1>1, RoutingInvariant, PTL

\* UpdateRoutes passes a host from one project to another only if the first did
\* without it, or could not be listed, during the tick - whatever handlers and
\* stale write-backs did meanwhile.
THEOREM HostsAreKept == Spec => KeepsHost
<1> DEFINE Kept ==
      \A e \in table, f \in table' :
        /\ e.route.l4 = "" /\ f.route.l4 = "" /\ e.route.host = f.route.host
        /\ ProjectOf(e.svc) # ProjectOf(f.svc)
        => <<ProjectOf(e.svc), e.route.host>> \in released
<1>1. RoutingInv /\ [Next]_vars => [Kept]_vars
  <2> SUFFICES ASSUME RoutingInv, Next, NEW e \in table, NEW f \in table',
                      e.route.l4 = "", f.route.l4 = "", e.route.host = f.route.host,
                      ProjectOf(e.svc) # ProjectOf(f.svc)
               PROVE  <<ProjectOf(e.svc), e.route.host>> \in released
    BY DEF vars
  <2>1. e \in Entry /\ ProjectOf(e.svc) \in Projects /\ e.route.host \in Hosts
    BY DEF RoutingInv, RowTypes, Entry, Route, Service, ProjectOf
  <2>2. Clash(e, f) /\ e # f
    BY DEF Clash
  <2>3. table' # table
    BY <2>2 DEF RoutingInv, Accepts
  <2>4. UpdateRoutes
    BY <2>3 DEF Next, Api, Reconcile, Run, Serve, UpsertBegin, ScaleGet, UpsertCheck,
       HandlerPut, Delete, TickBegin, Collect, ReadProject, PushBackends, EndProject, TickEnd,
       Lookup, GetPool, Pick, Answered, ingress
  <2>5. /\ tick.pc = "collect" /\ tick.projects = {}
        /\ table' = tick.entries /\ Accepts(tick.entries)
    BY <2>3, <2>4 DEF UpdateRoutes
  <2>6. ~Serves(tick.entries, ProjectOf(e.svc), e.route.host)
    BY <2>5 DEF Serves, Accepts, Clash
  <2> QED  BY <2>1, <2>5, <2>6 DEF RoutingInv, CollectedOrReleased
<1> QED  BY <1>1, RoutingInvariant, PTL DEF Spec, KeepsHost

\* BuildRouter's order: of the routes that match, no table gives a request one
\* that is wider than another, but a wildcard for the exact path it begins with.
THEOREM RoutesAreSpecific == Spec => []MostSpecific
<1>1. RoutingInv => MostSpecific
  <2> SUFFICES ASSUME RoutingInv, NEW host \in Hosts, NEW path \in Paths,
                      NEW e \in LookupL7(table, host, path), NEW f \in Matching(table, host, path),
                      Narrower(f.route.path, e.route.path)
               PROVE  Extends(e.route.path, f.route.path)
    BY DEF MostSpecific
  <2>1. table \subseteq Entry
    BY DEF RoutingInv, RowTypes
  <2> QED  BY <2>1, LookupIsSpecific
<1> QED  BY <1>1, RoutingInvariant, PTL
=============================================================================
