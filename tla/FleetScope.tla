----------------------------- MODULE FleetScope -----------------------------
(* Which resources a fleet report is about: resolve_scope and                *)
(* collect_descendants of src/actions/builtin/vrops/fleet.py, over the paged *)
(* requests of vrops_client.py they are made of. The inventory may change    *)
(* from one request to the next, and any request may fail. FleetTools        *)
(* extends it with the tools that use the scope.                             *)
(*                                                                           *)
(* A resource is its id and its kind. Every resource has an id, and the      *)
(* server reports the length of what it lists.                               *)
EXTENDS Lists

CONSTANTS
  Resources,
  Kind,            \* Kind[r]: the resource kind of r
  NameOf,          \* NameOf[r]: the name of r
  PartsOf,         \* PartsOf[m]: the names that are part of name m
  ContainerKinds,  \* DEFAULT_CONTAINER_KINDS
  Sites,           \* Sites[l]: the names of the datacenters of location l
  NoLocation,
  MaxDepth,
  PageSize,        \* of lists of children and of resources of a kind
  SearchSize,      \* the page size of search_resources
  MaxResources,    \* where the listing of a kind is cut
  Cases            \* the inventories at first (order, children), what is asked
                   \* (request), and bounds on how often each changes, on what
                   \* is added, and on where it is listed (changes, new, places)

ASSUME DepthAssumption == MaxDepth \in Nat \ {0}
ASSUME SizesAssumption ==
  {PageSize, SearchSize, MaxResources} \subseteq Nat \ {0}
\* The server lists each resource once.
ASSUME CasesAssumption ==
  \A c \in Cases : /\ c.order \in Seq(Resources)
                   /\ \A i, j \in DOMAIN c.order : c.order[i] = c.order[j] => i = j
                   /\ c.children \in [Resources -> Seq(Resources)]
                   /\ c.changes \in Nat
                   /\ c.new \subseteq Resources /\ c.places \subseteq Nat
ASSUME SitesAssumption == \A l \in DOMAIN Sites : Sites[l] \in Seq(DOMAIN PartsOf)

VARIABLES
  order,     \* the resources there are, as the server lists them
  children,  \* children[r]: the direct children of r, as the server lists them
  given,     \* the case
  kind,      \* what is being looked for
  pc,
  names,     \* the names of datacenters still to be searched for
  roots,     \* the datacenters found
  frontier, nxt, visited, depth, found,  \* of collect_descendants
  page,      \* of the list being fetched
  out,       \* what was fetched of it
  failed,    \* whether a request has failed
  changes,   \* how often the inventory has changed
  shrunk     \* whether something was taken out of a list by that

inventory == <<order, children, changes, shrunk>>
walk == <<frontier, nxt, visited, depth, found>>
vars == <<inventory, walk, given, kind, pc, names, roots, page, out, failed>>

request == given.request

Init ==
  /\ given \in Cases
  /\ order = given.order /\ children = given.children
  /\ kind = request.kind
  /\ pc = "start"
  /\ names = <<>> /\ roots = <<>>
  /\ frontier = <<>> /\ nxt = <<>> /\ visited = {} /\ depth = 0 /\ found = <<>>
  /\ page = 0 /\ out = <<>>
  /\ failed = FALSE
  /\ changes = 0 /\ shrunk = FALSE

-----------------------------------------------------------------------------
(* Paged lists                                                               *)

\* The page of a list, as it is at the moment of the request.
Batch(list, p) == Page(list, PageSize, p)

\* A last page one page too early.
LastPageEarly(list, p) == Batch(list, p) = <<>> \/ (p + 2) * PageSize >= Len(list)

\* Of the children of a resource: counted in pages.
LastPage(list, p) == Batch(list, p) = <<>> \/ (p + 1) * PageSize >= Len(list)

OfKind == Among(order, {r \in Resources : Kind[r] = kind})

\* A listing that counts a page it has not fetched.
ListedEarly(fetched, p) ==
  \/ Batch(OfKind, p) = <<>>
  \/ (p + 2) * PageSize >= Len(OfKind)
  \/ Len(fetched) >= MaxResources

\* Of the resources of a kind: counted in what was fetched, and cut.
Listed(fetched, p) ==
  \/ Batch(OfKind, p) = <<>>
  \/ Len(fetched) >= Len(OfKind)
  \/ Len(fetched) >= MaxResources

ListPage ==
  /\ pc = "listing"
  /\ out' = out \o Batch(OfKind, page)
  /\ IF Listed(out', page)
     THEN pc' = "done" /\ UNCHANGED page
     ELSE page' = page + 1 /\ UNCHANGED pc
  /\ UNCHANGED <<inventory, walk, given, kind, names, roots, failed>>

\* What was fetched so far is returned.
ListFails ==
  /\ pc = "listing"
  /\ pc' = "done"
  /\ failed' = TRUE
  /\ UNCHANGED <<inventory, walk, given, kind, names, roots, page, out>>

-----------------------------------------------------------------------------
(* resolve_scope                                                             *)

Resolve ==
  /\ pc = "start"
  /\ IF request.location = NoLocation
     THEN pc' = "listing" /\ UNCHANGED names
     ELSE IF request.location \in DOMAIN Sites
     THEN pc' = "searching" /\ names' = Sites[request.location]
     ELSE pc' = "unknown location" /\ UNCHANGED names
  /\ UNCHANGED <<inventory, walk, given, kind, roots, page, out, failed>>

\* search_resources: the first page of the datacenters whose name contains the
\* one asked for.
Matches(name) ==
  Among(order, {r \in Resources : Kind[r] = "Datacenter" /\ name \in PartsOf[NameOf[r]]})

FirstMatches(name) == Page(Matches(name), SearchSize, 0)

Search ==
  /\ pc = "searching"
  /\ names # <<>>
  /\ names' = Tail(names)
  /\ \/ roots' = roots \o FirstMatches(Head(names)) /\ UNCHANGED failed
     \/ failed' = TRUE /\ UNCHANGED roots
  /\ UNCHANGED <<inventory, walk, given, kind, pc, page, out>>

BeginWalk ==
  /\ pc = "searching"
  /\ names = <<>>
  /\ frontier' = Distinct(roots)
  /\ pc' = IF roots = <<>> THEN "done" ELSE "walking"
  /\ UNCHANGED <<inventory, nxt, visited, depth, found, given, kind, names, roots, page, out, failed>>

-----------------------------------------------------------------------------
(* collect_descendants                                                       *)

SkipVisited ==
  /\ pc = "walking"
  /\ frontier # <<>>
  /\ Head(frontier) \in visited
  /\ frontier' = Tail(frontier)
  /\ UNCHANGED <<inventory, nxt, visited, depth, found, given, kind, pc, names, roots, page, out, failed>>

Expand ==
  /\ pc = "walking"
  /\ frontier # <<>>
  /\ Head(frontier) \notin visited
  /\ visited' = visited \cup {Head(frontier)}
  /\ pc' = "fetching"
  /\ UNCHANGED <<inventory, frontier, nxt, depth, found, given, kind, names, roots, page, out, failed>>

\* A walk that looks for more beneath the resources it collects.
DescendsAlways(r) == Kind[r] \in ContainerKinds

Descends(r) == Kind[r] # kind /\ Kind[r] \in ContainerKinds

\* What the loop over the children of a resource does with them.
Collect(kids) ==
  /\ found' = Distinct(found \o Among(kids, {r \in Resources : Kind[r] = kind}))
  /\ nxt' = nxt \o Among(kids, {r \in Resources \ visited : Descends(r)})
  /\ frontier' = Tail(frontier)
  /\ pc' = "walking"
  /\ page' = 0
  /\ out' = <<>>
  /\ UNCHANGED <<visited, depth>>

FetchPage ==
  /\ pc = "fetching"
  /\ LET kids == children[Head(frontier)]
         fetched == out \o Batch(kids, page)
     IN  IF LastPage(kids, page)
         THEN Collect(fetched)
         ELSE /\ page' = page + 1
              /\ out' = fetched
              /\ UNCHANGED <<walk, pc>>
  /\ UNCHANGED <<inventory, given, kind, names, roots, failed>>

\* A list that is fetched from its start again when a page fails.
FetchRestarts ==
  /\ pc = "fetching"
  /\ page' = 0
  /\ out' = <<>>
  /\ failed' = TRUE
  /\ UNCHANGED <<inventory, walk, given, kind, pc, names, roots>>

\* The walk goes on with what was fetched so far.
FetchFails ==
  /\ pc = "fetching"
  /\ Collect(out)
  /\ failed' = TRUE
  /\ UNCHANGED <<inventory, given, kind, names, roots>>

\* A walk one level deeper than it should be.
NextLevelLate ==
  /\ pc = "walking"
  /\ frontier = <<>>
  /\ depth' = depth + 1
  /\ frontier' = nxt
  /\ nxt' = <<>>
  /\ pc' = IF nxt = <<>> \/ depth' > MaxDepth THEN "done" ELSE "walking"
  /\ UNCHANGED <<inventory, visited, found, given, kind, names, roots, page, out, failed>>

NextLevel ==
  /\ pc = "walking"
  /\ frontier = <<>>
  /\ depth' = depth + 1
  /\ frontier' = nxt
  /\ nxt' = <<>>
  /\ pc' = IF nxt = <<>> \/ depth' >= MaxDepth THEN "done" ELSE "walking"
  /\ UNCHANGED <<inventory, visited, found, given, kind, names, roots, page, out, failed>>

-----------------------------------------------------------------------------
(* The inventory                                                             *)

Changes ==
  /\ pc \notin {"start", "done", "unknown location"}
  /\ changes < given.changes
  /\ changes' = changes + 1
  /\ UNCHANGED <<walk, given, kind, pc, names, roots, page, out, failed>>

Without(s, r) == Among(s, Resources \ {r})

\* Something that holds nothing is deleted.
Delete(r) ==
  /\ Changes
  /\ r \in ToSet(order)
  /\ children[r] = <<>>
  /\ order' = Without(order, r)
  /\ children' = [p \in Resources |-> Without(children[p], r)]
  /\ shrunk' = TRUE

\* It is moved, as a VM is to another host.
Move(r, from, to) ==
  /\ Changes
  /\ from # to
  /\ children[r] = <<>>
  /\ r \in ToSet(children[from])
  /\ Kind[to] = Kind[from]
  /\ to \in ToSet(order)
  /\ children' = [children EXCEPT ![from] = Without(@, r), ![to] = Append(Without(@, r), r)]
  /\ shrunk' = TRUE
  /\ UNCHANGED order

\* A new one is listed anywhere, and among the children of p.
Create(r, p, position) ==
  /\ Changes
  /\ r \notin ToSet(order)
  /\ position <= Len(order)
  /\ p \in ToSet(order)
  /\ Kind[p] \in ContainerKinds
  /\ order' = SubSeq(order, 1, position) \o <<r>> \o SubSeq(order, position + 1, Len(order))
  /\ children' = [children EXCEPT ![p] = <<r>> \o @]
  /\ UNCHANGED shrunk

-----------------------------------------------------------------------------

Query ==
  \/ Resolve \/ ListPage \/ ListFails \/ Search
  \/ BeginWalk \/ SkipVisited \/ Expand \/ FetchPage \/ FetchFails \/ NextLevel

Inventory ==
  \/ \E r \in Resources : Delete(r)
  \/ \E r, from, to \in Resources : Move(r, from, to)
  \/ \E r \in given.new, p \in Resources, position \in given.places : Create(r, p, position)

Next == Query \/ Inventory

\* The query runs in a thread, and every request has a timeout.
Spec == Init /\ [][Next]_vars /\ WF_vars(Query)

-----------------------------------------------------------------------------
(* Properties                                                                *)

TypeOK ==
  /\ order \in Seq(Resources)
  /\ children \in [Resources -> Seq(Resources)]
  /\ pc \in {"start", "listing", "searching", "walking", "fetching", "done",
             "unknown location"}
  /\ names \in Seq(DOMAIN PartsOf)
  /\ {roots, frontier, nxt, out, found} \subseteq Seq(Resources)
  /\ visited \subseteq Resources
  /\ depth \in 0 .. MaxDepth
  /\ page \in Nat
  /\ {failed, shrunk} \subseteq BOOLEAN
  /\ changes \in 0 .. given.changes

\* The children of some resources that are of a kind.
ChildrenOf(parents, kinds) ==
  {r \in UNION {ToSet(children[p]) : p \in parents} : Kind[r] \in kinds}

\* What belongs to a search for a kind, by its distance from the top: the tops,
\* and beneath them what is of a container kind but not of the kind looked for.
Searched(tops, sought) ==
  LET within[d \in 0 .. MaxDepth - 1] ==
        IF d = 0 THEN tops
        ELSE within[d - 1] \cup ChildrenOf(within[d - 1], ContainerKinds \ {sought})
  IN  within

\* The resources of a kind beneath others: the children of what is searched.
Beneath(tops, sought) == ChildrenOf(Searched(tops, sought)[MaxDepth - 1], {sought})

\* While the inventory stays as it is, the walk never collects anything but
\* what is beneath the resources it starts from, reached through containers
\* only, even when requests fail (fleet.py:34-65).
WalkSound ==
  (changes = 0 /\ pc # "searching") => ToSet(found) \subseteq Beneath(ToSet(roots), kind)

\* ... and when none fails it collects all of it, on every path and in cycles,
\* each page of the children included, down to the greatest depth
\* (fleet.py:46-64, vrops_client.py:1037-1064).
WalkComplete ==
  (changes = 0 /\ ~failed /\ pc = "done") => Beneath(ToSet(roots), kind) \subseteq ToSet(found)

\* The listing of a kind misses nothing that is there all the time unless a
\* page fails, it is cut, or something is removed meanwhile: what is added
\* between two pages only makes it list something twice
\* (vrops_client.py:985-1021).
ListComplete ==
  (pc = "done" /\ request.location = NoLocation /\ roots = <<>>
    /\ ~failed /\ ~shrunk /\ Len(out) < MaxResources)
  => {r \in ToSet(given.order) : Kind[r] = kind} \subseteq ToSet(out)
=============================================================================
