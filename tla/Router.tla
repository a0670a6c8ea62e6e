------------------------------- MODULE Router -------------------------------
(***************************************************************************)
(* class Router (src/http/server/http-router.cpp): one DirTree of Route    *)
(* objects for each HTTP method, composed from DirTreeOps.tla.  A Route is *)
(* an object: it is added at most once, and the Router's destructor owns   *)
(* and deletes the ones it finds in its trees.                             *)
(***************************************************************************)
EXTENDS DirTreeOps

CONSTANTS Routes,   \* the Route objects, as records [id, method, path]
          Requests  \* the request paths looked up

Methods == {r.method : r \in Routes}

VARIABLES routes,   \* method -> DirTree, for the methods seen so far
          added,    \* the routes added, oldest first
          deleted,  \* the calls of the DropCbk in the destructor
          alive     \* FALSE once the Router is destroyed

routerVars == <<routes, added, deleted, alive>>

RouterInit == routes = <<>> /\ added = <<>> /\ deleted = {} /\ alive = TRUE

getDirTree(method) ==
    IF method \in DOMAIN routes THEN routes[method] ELSE NewTree

\* Mutant: all methods share the first tree.
addRouteAnyMethod(route) ==
    LET method == IF added = <<>> THEN route.method ELSE added[1].method IN
    /\ alive
    /\ route \notin ToSet(added)
    /\ routes' = Assigned(routes, method, insert(getDirTree(method), route.path, route))
    /\ added' = Append(added, route)
    /\ UNCHANGED <<deleted, alive>>

addRoute(route) ==
    /\ alive
    /\ route \notin ToSet(added)
    /\ routes' = Assigned(routes, route.method, insert(getDirTree(route.method), route.path, route))
    /\ added' = Append(added, route)
    /\ UNCHANGED <<deleted, alive>>

searchCbk == {"*"}

getRoute(method, path) ==
    IF method \in DOMAIN routes THEN search(routes[method], path, searchCbk) ELSE NULL

\* Mutant: the trees are deleted without dropping their routes.
DestroyRouterNoDrop ==
    /\ alive
    /\ deleted' = {}
    /\ routes' = <<>>
    /\ alive' = FALSE
    /\ UNCHANGED added

\* ~Router: drop("/") on every tree, each datum through SAFE_DELETE.
DestroyRouter ==
    /\ alive
    /\ deleted' = UNION {{[method |-> m, call |-> c] : c \in drop(routes[m], <<"", "">>).calls} :
                            m \in DOMAIN routes}
    /\ routes' = <<>>
    /\ alive' = FALSE
    /\ UNCHANGED added

RouterNext == DestroyRouter \/ \E route \in Routes : addRoute(route)

RouterSpec == RouterInit /\ [][RouterNext]_routerVars
-----------------------------------------------------------------------------
\* The route added last for a method and a path, as DirTree reads paths.
Latest(method, path) ==
    LET same == {k \in DOMAIN added : /\ added[k].method = method
                                      /\ TokensOf(added[k].path) = path}
    IN  IF same = {} THEN NULL ELSE added[Max(same)]

\* Is the path, or one below it, the path of a route?
Occupied(method, path) ==
    \E k \in DOMAIN added : /\ added[k].method = method
                            /\ IsPrefix(path, TokensOf(added[k].path))

\* getRoute answers a request with the latest route for its method and path;
\* only when no route of the method lies at or below that path, with the
\* latest wildcard route beside it; otherwise with none.
RoutesByMeaning ==
    alive => \A m \in Methods, request \in Requests :
             LET path == TokensOf(request)
             IN  getRoute(m, request) =
                    IF Occupied(m, path) \/ Len(path) = 1 THEN Latest(m, path)
                    ELSE Latest(m, Append(Front(path), "*"))

\* The destructor deletes no route twice, and it deletes every route except
\* one that a later route replaced or whose path begins with a hidden name:
\* those are leaked.
DeletedOnce ==
    /\ \A d, e \in deleted : d.call.data = e.call.data /\ d.call.data # NULL => d = e
    /\ ~alive => \A k \in DOMAIN added :
                 LET r    == added[k]
                     path == TokensOf(r.path)
                 IN  (\E d \in deleted : d.call.data = r)
                        <=> (Head(path) = "." /\ Latest(r.method, path) = r)
=============================================================================
