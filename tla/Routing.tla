-------------------------------- MODULE Routing --------------------------------
(***************************************************************************)
(* The list of routes (routing.py): the routes of the core, there from the *)
(* import on, then those of the plugins, added and removed one by one by   *)
(* the main thread when the configuration is applied; and the HTTP threads *)
(* that walk the list meanwhile (httpd.py, get_route).  Which plugins are  *)
(* to be loaded, and in which order that is done, is external.             *)
(***************************************************************************)
EXTENDS Integers, Sequences, SequencesExt

CONSTANTS
    Requesters,     \* HTTP threads
    Core,           \* routes of the core: a sequence of [http_method, path]
    Plugins,        \* names of the plugins
    Configurations, \* what an agent may start with: plugins, in order
    RoutesOf,       \* RoutesOf[p]: the routes of plugin p, its RouteSet
    Requests,       \* what is asked for: [http_method, path], a path of words
    NoPlugin

VARIABLES
    routes,     \* ROUTES
    plugins,    \* the plugins that are loaded
    wanted,     \* the plugins the configuration names
    main,       \* what the main thread is at: a plugin, and its next route
    scan        \* scan[t]: the request of thread t and its place in the list

routingVars == <<routes, plugins, wanted, main, scan>>

-----------------------------------------------------------------------------
(* An element of the path of a route is a word or a regular expression,    *)
(* which stands for the words it matches.                                  *)
Literal(word) == [regexp |-> FALSE, words |-> {word}]
Pattern(words) == [regexp |-> TRUE, words |-> words]

(* A path cannot start with a regular expression. *)
make_route(method, path) ==
    [http_method |-> method, root |-> path[1].words, splitpath |-> path]

MayStart(path) == path # <<>> /\ ~path[1].regexp

IsList(list) == list \in Seq(ToSet(list))

ASSUME RoutesAssumption ==
    /\ IsList(Core) /\ \A p \in Plugins : IsList(RoutesOf[p])
    /\ \A route \in ToSet(Core) \cup UNION {ToSet(RoutesOf[p]) : p \in Plugins} :
          MayStart(route.path)

Made(set) == [k \in DOMAIN set |-> make_route(set[k].http_method, set[k].path)]
CoreRoutes == Made(Core)
RouteSet(p) == Made(RoutesOf[p])

(* No two routes of the code share their method and their path: those of a *)
(* plugin start with words of their own, and none is declared twice.  The  *)
(* plugins of an application are a dictionary: none is there twice.        *)
Distinct(list) == \A k, l \in DOMAIN list : list[k] = list[l] => k = l
Apart(list, other) == ToSet(list) \cap ToSet(other) = {}

ASSUME DistinctAssumption ==
    /\ Distinct(CoreRoutes)
    /\ \A p \in Plugins : Distinct(RouteSet(p)) /\ Apart(RouteSet(p), CoreRoutes)
    /\ \A p, q \in Plugins : p # q => Apart(RouteSet(p), RouteSet(q))

ASSUME ConfiguredAssumption ==
    \A order \in Configurations : order \in Seq(Plugins) /\ Distinct(order)

(* The body of get_route's loop: the method, the root, then each element,  *)
(* as many in the one as in the other.                                     *)
matches(route, request) ==
    /\ route.http_method = request.http_method /\ request.path[1] \in route.root
    /\ Len(request.path) = Len(route.splitpath)
    /\ \A k \in DOMAIN request.path : request.path[k] \in route.splitpath[k].words

-----------------------------------------------------------------------------
(* here and removal are history: a route for the request has been in the   *)
(* list since it came, a route was removed since.                          *)
NoScan == [pc |-> "idle", request |-> <<>>, at |-> 0, route |-> <<>>,
           here |-> FALSE, removal |-> FALSE]

InList(request, list) == \E k \in DOMAIN list : matches(list[k], request)

NothingToDo == [does |-> "idle", plugin |-> NoPlugin, at |-> 0]

(* The list after the plugins have been loaded in that order. *)
Loaded(order) == CoreRoutes \o FlattenSeq([k \in DOMAIN order |-> RouteSet(order[k])])

(* Nobody serves. *)
RoutingInit ==
    /\ routes = Loaded(<<>>)
    /\ plugins = {} /\ wanted = {}
    /\ main = NothingToDo
    /\ scan = [t \in Requesters |-> NoScan]

(* An agent applies its configuration before it serves. *)
RoutingStarts(order) ==
    /\ routes' = Loaded(order)
    /\ plugins' = ToSet(order) /\ wanted' = ToSet(order)
    /\ main' = NothingToDo
    /\ scan' = [t \in Requesters |-> NoScan]

(* The requests and the routes of a process end with it. *)
RoutingEnds == RoutingStarts(<<>>)

(* What a change of the list means to the requests that are on. *)
Noticed(list, removal) ==
    scan' = [t \in Requesters |->
                IF scan[t].pc = "idle" THEN scan[t]
                ELSE [scan[t] EXCEPT !.here = @ /\ InList(scan[t].request, list),
                                     !.removal = @ \/ removal]]

(* The main thread applies the configuration. *)
reload(new) ==
    /\ main.does = "idle" /\ wanted = plugins
    /\ wanted' = new
    /\ UNCHANGED <<routes, plugins, main, scan>>

load(p) ==
    /\ main.does = "idle" /\ p \in wanted \ plugins
    /\ main' = [does |-> "add", plugin |-> p, at |-> 1]
    /\ UNCHANGED <<routes, plugins, wanted, scan>>

unload(p) ==
    /\ main.does = "idle" /\ p \in plugins \ wanted
    /\ main' = [does |-> "remove", plugin |-> p, at |-> 1]
    /\ UNCHANGED <<routes, plugins, wanted, scan>>

(* Bug variant: new routes are put first. *)
Appended_first(route) == IF route \in ToSet(routes) THEN routes ELSE <<route>> \o routes

(* ROUTES.append, unless the route is there. *)
Appended(route) == IF route \in ToSet(routes) THEN routes ELSE Append(routes, route)

(* Bug variant: the last route goes instead. *)
Removed_last(route) == IF route \in ToSet(routes) THEN Front(routes) ELSE routes

(* ROUTES.remove, if the route is there. *)
Removed(route) == IF route \in ToSet(routes) THEN RemoveFirst(routes, route) ELSE routes

(* Router.add: one route after another, each append a change of its own.   *)
add ==
    /\ main.does = "add" /\ main.at <= Len(RouteSet(main.plugin))
    /\ routes' = Appended(RouteSet(main.plugin)[main.at])
    /\ main' = [main EXCEPT !.at = @ + 1]
    /\ Noticed(routes', FALSE)
    /\ UNCHANGED <<plugins, wanted>>

(* Bug variant: every second route is passed over, as by a loop over the   *)
(* list it removes from.                                                   *)
remove_skips ==
    /\ main.does = "remove" /\ main.at <= Len(RouteSet(main.plugin))
    /\ routes' = Removed(RouteSet(main.plugin)[main.at])
    /\ main' = [main EXCEPT !.at = @ + 2]
    /\ Noticed(routes', TRUE)
    /\ UNCHANGED <<plugins, wanted>>

(* Router.remove *)
remove ==
    /\ main.does = "remove" /\ main.at <= Len(RouteSet(main.plugin))
    /\ routes' = Removed(RouteSet(main.plugin)[main.at])
    /\ main' = [main EXCEPT !.at = @ + 1]
    /\ Noticed(routes', TRUE)
    /\ UNCHANGED <<plugins, wanted>>

(* The plugin is loaded, or unloaded. *)
applied ==
    /\ main.does # "idle" /\ main.at > Len(RouteSet(main.plugin))
    /\ plugins' = IF main.does = "add" THEN plugins \cup {main.plugin}
                                       ELSE plugins \ {main.plugin}
    /\ main' = NothingToDo
    /\ UNCHANGED <<routes, wanted, scan>>

-----------------------------------------------------------------------------
get_route(t, request) ==
    /\ scan[t].pc = "idle"
    /\ scan' = [scan EXCEPT ![t] = [NoScan EXCEPT !.pc = "scan", !.request = request, !.at = 1,
                                                  !.here = InList(request, routes)]]
    /\ UNCHANGED <<routes, plugins, wanted, main>>

(* One turn of the loop over the list as it is now: the iterator keeps a   *)
(* place, not a copy.                                                      *)
look(t) ==
    /\ scan[t].pc = "scan"
    /\ scan' = IF scan[t].at > Len(routes)
               THEN [scan EXCEPT ![t].pc = "missed"]
               ELSE IF matches(routes[scan[t].at], scan[t].request)
                    THEN [scan EXCEPT ![t].pc = "found", ![t].route = routes[scan[t].at]]
                    ELSE [scan EXCEPT ![t].at = @ + 1]
    /\ UNCHANGED <<routes, plugins, wanted, main>>

(* The request goes on with the route it has, or is answered with 404. *)
answer(t) ==
    /\ scan[t].pc \in {"found", "missed"}
    /\ scan' = [scan EXCEPT ![t] = NoScan]
    /\ UNCHANGED <<routes, plugins, wanted, main>>

Apply == add \/ remove \/ applied \/ \E p \in Plugins : load(p) \/ unload(p)
Serve(t) == look(t) \/ answer(t)

-----------------------------------------------------------------------------
RoutingTyped ==
    /\ plugins \subseteq Plugins /\ wanted \subseteq Plugins
    /\ main.does \in {"idle", "add", "remove"}
    /\ \A t \in Requesters : scan[t].pc \in {"idle", "scan", "found", "missed"}

(* A request for a route that was there all the while is answered with 404 *)
(* only if routes were removed in the meantime, and never if it is one of  *)
(* the core (httpd.py:171).                                                *)
MissedOnlyByRemoval ==
    \A t \in Requesters :
        scan[t].pc = "missed" /\ scan[t].here =>
            scan[t].removal /\ ~InList(scan[t].request, CoreRoutes)

(* A request goes to a plugin that is loaded, or being loaded; to one that *)
(* is not any more only if it was unloaded since the request came          *)
(* (httpd.py:225-297, routing.py:78).                                      *)
FoundIsLoaded ==
    \A t \in Requesters, p \in Plugins :
        /\ scan[t].pc = "found" /\ scan[t].route \in ToSet(RouteSet(p))
        /\ p \notin plugins
        => scan[t].removal \/ main.plugin = p

(* Routes of the set come in its order. *)
InOrder(list, set) ==
    \A k, l \in DOMAIN list, i, j \in DOMAIN set :
        list[k] = set[i] /\ list[l] = set[j] /\ i < j => k < l

(* When the main thread is not applying a configuration, the routes are    *)
(* those of the core and of the plugins that are loaded, none of them      *)
(* twice, the core's first and each plugin's in their order.               *)
RoutesOfPlugins ==
    main.does = "idle" =>
        /\ SubSeq(routes, 1, Len(Core)) = CoreRoutes
        /\ ToSet(routes) = ToSet(CoreRoutes) \cup UNION {ToSet(RouteSet(p)) : p \in plugins}
        /\ Len(routes) = Cardinality(ToSet(routes))
        /\ \A p \in plugins : InOrder(routes, RouteSet(p))

================================================================================
