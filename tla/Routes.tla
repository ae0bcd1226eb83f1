------------------------------- MODULE Routes -------------------------------
(***************************************************************************)
(* The routes of the three applications, and the calls their use cases     *)
(* make to one another.  An application tries its routes in the order of   *)
(* their declaration; the authentication middleware runs before, on the    *)
(* routes of the controllers it is configured for.                         *)
(***************************************************************************)
EXTENDS Naturals, Sequences

CONSTANTS
    Segments,   \* what may stand between two slashes
    Glued,      \* Glued[p]: the segments that a pattern p:id fits
    Requests    \* what clients send

Applications == {"user", "auth", "cat"}

\* A parameter fits more than one segment
ASSUME RoutesAssumption ==
    /\ \A r \in Requests : r.app \in Applications
    /\ \A s \in Segments : Segments # {s}
    /\ \A p \in {"change-password", "add-permissions", "remove-permissions"} :
          \A s \in Glued[p] : Glued[p] # {s}

VARIABLES
    stack,      \* the request of a client, and the call its use case is making
    last        \* the last answer

vars == <<stack, last>>

\* A pattern is the segments it fits
Is(p) == {p}
Id == Segments

Route(method, prefix, path, controller, handler) ==
    [method |-> method, prefix |-> prefix, path |-> path,
     controller |-> controller, handler |-> handler]

Health == Route("GET", "", <<Is("health")>>, "health", "getHello")

UserRoutes ==
  <<Route("POST",   "api/v1", <<Is("users")>>, "users", "createUser"),
    Route("PUT",    "api/v1", <<Is("users"), Id>>, "users", "updateUser"),
    Route("GET",    "api/v1", <<Is("users")>>, "users", "listUsers"),
    Route("GET",    "api/v1", <<Is("users"), Is("me")>>, "users", "me"),
    Route("GET",    "api/v1", <<Is("users"), Is("search")>>, "users", "searchUser"),
    Route("GET",    "api/v1", <<Is("users"), Id>>, "users", "getUser"),
    Route("PUT",    "api/v1", <<Is("users"), Glued["change-password"]>>, "users", "changePassword"),
    Route("DELETE", "api/v1", <<Is("users"), Id>>, "users", "deleteUser")>>

RoleRoutes ==
  <<Route("POST",   "api/v1", <<Is("roles")>>, "roles", "createRole"),
    Route("PUT",    "api/v1", <<Is("roles"), Id>>, "roles", "updateRole"),
    Route("GET",    "api/v1", <<Is("roles"), Id>>, "roles", "getRole"),
    Route("GET",    "api/v1", <<Is("roles")>>, "roles", "listRoles"),
    Route("DELETE", "api/v1", <<Is("roles"), Id>>, "roles", "deleteRole"),
    Route("PUT",    "api/v1", <<Is("roles"), Glued["add-permissions"]>>, "roles", "addPermissions"),
    Route("PUT",    "api/v1", <<Is("roles"), Glued["remove-permissions"]>>, "roles", "removePermissions")>>

PermissionRoutes ==
  <<Route("POST",   "api/v1", <<Is("permissions")>>, "permissions", "createPermission"),
    Route("PUT",    "api/v1", <<Is("permissions"), Id>>, "permissions", "updatePermission"),
    Route("GET",    "api/v1", <<Is("permissions"), Id>>, "permissions", "getPermission"),
    Route("GET",    "api/v1", <<Is("permissions")>>, "permissions", "listPermissions"),
    Route("DELETE", "api/v1", <<Is("permissions"), Id>>, "permissions", "deletePermission")>>

CatRoutes ==
  <<Route("POST",   "api/v1", <<Is("cats")>>, "cats", "createCat"),
    Route("PUT",    "api/v1", <<Is("cats"), Id>>, "cats", "updateCat"),
    Route("GET",    "api/v1", <<Is("cats"), Id>>, "cats", "getCat"),
    Route("GET",    "api/v1", <<Is("cats")>>, "cats", "listCats"),
    Route("DELETE", "api/v1", <<Is("cats"), Id>>, "cats", "deleteCat")>>

LoginRoutes ==
  <<Route("POST", "api/v1", <<Is("login")>>, "login", "login"),
    Route("POST", "api/v1", <<Is("refresh")>>, "login", "refresh")>>

LogoutRoutes == <<Route("POST", "api/v1", <<Is("logout")>>, "logout", "logout")>>

ResetPasswordRoutes ==
  <<Route("POST", "api/v1", <<Is("reset-password"), Is("send-email")>>, "reset-password", "sendEmail"),
    Route("PUT",  "api/v1", <<Is("reset-password"), Id>>, "reset-password", "confirmResetPassword")>>

RoutesOf(app) ==
    CASE app = "user" -> <<Health>> \o PermissionRoutes \o RoleRoutes \o UserRoutes
      [] app = "auth" -> <<Health>> \o ResetPasswordRoutes \o LoginRoutes \o LogoutRoutes
      [] app = "cat"  -> <<Health>> \o CatRoutes

Fits(path, url) ==
    Len(path) = Len(url) /\ \A n \in 1 .. Len(path) : url[n] \in path[n]

\* The routes of an application a request fits, by their place in the order
Matching(r) ==
    {n \in 1 .. Len(RoutesOf(r.app)) :
        LET t == RoutesOf(r.app)[n] IN
        t.method = r.method /\ t.prefix = r.prefix /\ Fits(t.path, r.url)}

\* The first of them, if there is one
Taken(r) == {n \in Matching(r) : \A k \in Matching(r) : n <= k}

Guarded == {"users", "roles", "permissions", "cats", "logout"}

\* Mutant: .exclude('(.*)/search') whatever the method
ExcludedAnyMethod(r) == r.prefix = "api/v1" /\ r.url[Len(r.url)] = "search"

\* Mutant: no .exclude
ExcludedNothing(r) == FALSE

\* .exclude({ method: GET, path: '(.*)/search', version: '1' }) of the users
Excluded(r) == r.method = "GET" /\ r.prefix = "api/v1" /\ r.url[Len(r.url)] = "search"

\* The middleware runs on a request that fits any route of a guarded controller
NeedsToken(r) ==
    \E n \in Matching(r) :
        LET t == RoutesOf(r.app)[n] IN
        t.controller \in Guarded /\ ~ (t.controller = "users" /\ Excluded(r))

\* A call to the user application carries no token
CallTo(method, prefix, url) ==
    [app |-> "user", method |-> method, prefix |-> prefix, url |-> url, token |-> FALSE]

\* The calls a handler makes, each one after the success of the one before
Calls(handler) ==
    CASE handler \in {"login", "refresh"} -> <<CallTo("GET", "api/v1", <<"users", "search">>)>>
      [] handler = "sendEmail" -> <<CallTo("GET", "", <<"find-by">>)>>
      [] handler = "confirmResetPassword" ->
            <<CallTo("GET", "api/vi", <<"users", "find-by">>), CallTo("POST", "api/vi", <<"users">>)>>
      [] OTHER -> <<>>

Statuses == {"ok", "refused", "noRoute", "noToken"}
Handlers ==
    {t.handler : t \in UNION {{RoutesOf(a)[n] : n \in 1 .. Len(RoutesOf(a))} : a \in Applications}}
Calling ==
    [app : {"user"}, method : {"GET", "POST"}, prefix : {"", "api/v1", "api/vi"},
     url : {<<"users", "search">>, <<"users", "find-by">>, <<"users">>, <<"find-by">>}, token : {FALSE}]
Frame == [request : Requests \cup Calling, at : {"sent", "admitted", "handling"},
          handler : Handlers \cup {"none"}, calls : 0 .. 2]

TypeOK ==
    /\ \A n \in 1 .. Len(stack) : stack[n] \in Frame
    /\ Len(stack) <= 2
    /\ last \in Statuses \cup {"none"}

-----------------------------------------------------------------------------
Init == stack = <<>> /\ last = "none"

Top == stack[Len(stack)]
Below == SubSeq(stack, 1, Len(stack) - 1)
Arriving(r) == [request |-> r, at |-> "sent", handler |-> "none", calls |-> 0]
Reply(status) == stack' = Below /\ last' = status

Send(r) == stack = <<>> /\ stack' = <<Arriving(r)>> /\ last' = "none"

Authenticate ==
    /\ stack # <<>> /\ Top.at = "sent"
    /\ IF NeedsToken(Top.request) /\ ~Top.request.token
       THEN Reply("noToken")
       ELSE stack' = Append(Below, [Top EXCEPT !.at = "admitted"]) /\ UNCHANGED last

\* The first route that fits is the one that is taken
Dispatch ==
    /\ stack # <<>> /\ Top.at = "admitted"
    /\ \/ Matching(Top.request) = {} /\ Reply("noRoute")
       \/ /\ \E n \in Taken(Top.request) :
                LET t == RoutesOf(Top.request.app)[n] IN
                stack' = Append(Below, [Top EXCEPT !.at = "handling", !.handler = t.handler])
          /\ UNCHANGED last

\* The call of a use case that has not failed so far
Failed == Top.calls > 0 /\ last # "ok"
Call ==
    /\ stack # <<>> /\ Top.at = "handling" /\ ~Failed
    /\ Top.calls < Len(Calls(Top.handler))
    /\ stack' = Append(Append(Below, [Top EXCEPT !.calls = @ + 1]),
                       Arriving(Calls(Top.handler)[Top.calls + 1]))
    /\ last' = "none"

\* An error of a call is the answer, or the handler has its own
Finish ==
    /\ stack # <<>> /\ Top.at = "handling"
    /\ \/ Failed /\ Reply(last)
       \/ ~Failed /\ Top.calls = Len(Calls(Top.handler)) /\ \E a \in {"ok", "refused"} : Reply(a)
-----------------------------------------------------------------------------
Next == (\E r \in Requests : Send(r)) \/ Authenticate \/ Dispatch \/ Call \/ Finish

Spec == Init /\ [][Next]_vars

-----------------------------------------------------------------------------
(***************************************************************************)
(* What changes users, roles, permissions, cats or the blacklist runs only *)
(* for a request that came with a token, also where a path fits several    *)
(* routes or ends like the one that is excluded, and also for calls from   *)
(* handlers that need none.                                                *)
(***************************************************************************)
Writers ==
    {"createUser", "updateUser", "changePassword", "deleteUser", "createRole", "updateRole",
     "deleteRole", "addPermissions", "removePermissions", "createPermission", "updatePermission",
     "deletePermission", "createCat", "updateCat", "deleteCat", "logout"}
WritesNeedToken ==
    \A n \in 1 .. Len(stack) : stack[n].handler \in Writers => stack[n].request.token

(***************************************************************************)
(* Login and refresh look their user up without a token: the call reaches  *)
(* the search, past the middleware and past Get(':id').                    *)
(***************************************************************************)
LoginsGetThrough ==
    [][\A n \in 1 .. Len(stack) :
          stack[n].handler \in {"login", "refresh"} /\ Len(stack) = n + 1 =>
             /\ Top.at = "handling" => Top.handler = "searchUser"
             /\ Len(stack') = n => last' \notin {"noRoute", "noToken"}]_vars

(***************************************************************************)
(* A route without parameters gets every request for its path, whatever    *)
(* routes with parameters fit it, too.                                     *)
(***************************************************************************)
Static(t, r) == t.path = [n \in 1 .. Len(r.url) |-> Is(r.url[n])]
StaticRoutesFirst ==
    \A n \in 1 .. Len(stack) :
        stack[n].at = "handling" =>
            \A k \in Matching(stack[n].request) :
                LET t == RoutesOf(stack[n].request.app)[k] IN
                Static(t, stack[n].request) => t.handler = stack[n].handler

-----------------------------------------------------------------------------
(***************************************************************************)
(* The inductive invariant behind WritesNeedToken (RequestsProofs): the    *)
(* request of a client is at the bottom, and a call to the user            *)
(* application, whose handlers call nobody, on top of it.                  *)
(***************************************************************************)
Callers == {"login", "refresh", "sendEmail", "confirmResetPassword"}
FrameInv(f) ==
    /\ f.request.app \in Applications
    /\ f.at # "sent" /\ NeedsToken(f.request) => f.request.token
    /\ f.handler \in Writers => f.request.token
    /\ f.handler \in Callers => f.request.app = "auth"

RoutesInv ==
    /\ stack \in Seq(Frame) /\ last \in Statuses \cup {"none"} /\ Len(stack) <= 2
    /\ \A n \in 1 .. Len(stack) : FrameInv(stack[n]) /\ (n = 2 => stack[n].request.app = "user")

\* Behind StaticRoutesFirst and LoginsGetThrough: who handles a request is who was
\* taken, and the call of a login is that for the search, which calls nobody
Served(f) == f.at = "handling" => \E k \in Taken(f.request) : RoutesOf(f.request.app)[k].handler = f.handler
SearchCall == CallTo("GET", "api/v1", <<"users", "search">>)
LookupInv ==
    /\ RoutesInv
    /\ \A n \in 1 .. Len(stack) : Served(stack[n])
    /\ Len(stack) = 2 =>
          stack[2].calls = 0 /\ (stack[1].handler \in {"login", "refresh"} => stack[2].request = SearchCall)
=============================================================================
