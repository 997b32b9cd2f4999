----------------------------- MODULE WebServer -----------------------------
(* Class WebServer of MongooseCpp: routes are added, then requests come in   *)
(* one at a time from the poll loop and the controllers are tried in the     *)
(* order of their routes.  The Request object, with the parameters it keeps, *)
(* is the same for all the routes that are tried.                            *)
(*                                                                           *)
(* The controllers are those of the library: "type" is a TypeController,     *)
(* "api" an ApiController without handlers, any other one of an application. *)
EXTENDS WebRoutes, FiniteSets

CONSTANTS
  Routes,       \* the routes applications add
  Uris,         \* the uris that are requested
  Methods,      \* the methods of the requests
  Controllers,  \* the controllers
  Declining,    \* those whose Process returns false
  IdName,       \* the parameter "Id" of TypeController
  MaxRoutes     \* bound: no route is offered beyond

ASSUME WebAssumption == /\ Declining \subseteq Controllers /\ MaxRoutes \in Nat
                         /\ "" \in Words /\ IdName \in Names

VARIABLES
  controllers,  \* m_Controllers
  offered,      \* what the last AddRoute was given, returned and put in m_LastError
  request,      \* the request in progress
  response      \* the answer to the request, until the handler returns

webVars == <<controllers, offered, request, response>>

Request(uri, method, params, next) ==
  [uri |-> uri, method |-> method, params |-> params, next |-> next]

NoRequest == Request(<<>>, "", NoParameters, 0)

Offer(route, error) == [route |-> route, ok |-> error = "", error |-> error]

NoOffer == Offer(<<>>, "")

(* `by' is the route that answered, 0 for none; handler and id are what its  *)
(* controller called.                                                        *)
Response(by, handler, id, status, to) ==
  [by |-> by, handler |-> handler, id |-> id, status |-> status, to |-> to]

NoResponse == Response(0, "", "", 200, NoRequest)

-----------------------------------------------------------------------------
AddRoute(route, controller) ==
  LET p == ParseRoute(route)
  IN  /\ request = NoRequest /\ response = NoResponse /\ Len(controllers) < MaxRoutes
      /\ offered' = Offer(route, p.error)
      /\ \/ /\ p.error = ""
            /\ controllers' = Append(controllers, [controller |-> controller, parts |-> p.parts])
         \/ /\ p.error # ""
            /\ UNCHANGED controllers
      /\ UNCHANGED <<request, response>>

(* StaticEventHandler and the head of EventHandler.                          *)
Receive(uri, method) ==
  /\ request = NoRequest /\ response = NoResponse /\ controllers # <<>>
  /\ request' = Request(uri, method, NoParameters, 1)
  /\ offered' = NoOffer
  /\ UNCHANGED <<controllers, response>>

(* TypeController and ApiController: the handler a request is given to.      *)
TypeHandler(method, id) ==
  CASE method = "GET" /\ id = ""                 -> [handler |-> "GetList", status |-> 200]
    [] method = "GET" /\ id # ""                 -> [handler |-> "Get", status |-> 200]
    [] method \in {"PUT", "DELETE"} /\ id = ""   -> [handler |-> "", status |-> 500]
    [] method \in {"PUT", "DELETE"} /\ id # ""   -> [handler |-> method, status |-> 200]
    [] method = "POST"                           -> [handler |-> "POST", status |-> 200]
    [] OTHER                                     -> [handler |-> "", status |-> 405]

Handler(controller, method, id) ==
  CASE controller = "type" -> TypeHandler(method, id)
    [] controller = "api"  -> [handler |-> "", status |-> 405]
    [] OTHER               -> [handler |-> "Process", status |-> 200]

Tried == controllers[request.next]

Outcome == matchUrl(request.uri, request.params, Tried.parts)

(* The parameters a route that did not answer leaves behind.                 *)
Kept == Outcome.params

(* The route does not match, or its controller leaves the request to others. *)
TryNext ==
  /\ request # NoRequest /\ request.next <= Len(controllers)
  /\ Outcome.verdict = "fail" \/ Tried.controller \in Declining
  /\ request' = Request(request.uri, request.method, Kept, request.next + 1)
  /\ UNCHANGED <<controllers, offered, response>>

Process ==
  /\ request # NoRequest /\ request.next <= Len(controllers)
  /\ Outcome.verdict = "match" /\ Tried.controller \notin Declining
  /\ LET id  == Outcome.params[IdName]
         use == Handler(Tried.controller, request.method, id)
     IN  response' = Response(request.next, use.handler, id, use.status,
                              Request(request.uri, request.method, Outcome.params, 0))
  /\ request' = NoRequest
  /\ UNCHANGED <<controllers, offered>>

NotFoundError ==
  /\ request # NoRequest /\ request.next > Len(controllers)
  /\ response' = Response(0, "", "", 404, Request(request.uri, request.method, request.params, 0))
  /\ request' = NoRequest
  /\ UNCHANGED <<controllers, offered>>

(* The handler returns: Request and Response are gone.                       *)
EndHandler ==
  /\ response # NoResponse
  /\ response' = NoResponse
  /\ UNCHANGED <<controllers, offered, request>>

WebInit ==
  /\ controllers = <<>>
  /\ offered = NoOffer
  /\ request = NoRequest
  /\ response = NoResponse

WebNext ==
  \/ \E route \in Routes, controller \in Controllers : AddRoute(route, controller)
  \/ \E uri \in Uris, method \in Methods : Receive(uri, method)
  \/ TryNext \/ Process \/ NotFoundError \/ EndHandler

WebSpec == WebInit /\ [][WebNext]_webVars

-----------------------------------------------------------------------------
(* The four messages of AddRoute, said of the whole route.                   *)
WellFormed(route) ==
  \A k \in 1 .. Len(route) :
    /\ route[k].form \in {"word", "braces", "brackets", "star"}
    /\ route[k].form = "star" => k = Len(route)
    /\ route[k].form \in {"word", "braces"} =>
         \A j \in 1 .. k : route[j].form # "brackets"

(* AddRoute, a loop with two flags, refuses a route exactly when one of its  *)
(* tokens is none, its * is not at the end, or one of its optional           *)
(* parameters is not at the end.                                             *)
ParsesWellFormed == offered.ok <=> WellFormed(offered.route)

(* A uri has no empty part after the first.                                  *)
Plain(uri) == \A k \in 2 .. Len(uri) : uri[k] # ""

PartAt(uri, k) == IF k <= Len(uri) THEN uri[k] ELSE ""

(* A route, without the loop that compares it: its fixed parts are at their  *)
(* place, its required ones are there, and nothing follows but under a *.    *)
Describes(parts, uri) ==
  LET open  == {k \in 1 .. Len(parts) : parts[k].name = "*"}
      bound == IF open = {} THEN Len(parts) ELSE (CHOOSE k \in open : TRUE) - 1
  IN  /\ open = {} => Len(uri) <= Len(parts)
      /\ \A k \in 1 .. bound :
           /\ parts[k].paramType = "Fixed" => PartAt(uri, k) = parts[k].name
           /\ parts[k].paramType = "Required" => PartAt(uri, k) # ""

Answers(k, uri) ==
  Describes(controllers[k].parts, uri) /\ controllers[k].controller \notin Declining

(* EventHandler gives a request to the first route that describes its uri,   *)
(* and to none only when no route does.                                      *)
FirstRouteAnswers ==
  response.to.uri # <<>> /\ Plain(response.to.uri) =>
    LET able == {k \in 1 .. Len(controllers) : Answers(k, response.to.uri)}
    IN  IF able = {} THEN response.by = 0
        ELSE response.by \in able /\ \A k \in able : response.by <= k

(* A name of a parameter stands at one place in all the routes.              *)
SamePlaces ==
  \A i, j \in 1 .. Len(controllers) :
    \A k \in 1 .. Len(controllers[i].parts), l \in 1 .. Len(controllers[j].parts) :
      LET p == controllers[i].parts[k]
          q == controllers[j].parts[l]
      IN  p.name = q.name /\ p.paramType # "Fixed" /\ q.paramType # "Fixed" => k = l

(* matchUrl stores parameters before it knows that it matches, and the       *)
(* Request keeps those of the routes that failed: the parameters a           *)
(* controller reads are still those of its own route, as long as a name      *)
(* stands at one place in all the routes.                                    *)
OwnParameters ==
  response.by # 0 /\ SamePlaces =>
    \A k \in 1 .. Len(controllers[response.by].parts) :
      LET part == controllers[response.by].parts[k]
      IN  part.paramType # "Fixed" /\ part.name # "*" =>
            response.to.params[part.name] = PartAt(response.to.uri, k)
=============================================================================
