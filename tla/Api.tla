-------------------------------- MODULE Api --------------------------------
(***************************************************************************)
(* The routes of the HTTP server and the guard before them: which handler  *)
(* a request reaches, and whether it is let in. What the handlers do is in *)
(* the other modules.                                                      *)
(*                                                                         *)
(* Routes are tried in the order in which the controllers declare them. A  *)
(* path is a sequence of segments; a segment that begins with a colon      *)
(* takes any text. The operator named ...Fault is a plausible mistake in   *)
(* the one it precedes; no specification uses it.                          *)
(***************************************************************************)
EXTENDS Naturals, Sequences

CONSTANTS
    Users       \* ids of users, and of the other resources, as texts

VARIABLES
    session,    \* id in the cookie of the client, "" when it has none
    asked,      \* index of the route the client means, 0: nothing is asked
    path,       \* path that it asks for
    reached,    \* index of the handler that is found, 0: none yet
    status      \* "idle", "asked", "found", then "served" or "refused"

vars == <<session, asked, path, reached, status>>

Route(verb, segments, guarded) == [verb |-> verb, path |-> segments, guarded |-> guarded]
Guarded(verb, segments) == Route(verb, segments, TRUE)
Open(verb, segments) == Route(verb, segments, FALSE)

Parameters == {":id", ":token", ":chain"}

(* -------------------------------- routes ------------------------------- *)

UserRoutes ==
    <<Open("POST", <<"user", "register">>), Open("GET", <<"user", "login">>),
      Open("POST", <<"user", "login">>), Guarded("GET", <<"user", "whoami">>),
      Open("POST", <<"user", "logout">>), Open("GET", <<"user", ":id">>),
      Open("GET", <<"user">>), Guarded("PATCH", <<"user", ":id">>),
      Guarded("PATCH", <<"user", "fcm-token">>),
      Guarded("PATCH", <<"user", "notification-setting">>)>>

WalletRoutes ==
    <<Guarded("GET", <<"blockchain-wallet", "user", ":id", "tx-history">>),
      Guarded("GET", <<"blockchain-wallet", "user", ":id">>),
      Guarded("GET", <<"blockchain-wallet", ":token", ":chain", "balance">>),
      Guarded("POST", <<"blockchain-wallet", "connect">>),
      Guarded("POST", <<"blockchain-wallet", "faucet">>),
      Guarded("POST", <<"blockchain-wallet", "charge">>),
      Guarded("POST", <<"blockchain-wallet", "convert">>),
      Guarded("GET", <<"blockchain-wallet", "tx-history">>)>>

UploadRoutes ==
    <<Guarded("POST", <<"file-upload", "prediction-market">>),
      Guarded("POST", <<"file-upload", "pm-outcome">>),
      Guarded("POST", <<"file-upload", "pm-category">>)>>

CategoryRoutes ==
    <<Guarded("POST", <<"prediction-market", "category">>),
      Guarded("PATCH", <<"prediction-market", "category", ":id">>),
      Guarded("DELETE", <<"prediction-market", "category", ":id">>),
      Guarded("GET", <<"prediction-market", "category">>),
      Guarded("GET", <<"prediction-market", "category", ":id">>),
      Guarded("GET", <<"prediction-market", "oracle">>),
      Guarded("GET", <<"prediction-market", "oracle", ":id">>)>>

ListRoutes ==
    <<Guarded("POST", <<"prediction-market">>), Guarded("GET", <<"prediction-market">>)>>

ReservedRoutes ==
    <<Guarded("GET", <<"prediction-market", "reserved">>),
      Guarded("GET", <<"prediction-market", "reserved", ":id">>),
      Guarded("PATCH", <<"prediction-market", "reserved", ":id">>),
      Guarded("DELETE", <<"prediction-market", "reserved", ":id">>)>>

ChainRoutes ==
    <<Guarded("GET", <<"prediction-market", ":id", "collateral", "liquidity">>),
      Guarded("GET", <<"prediction-market", ":id", "collateral", "balance">>),
      Guarded("GET", <<"prediction-market", ":id", "ctf", "liquidity">>),
      Guarded("GET", <<"prediction-market", ":id", "ctf", "balance">>),
      Guarded("GET", <<"prediction-market", ":id", "ctf", "price">>),
      Guarded("GET", <<"prediction-market", ":id", "ctf", "marginal-price">>),
      Guarded("GET", <<"prediction-market", ":id", "ctf", "possibility">>)>>

StatisticsRoutes ==
    <<Guarded("GET", <<"prediction-market", "my-participation-stats">>),
      Guarded("GET", <<"prediction-market", "participation-stats">>),
      Guarded("GET", <<"prediction-market", "my-trades">>),
      Guarded("GET", <<"prediction-market", "my-trades", "total">>),
      Guarded("GET", <<"prediction-market", "my-markets">>),
      Guarded("POST", <<"prediction-market", "my-markets", ":id", "results-seen">>),
      Guarded("GET", <<"prediction-market", ":id", "my-trades">>),
      Guarded("GET", <<"prediction-market", ":id", "my-trades", "total">>)>>

TradeRoutes ==
    <<Guarded("POST", <<"prediction-market", "ctf", "buy">>),
      Guarded("POST", <<"prediction-market", "ctf", "sell">>),
      Guarded("GET", <<"prediction-market", ":id", "ctf", "whatuget">>),
      Guarded("GET", <<"prediction-market", ":id", "participants">>)>>

LifecycleRoutes ==
    <<Guarded("POST", <<"prediction-market", ":id", "force-close">>),
      Guarded("POST", <<"prediction-market", ":id", "change-liquidity">>),
      Guarded("POST", <<"prediction-market", ":id", "resolve">>),
      Guarded("POST", <<"prediction-market", ":id", "collect-fees">>),
      Guarded("POST", <<"prediction-market", ":id", "redeem">>)>>

MarketRoutes ==
    <<Guarded("GET", <<"prediction-market", ":id">>),
      Guarded("PATCH", <<"prediction-market", ":id", "pin">>),
      Guarded("PATCH", <<"prediction-market", ":id", "unpin">>),
      Guarded("PATCH", <<"prediction-market", ":id">>),
      Guarded("DELETE", <<"prediction-market", ":id">>),
      Guarded("POST", <<"prediction-market", "inform">>)>>

RoutesFault ==
    UserRoutes \o WalletRoutes \o UploadRoutes \o CategoryRoutes \o MarketRoutes \o ListRoutes
      \o ReservedRoutes \o ChainRoutes \o StatisticsRoutes \o TradeRoutes \o LifecycleRoutes
(* The controllers, in the order of their declarations.                     *)
Routes ==
    UserRoutes \o WalletRoutes \o UploadRoutes \o CategoryRoutes \o ListRoutes
      \o ReservedRoutes \o ChainRoutes \o StatisticsRoutes \o TradeRoutes
      \o LifecycleRoutes \o MarketRoutes

Fits(route, verb, segments) ==
    /\ route.verb = verb
    /\ Len(route.path) = Len(segments)
    /\ \A i \in DOMAIN segments :
         route.path[i] \in Parameters \/ route.path[i] = segments[i]

(* -------------------------------- guard -------------------------------- *)

(* What the parameter id of a route is in a request; "" if it has none.     *)
Id(route, segments) ==
    IF \E i \in DOMAIN segments : route.path[i] = ":id"
    THEN segments[CHOOSE i \in DOMAIN segments : route.path[i] = ":id"]
    ELSE ""

(* A session is enough, but a request that changes a resource must also     *)
(* carry the id of the user, of whatever resource it is the id.             *)
CanActivate(user, route, segments) ==
    /\ user # ""
    /\ route.verb \in {"PATCH", "PUT", "DELETE"} => Id(route, segments) = user

(* ------------------------------- requests ------------------------------ *)

SetSession(user) ==
    /\ asked = 0
    /\ session # user
    /\ session' = user
    /\ UNCHANGED <<asked, path, reached, status>>

Ask ==
    /\ asked = 0
    /\ asked' \in DOMAIN Routes
    /\ \E value \in Users :
         path' = [i \in DOMAIN Routes[asked'].path |->
                    IF Routes[asked'].path[i] \in Parameters
                    THEN value ELSE Routes[asked'].path[i]]
    /\ status' = "asked"
    /\ UNCHANGED <<session, reached>>

Find ==
    /\ status = "asked"
    /\ \E r \in DOMAIN Routes :
         /\ Fits(Routes[r], Routes[asked].verb, path)
         /\ \A before \in 1 .. r - 1 : ~Fits(Routes[before], Routes[asked].verb, path)
         /\ reached' = r
    /\ status' = "found"
    /\ UNCHANGED <<session, asked, path>>

Handle ==
    /\ status = "found"
    /\ status' = IF Routes[reached].guarded => CanActivate(session, Routes[reached], path)
                 THEN "served" ELSE "refused"
    /\ UNCHANGED <<session, asked, path, reached>>

Reply ==
    /\ status \in {"served", "refused"}
    /\ asked' = 0 /\ path' = <<>> /\ reached' = 0 /\ status' = "idle"
    /\ UNCHANGED session

Init == session = "" /\ asked = 0 /\ path = <<>> /\ reached = 0 /\ status = "idle"

Next == \/ \E user \in Users \union {""} : SetSession(user)
        \/ Ask \/ Find \/ Handle \/ Reply

Spec == Init /\ [][Next]_vars

(* ------------------------------ properties ----------------------------- *)

(* The routes that nothing reaches: PATCH user/:id takes their requests.    *)
Shadowed == {r \in DOMAIN Routes :
               Routes[r].path \in {<<"user", "fcm-token">>, <<"user", "notification-setting">>}}

(* Each request reaches the handler it means, though words and parameters   *)
(* share their places in the paths, and a logged-in user is refused only a  *)
(* change of a resource whose id is not the user's own. The settings of     *)
(* notifications and the fcm token are never reached.                       *)
RightHandler ==
    status \in {"served", "refused"} =>
        IF asked \in Shadowed
        THEN reached # asked /\ status = "refused"
        ELSE /\ reached = asked
             /\ (status = "refused" /\ session # "") =>
                  /\ Routes[asked].verb \in {"PATCH", "DELETE"}
                  /\ session \notin {path[i] : i \in DOMAIN path}

=============================================================================
