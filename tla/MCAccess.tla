------------------------------ MODULE MCAccess ------------------------------
(* Access.tla on a small instance. *)
EXTENDS Access

Key == {NoKey, OperatorKey, 1, 2, 3}    \* none, the operator's, two players', the service's

Flow(routes, keys, retries, length) ==
    [routes |-> routes, keys |-> keys, users |-> {1}, retries |-> retries, scopes |-> Scopes,
     locked |-> TRUE, burst |-> 0, losses |-> FALSE, length |-> length]

NamedRetry == {"retry", NoRetry}
Command(names) == {route \in Routes : route.command \in names}
ServiceRoute == {route \in Routes : route.by \in {"trusted", "goods", "wallet"}}

\* Every route by itself, with every key, on an open and on a locked server.
EachRoute ==
    {[Flow({route}, Key, {NoRetry}, 1) EXCEPT !.locked = locked] :
       route \in Routes \ ServiceRoute, locked \in BOOLEAN}

\* A route services may use, against each scope by itself.
EachScope ==
    {[Flow({route}, Key, {NoRetry}, 1) EXCEPT !.scopes = {scope}, !.locked = locked] :
       route \in ServiceRoute, scope \in Scopes, locked \in BOOLEAN}

\* The same routes while the service's key is taken away.
Revocations ==
    {[Flow({route} \cup Command({"RevokeService"}), {OperatorKey, 3}, {NoRetry}, 2)
        EXCEPT !.locked = locked] :
       route \in ServiceRoute, locked \in BOOLEAN}

\* Creating things with lost responses and retries under the same key.
Creations ==
    {[Flow(Command(names), {OperatorKey}, NamedRetry, 2) EXCEPT !.losses = TRUE] :
       names \in {{"CreateUser", "SignUp"}, {"CreateUser", "CreateService"}}}
      \cup {[Flow(Command(names), {OperatorKey}, {"retry"}, 3) EXCEPT !.losses = TRUE] :
              names \in {{"CreateService"}, {"ProvisionPlayer", "GetCommand"}}}

\* One player closes its account, and another sends the same request.
Closings == {Flow(Command({"Close"}), {1, 2}, NamedRetry, 2)}

\* A service made on an open server, and then at work with the key it was told.
NewService ==
    {[Flow(Command({"CreateService", "PayReward"}), {OperatorKey, 4}, {NoRetry}, 2)
        EXCEPT !.locked = locked] : locked \in BOOLEAN}

\* Two players whose requests are all refused, for nothing but the counting.
Bursts == {[Flow(Command({"Mint"}), {1, 2}, {NoRetry}, 4) EXCEPT !.burst = 2]}

MCFlows == EachRoute \cup EachScope \cup Revocations \cup Creations \cup Closings \cup NewService
             \cup Bursts
=============================================================================
