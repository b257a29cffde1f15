----------------------------- MODULE TokenCache -----------------------------
(***************************************************************************)
(* internal/auth: requests that are authenticated by a token, which the     *)
(* Validator looks up in Redis, asks the Laravel API for and writes to      *)
(* Redis in three steps, and the middlewares that read the user it returns. *)
(***************************************************************************)
EXTENDS Integers, FiniteSets

CONSTANTS
  Token,
  Account,       \* what the API may say of the holder of a token
  Admin,         \* the accounts whose role is admin
  Verified,      \* those with a verified address
  Request,
  Absent,        \* no token, no account
  Malformed,     \* an Authorization header that is not "Bearer <token>"
  TokenTTL,      \* cfg.Auth.CacheTTL
  TokenHorizon   \* bound on the clock

ASSUME TokenAssumption ==
  /\ Admin \subseteq Account /\ Verified \subseteq Account
  /\ Absent \notin Token \cup Account /\ Malformed \notin Token
  /\ {TokenTTL, TokenHorizon} \subseteq Nat

VARIABLES
  minute,   \* the clock
  holder,   \* whom the API takes the holder of a token for
  stored,   \* the entries of Redis, by their tokens
  request,  \* what each request does
  held      \* history: when each account was last the holder of a token

tokenVars == <<minute, holder, stored, request, held>>

Route == {"optional", "required", "verified", "admin"}
Fresh == [step |-> "new", route |-> "optional", token |-> Absent, user |-> Absent]

-----------------------------------------------------------------------------

\* extractToken: the header, the query parameter, the cookie.
ExtractToken(header, param, cookie) ==
  IF header \in Token THEN header ELSE IF param \in Token THEN param ELSE cookie

\* RequireEmailVerification and RequireAdmin, after Authenticate.
Permits(route, user) ==
  CASE route = "verified" -> user \in Verified
    [] route = "admin"    -> user \in Admin
    [] OTHER              -> TRUE

Present(entry)   == entry.user # Absent
Unexpired(entry) == entry.user # Absent /\ minute < entry.at + TokenTTL

TokenInit ==
  /\ minute  = 0
  /\ holder  = [t \in Token |-> Absent]
  /\ stored  = [t \in Token |-> [user |-> Absent, at |-> 0]]
  /\ request = [r \in Request |-> Fresh]
  /\ held    = [t \in Token |-> [a \in Account |-> -1]]

\* The API issues a token, revokes it or changes what it says of its holder.
ChangeHolder(token, user) ==
  /\ holder[token] # user
  /\ holder' = [holder EXCEPT ![token] = user]
  /\ held'   = IF user = Absent THEN held ELSE [held EXCEPT ![token][user] = minute]
  /\ UNCHANGED <<minute, stored, request>>

\* InvalidateToken.
InvalidateToken(token) ==
  /\ stored' = [stored EXCEPT ![token] = [user |-> Absent, at |-> 0]]
  /\ UNCHANGED <<minute, holder, request, held>>

Go(r, step, user) == request' = [request EXCEPT ![r].step = step, ![r].user = user]

\* What becomes of a request whose user is known.
Admit(r, user) == Go(r, IF Permits(request[r].route, user) THEN "served" ELSE "forbidden", user)
Refuse(r) == Go(r, IF request[r].route = "optional" THEN "served" ELSE "refused", Absent)

Arrive(r, route, header, param, cookie) ==
  LET token == ExtractToken(header, param, cookie) IN
  /\ request[r].step = "new"
  /\ request' = [request EXCEPT ![r] =
       [step  |-> IF token # Absent THEN "lookup"
                  ELSE IF route = "optional" THEN "served" ELSE "refused",
        route |-> route, token |-> token, user |-> Absent]]
  /\ UNCHANGED <<minute, holder, stored, held>>

\* GetUser; an error of Redis counts as a miss.
LookUpToken(r) ==
  LET entry == stored[request[r].token] IN
  /\ request[r].step = "lookup"
  /\ \/ Unexpired(entry) /\ Admit(r, entry.user)
     \/ Go(r, "ask", Absent)
  /\ UNCHANGED <<minute, holder, stored, held>>

\* validateWithAPI: the user, or an error, which may also be one of the connection.
AskAPI(r) ==
  LET user == holder[request[r].token] IN
  /\ request[r].step = "ask"
  /\ \/ user # Absent /\ Go(r, "save", user)
     \/ Refuse(r)
  /\ UNCHANGED <<minute, holder, stored, held>>

\* SetUser, whose error is only logged.
SaveUser(r) ==
  LET user == request[r].user IN
  /\ request[r].step = "save"
  /\ \/ stored' = [stored EXCEPT ![request[r].token] = [user |-> user, at |-> minute]]
     \/ UNCHANGED stored
  /\ Admit(r, user)
  /\ UNCHANGED <<minute, holder, held>>

Finish(r) ==
  /\ request[r].step \in {"served", "refused", "forbidden"}
  /\ request' = [request EXCEPT ![r] = Fresh]
  /\ UNCHANGED <<minute, holder, stored, held>>

\* A request takes less than a unit of time.
PassMinute ==
  /\ minute < TokenHorizon /\ \A r \in Request : request[r] = Fresh
  /\ minute' = minute + 1
  /\ held' = [t \in Token |-> [a \in Account |->
                IF holder[t] = a THEN minute + 1 ELSE held[t][a]]]
  /\ UNCHANGED <<holder, stored, request>>

TokenNext ==
  \/ \E t \in Token : \E a \in Account \cup {Absent} : ChangeHolder(t, a)
  \/ \E t \in Token : InvalidateToken(t)
  \/ \E r \in Request, route \in Route, header \in Token \cup {Absent, Malformed},
        param, cookie \in Token \cup {Absent} : Arrive(r, route, header, param, cookie)
  \/ \E r \in Request : LookUpToken(r) \/ AskAPI(r) \/ SaveUser(r) \/ Finish(r)
  \/ PassMinute

TokenSpec == TokenInit /\ [][TokenNext]_tokenVars

-----------------------------------------------------------------------------
(* Properties.                                                              *)

Steps    == {"new", "lookup", "ask", "save", "served", "refused", "forbidden"}
Requests == [step : Steps, route : Route, token : Token \cup {Absent},
             user : Account \cup {Absent}]

TokenTypeOK ==
  /\ minute  \in 0..TokenHorizon
  /\ holder  \in [Token -> Account \cup {Absent}]
  /\ stored  \in [Token -> [user : Account \cup {Absent}, at : 0..TokenHorizon]]
  /\ request \in [Request -> Requests]
  /\ held    \in [Token -> [Account -> -1..TokenHorizon]]

\* A user that a request is served as was the holder of its token at most the TTL of the
\* cache ago, and the route is one for that user - although the token may be revoked or
\* invalidated, or its holder changed, between the answer of the API and the write to
\* Redis (Validator.ValidateToken), and any step but the API's may fail.
ServedAsHolder ==
  \A r \in Request :
    LET q == request[r] IN
    /\ q.step = "served" /\ q.route # "optional" => q.user # Absent
    /\ q.step = "served" /\ q.user # Absent =>
         /\ held[q.token][q.user] >= minute - TokenTTL
         /\ Permits(q.route, q.user)
=============================================================================
