---------------------------- MODULE VropsClient ----------------------------
(* The vROps API client as the tool calls of several threads use it          *)
(* (src/actions/builtin/vrops/actions.py and vrops_client.py): the cache of  *)
(* clients, the session token each client holds, requests with and without   *)
(* re-authentication, and the registration of an adapter's resource kinds,   *)
(* which takes several requests. Nothing of this is locked.                  *)
(*                                                                           *)
(* There is one key in the cache, since server and user are settings. What a *)
(* request returns is left out, except whether its token was accepted.       *)
EXTENDS Naturals, Sequences, FiniteSets

CONSTANTS
  Threads,
  Kinds,       \* the resource kinds of the adapter, in the order of their creation
  MaxLapses,   \* bound: how often tokens lapse
  NoClient

ASSUME ThreadsAssumption == NoClient \notin Threads
ASSUME KindsAssumption == Kinds \in Seq(STRING)
ASSUME MaxLapsesAssumption == MaxLapses \in Nat

VARIABLES
  cache,    \* the client in _client_cache, or NoClient
  token,    \* token[c]: the token of client c, named for the thread that made it
  client,   \* client[t]: the client thread t works with
  pc,       \* pc[t]: where thread t is in its tool call
  job,      \* job[t]: the kind of call it makes
  header,   \* header[t]: the token in the headers it has built
  left,     \* left[t]: the resource kinds it has still to deal with
  result,   \* result[t]: how its last call ended
  excused,  \* excused[t]: the server lapsed tokens or refused one during its read
  epoch,    \* the server accepts the tokens issued in this epoch
  refusing, \* the server refuses to issue tokens
  kinds     \* the resource kinds there are on the server

serverVars == <<epoch, refusing, kinds>>
vars == <<cache, token, client, pc, job, header, left, result, excused, serverVars>>

NoToken == 0
Live(tk) == tk = epoch

Jobs == {"read", "write", "register"}

Init ==
  /\ cache = NoClient
  /\ token = [t \in Threads |-> NoToken]
  /\ client = [t \in Threads |-> NoClient]
  /\ pc = [t \in Threads |-> "idle"]
  /\ job = [t \in Threads |-> "read"]
  /\ header = [t \in Threads |-> NoToken]
  /\ left = [t \in Threads |-> <<>>]
  /\ result = [t \in Threads |-> "none"]
  /\ excused = [t \in Threads |-> FALSE]
  /\ epoch = 1
  /\ refusing \in BOOLEAN
  /\ kinds = {}

Goto(t, where) == pc' = [pc EXCEPT ![t] = where]

\* The end of a tool call, and of its local variables.
Return(t, how) ==
  /\ Goto(t, "idle")
  /\ result' = [result EXCEPT ![t] = how]
  /\ client' = [client EXCEPT ![t] = NoClient]
  /\ header' = [header EXCEPT ![t] = NoToken]
  /\ left' = [left EXCEPT ![t] = <<>>]

-----------------------------------------------------------------------------
(* Getting a client                                                          *)

Begin(t, j) ==
  /\ pc[t] = "idle"
  /\ Goto(t, "lookup")
  /\ job' = [job EXCEPT ![t] = j]
  /\ left' = [left EXCEPT ![t] = IF j = "register" THEN Kinds ELSE <<>>]
  /\ result' = [result EXCEPT ![t] = "none"]
  /\ excused' = [excused EXCEPT ![t] = FALSE]
  /\ UNCHANGED <<cache, token, client, header, serverVars>>

\* A lookup that stores the client before it has a token.
LookupStores(t) ==
  /\ pc[t] = "lookup"
  /\ IF cache = NoClient
     THEN /\ client' = [client EXCEPT ![t] = t]
          /\ token' = [token EXCEPT ![t] = NoToken]
          /\ cache' = t
          /\ Goto(t, "authenticate")
     ELSE /\ Goto(t, "fetch")
          /\ UNCHANGED <<cache, client, token>>
  /\ UNCHANGED <<job, header, left, result, excused, serverVars>>

\* A miss makes a client of its own, which nobody else sees yet.
Lookup(t) ==
  /\ pc[t] = "lookup"
  /\ IF cache = NoClient
     THEN /\ client' = [client EXCEPT ![t] = t]
          /\ token' = [token EXCEPT ![t] = NoToken]
          /\ Goto(t, "authenticate")
     ELSE /\ Goto(t, "fetch")
          /\ UNCHANGED <<client, token>>
  /\ UNCHANGED <<cache, job, header, left, result, excused, serverVars>>

\* The new client is stored only once it has its token.
StoreClient(t) ==
  /\ pc[t] = "cache"
  /\ cache' = client[t]
  /\ Goto(t, "fetch")
  /\ UNCHANGED <<token, client, job, header, left, result, excused, serverVars>>

\* The client returned is the one in the cache, by then perhaps another one.
Fetch(t) ==
  /\ pc[t] = "fetch"
  /\ client' = [client EXCEPT ![t] = cache]
  /\ Goto(t, "prepare")
  /\ UNCHANGED <<cache, token, job, header, left, result, excused, serverVars>>

-----------------------------------------------------------------------------
(* Authentication: the server issues a token, then the client stores it      *)

Authenticating == {"authenticate", "reauthenticate"}

Acquire(t) ==
  /\ pc[t] \in Authenticating
  /\ ~refusing
  /\ Goto(t, IF pc[t] = "authenticate" THEN "first token" ELSE "new token")
  /\ UNCHANGED <<cache, token, client, job, header, left, result, excused, serverVars>>

\* A refusal that _request lets through as an exception.
RefusedRaises(t) ==
  /\ pc[t] \in Authenticating
  /\ refusing
  /\ Return(t, IF pc[t] = "authenticate" THEN "no client" ELSE "raised")
  /\ excused' = [excused EXCEPT ![t] = TRUE]
  /\ UNCHANGED <<cache, token, job, serverVars>>

\* Refused, or not answered: authenticate returns False. For a new client that
\* ends the tool call; _request returns the response it has, a 401.
Refused(t) ==
  /\ pc[t] \in Authenticating
  /\ refusing
  /\ Return(t, IF pc[t] = "authenticate" THEN "no client" ELSE "401")
  /\ excused' = [excused EXCEPT ![t] = TRUE]
  /\ UNCHANGED <<cache, token, job, serverVars>>

\* A new token that is used but not kept.
StoreFirstToken(t) ==
  /\ pc[t] \in {"first token", "new token"}
  /\ token' = [token EXCEPT ![client[t]] = IF pc[t] = "first token" THEN epoch ELSE @]
  /\ Goto(t, IF pc[t] = "first token" THEN "cache" ELSE "prepare again")
  /\ UNCHANGED <<cache, client, job, header, left, result, excused, serverVars>>

StoreToken(t) ==
  /\ pc[t] \in {"first token", "new token"}
  /\ token' = [token EXCEPT ![client[t]] = epoch]
  /\ Goto(t, IF pc[t] = "first token" THEN "cache" ELSE "prepare again")
  /\ UNCHANGED <<cache, client, job, header, left, result, excused, serverVars>>

-----------------------------------------------------------------------------
(* Requests                                                                  *)

\* The token the headers of the second attempt are built with, when they are
\* those of the first attempt.
HeaderKept(t) == IF pc[t] = "prepare" THEN token[client[t]] ELSE header[t]

\* Headers are built from the token the client has at that moment.
HeaderToken(t) == token[client[t]]

Prepare(t) ==
  /\ pc[t] \in {"prepare", "prepare again"}
  /\ header' = [header EXCEPT ![t] = HeaderToken(t)]
  /\ Goto(t, CASE pc[t] = "prepare again" -> "send again"
               [] job[t] = "register" -> "check"
               [] OTHER -> "send")
  /\ UNCHANGED <<cache, token, client, job, left, result, excused, serverVars>>

\* A response other than 401, or none at all, is the caller's to deal with.
Served(t) ==
  /\ pc[t] \in {"send", "send again"}
  /\ Live(header[t])
  /\ Return(t, "served")
  /\ UNCHANGED <<cache, token, job, excused, serverVars>>

\* Only _request, which the reads go through, authenticates again, and once.
Rejected(t) ==
  /\ pc[t] \in {"send", "send again"}
  /\ ~Live(header[t])
  /\ IF pc[t] = "send" /\ job[t] = "read"
     THEN /\ Goto(t, "reauthenticate")
          /\ UNCHANGED <<result, client, header, left>>
     ELSE Return(t, "401")
  /\ UNCHANGED <<cache, token, job, excused, serverVars>>

-----------------------------------------------------------------------------
(* register_adapter_instance: the headers are built once, for all requests   *)

\* A kind is skipped if the server is known to have it. A check that fails in
\* any other way goes on to create it.
CheckKind(t) ==
  /\ pc[t] = "check"
  /\ left[t] # <<>>
  /\ \/ /\ Live(header[t])
        /\ Head(left[t]) \in kinds
        /\ left' = [left EXCEPT ![t] = Tail(@)]
        /\ UNCHANGED pc
     \/ /\ Goto(t, "create")
        /\ UNCHANGED left
  /\ UNCHANGED <<cache, token, client, job, header, result, excused, serverVars>>

\* What the server does with a request to create a kind, and whether it is
\* answered by a 2xx: it may refuse one it has, and its answer may be lost.
CreateOutcomes(t) ==
  LET k == Head(left[t])
  IN  {<<kinds, FALSE>>} \cup
      (IF Live(header[t]) THEN {kinds \cup {k}} \X BOOLEAN ELSE {})

\* A registration that goes on with the next kind after a failure.
CreateAnyway(t) ==
  /\ pc[t] = "create"
  /\ \E outcome \in CreateOutcomes(t) : kinds' = outcome[1]
  /\ left' = [left EXCEPT ![t] = Tail(@)]
  /\ Goto(t, "check")
  /\ UNCHANGED <<cache, token, client, job, header, result, excused, epoch, refusing>>

CreateKind(t) ==
  /\ pc[t] = "create"
  /\ \E outcome \in CreateOutcomes(t) :
       /\ kinds' = outcome[1]
       /\ IF outcome[2]
          THEN /\ left' = [left EXCEPT ![t] = Tail(@)]
               /\ Goto(t, "check")
               /\ UNCHANGED <<result, client, header>>
          ELSE Return(t, "not registered")
  /\ UNCHANGED <<cache, token, job, excused, epoch, refusing>>

Registered(t) ==
  /\ pc[t] = "check"
  /\ left[t] = <<>>
  /\ Return(t, "registered")
  /\ UNCHANGED <<cache, token, job, excused, serverVars>>

-----------------------------------------------------------------------------
(* The server                                                                *)

\* All tokens issued so far expire. One just issued outlives the 30 s its
\* authentication can take; a server that forgets tokens while one of them is on
\* its way to the client is left out.
Lapse ==
  /\ epoch <= MaxLapses
  /\ \A t \in Threads : pc[t] \notin {"first token", "new token"}
  /\ epoch' = epoch + 1
  /\ excused' = [t \in Threads |-> excused[t] \/ pc[t] # "idle"]
  /\ UNCHANGED <<cache, token, client, pc, job, header, left, result, refusing, kinds>>

Toggle ==
  /\ refusing' = ~refusing
  /\ UNCHANGED <<cache, token, client, pc, job, header, left, result, excused, epoch, kinds>>

Step(t) ==
  \/ Lookup(t) \/ StoreClient(t) \/ Fetch(t)
  \/ Acquire(t) \/ Refused(t) \/ StoreToken(t)
  \/ Prepare(t) \/ Served(t) \/ Rejected(t)
  \/ CheckKind(t) \/ CreateKind(t) \/ Registered(t)

Next ==
  \/ \E t \in Threads : Step(t) \/ \E j \in Jobs : Begin(t, j)
  \/ Lapse
  \/ Toggle

\* A tool call, once begun, goes on: every request has a timeout.
Fairness == \A t \in Threads : WF_vars(Step(t))

Spec == Init /\ [][Next]_vars /\ Fairness

-----------------------------------------------------------------------------
(* Properties                                                                *)

Places == {"idle", "lookup", "authenticate", "first token", "cache", "fetch",
           "prepare", "send", "reauthenticate", "new token", "prepare again",
           "send again", "check", "create"}

Results == {"none", "no client", "served", "401", "registered", "not registered"}

KindSet == {Kinds[i] : i \in 1 .. Len(Kinds)}

TypeOK ==
  /\ cache \in Threads \cup {NoClient}
  /\ token \in [Threads -> 0 .. MaxLapses + 1]
  /\ client \in [Threads -> Threads \cup {NoClient}]
  /\ pc \in [Threads -> Places]
  /\ job \in [Threads -> Jobs]
  /\ header \in [Threads -> 0 .. MaxLapses + 1]
  /\ left \in [Threads -> Seq(KindSet)]
  /\ result \in [Threads -> Results]
  /\ excused \in [Threads -> BOOLEAN]
  /\ epoch \in 1 .. MaxLapses + 1
  /\ refusing \in BOOLEAN
  /\ kinds \subseteq KindSet

\* No thread sends a request with a client that has never been authenticated,
\* though clients are made, authenticated, stored and picked up by several
\* threads at once, and an authentication may fail (actions.py:21-29).
AlwaysAuthenticated == \A t \in Threads :
  pc[t] \in {"send", "send again", "check", "create"} => header[t] # NoToken

\* A read comes back with a 401 only if the server let tokens lapse while it
\* was under way or refused a new one. A lapse before it, and what the other
\* threads do to the client's token meanwhile, is healed by the retry
\* (vrops_client.py:768-788).
ReadsHeal == \A t \in Threads :
  (job[t] = "read" /\ result[t] = "401") => excused[t]

\* A registration is reported as done only when the server has every resource
\* kind, whatever of an earlier or of a simultaneous one was already there
\* (vrops_client.py:549-660).
RegisteredMeansAll == \A t \in Threads :
  result[t] = "registered" => kinds = KindSet

\* As long as there are reads, a client whose token has lapsed has a new one in
\* the end, once the server issues them: a long-running bot heals itself
\* (vrops_client.py:767-769). Tokens lapse a bounded number of times here.
SelfHeals ==
  (<>[]~refusing /\ []<>(\E t \in Threads : job[t] = "read" /\ pc[t] = "fetch"))
    => <>[](cache # NoClient /\ Live(token[cache]))
=============================================================================
