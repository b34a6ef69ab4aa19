------------------------- MODULE VropsClient_proofs -------------------------
(* The safety of the API client, for any number of threads, of lapses and of *)
(* resource kinds: its type, that no request goes out without a token, that  *)
(* a read heals a lapsed one, what a reported registration means, and how    *)
(* many steps a tool call can take.                                          *)
EXTENDS VropsClient, TLAPS

\* Where a thread has a client of its own making.
Making == {"authenticate", "first token", "cache"}

\* Where a thread has taken a client from the cache.
Using == {"prepare", "send", "reauthenticate", "new token", "prepare again",
          "send again", "check", "create"}

\* A client made by a thread is its own until it has a token; the cache, once
\* filled, stays filled, and what is taken from it has a token.
ClientReady(t) ==
  /\ pc[t] \in Making => client[t] = t
  /\ pc[t] = "cache" => token[t] # NoToken
  /\ pc[t] = "fetch" => cache # NoClient
  /\ pc[t] \in Using => /\ cache # NoClient
                        /\ client[t] \in Threads
                        /\ token[client[t]] # NoToken

ClientsReady ==
  /\ cache # NoClient => token[cache] # NoToken
  /\ \A t \in Threads : ClientReady(t)

\* Headers are built from a client that has a token.
HeadersBuilt == \A t \in Threads : pc[t] \in Using \ {"prepare"} => header[t] # NoToken

\* From the new token to the second attempt it stays good, unless the server
\* lapses it meanwhile: another thread only replaces it by one as good.
RetryGood(t) ==
  /\ pc[t] = "prepare again" => excused[t] = TRUE \/ token[client[t]] = epoch
  /\ pc[t] = "send again" => excused[t] = TRUE \/ header[t] = epoch
  /\ job[t] = "read" /\ result[t] = "401" => excused[t] = TRUE

RetriesGood == \A t \in Threads : RetryGood(t)

Members(s) == {s[i] : i \in 1 .. Len(s)}

\* A registration has still to deal with every kind the server does not have.
NothingSkipped(t) ==
  /\ pc[t] \in {"check", "create"} => job[t] = "register"
  /\ pc[t] # "idle" /\ job[t] = "register" => KindSet \subseteq kinds \cup Members(left[t])
  /\ pc[t] = "create" => left[t] # <<>>
  /\ result[t] = "registered" => kinds = KindSet

NothingSkippedByAny == \A t \in Threads : NothingSkipped(t)

IInv == TypeOK /\ ClientsReady /\ HeadersBuilt /\ RetriesGood /\ NothingSkippedByAny

(* What is in a sequence is its head or in the rest of it.                   *)
LEMMA HeadOrTail ==
  ASSUME NEW S, NEW s \in Seq(S), s # <<>>
  PROVE  /\ Head(s) \in S /\ Tail(s) \in Seq(S)
         /\ Members(s) \subseteq {Head(s)} \cup Members(Tail(s))
<1>1. Head(s) \in S /\ Tail(s) \in Seq(S)
  OBVIOUS
<1>2. ASSUME NEW i \in 1 .. Len(s)
      PROVE  s[i] \in {Head(s)} \cup Members(Tail(s))
  <2>1. CASE i = 1
    BY <2>1
  <2>2. CASE i # 1
    <3>1. i - 1 \in 1 .. Len(Tail(s)) /\ Tail(s)[i - 1] = s[i]
      BY <2>2
    <3> QED
      BY <3>1 DEF Members
  <2> QED
    BY <2>1, <2>2
<1> QED
  BY <1>1, <1>2 DEF Members

LEMMA InitIInv == Init => IInv
<1> SUFFICES ASSUME Init
             PROVE  IInv
  OBVIOUS
<1>1. TypeOK
  BY MaxLapsesAssumption DEF Init, TypeOK, Places, Results, Jobs, NoToken
<1>2. ClientsReady /\ HeadersBuilt /\ RetriesGood /\ NothingSkippedByAny
  BY DEF Init, ClientsReady, ClientReady, HeadersBuilt, RetriesGood, RetryGood,
         NothingSkippedByAny, NothingSkipped, Making, Using
<1> QED
  BY <1>1, <1>2 DEF IInv

(* The kinds to be registered are a sequence of what is in it.               *)
LEMMA KindsType == Kinds \in Seq(KindSet) /\ Members(Kinds) = KindSet
<1>1. Len(Kinds) \in Nat /\ Kinds \in [1 .. Len(Kinds) -> KindSet]
  BY KindsAssumption DEF KindSet
<1>2. Kinds \in Seq(KindSet)
  BY <1>1
<1> QED
  BY <1>2 DEF Members, KindSet

-----------------------------------------------------------------------------
(* One lemma per action                                                      *)

(* A tool call begins with all the kinds it has to register.               *)
LEMMA BeginIInv ==
  ASSUME IInv, NEW t \in Threads, NEW j \in Jobs, Begin(t, j)
  PROVE  IInv'
<1>1. TypeOK'
  <2>1. left' = [left EXCEPT ![t] = IF j = "register" THEN Kinds ELSE <<>>]
    BY DEF Begin
  <2>2. left' \in [Threads -> Seq(KindSet)]
    BY <2>1, KindsType DEF IInv, TypeOK
  <2> QED
    BY <2>2 DEF IInv, TypeOK, Begin, Goto, serverVars, Places, Results
<1>2. ClientsReady'
  BY ThreadsAssumption
  DEF IInv, TypeOK, ClientsReady, ClientReady, Making, Using, Begin, Goto, serverVars, NoToken
<1>3. HeadersBuilt'
  BY DEF IInv, TypeOK, ClientsReady, ClientReady, HeadersBuilt, Using, Begin, Goto, serverVars, NoToken
<1>4. RetriesGood'
  BY DEF IInv, TypeOK, ClientsReady, ClientReady, RetriesGood, RetryGood, Using, Begin, Goto, serverVars
<1>5. NothingSkippedByAny'
  <2> SUFFICES ASSUME NEW u \in Threads
               PROVE  NothingSkipped(u)'
    BY DEF NothingSkippedByAny
  <2>1. CASE u = t
    <3>1. /\ pc'[t] = "lookup" /\ job'[t] = j /\ result'[t] = "none"
          /\ left'[t] = IF j = "register" THEN Kinds ELSE <<>>
          /\ UNCHANGED kinds
      BY DEF IInv, TypeOK, Begin, Goto, serverVars
    <3> QED
      BY <2>1, <3>1, KindsType DEF NothingSkipped
  <2>2. CASE u # t
    BY <2>2 DEF IInv, TypeOK, NothingSkippedByAny, NothingSkipped, Begin, Goto, serverVars
  <2> QED
    BY <2>1, <2>2
<1> QED
  BY <1>1, <1>2, <1>3, <1>4, <1>5 DEF IInv

(* A lookup finds the cache empty, when nobody uses a client yet, or filled. *)
LEMMA LookupIInv ==
  ASSUME IInv, NEW t \in Threads, Lookup(t)
  PROVE  IInv'
<1>1. TypeOK'
  <2>1. CASE cache = NoClient
    <3>1. /\ client' = [client EXCEPT ![t] = t]
          /\ pc' = [pc EXCEPT ![t] = "authenticate"]
          /\ token' = [token EXCEPT ![t] = NoToken]
      BY <2>1 DEF Lookup, Goto
    <3>2. NoToken \in 0 .. MaxLapses + 1
      BY MaxLapsesAssumption DEF NoToken
    <3>3. /\ client' \in [Threads -> Threads \cup {NoClient}]
          /\ pc' \in [Threads -> Places]
          /\ token' \in [Threads -> 0 .. MaxLapses + 1]
      BY <3>1, <3>2 DEF IInv, TypeOK, Places
    <3> QED
      BY <3>3 DEF IInv, TypeOK, Lookup, serverVars
  <2>2. CASE cache # NoClient
    BY <2>2 DEF IInv, TypeOK, Lookup, Goto, serverVars, Places
  <2> QED
    BY <2>1, <2>2
<1>2. ClientsReady'
  <2>1. CASE cache = NoClient
    <3>1. /\ client' = [client EXCEPT ![t] = t]
          /\ pc' = [pc EXCEPT ![t] = "authenticate"]
          /\ token' = [token EXCEPT ![t] = NoToken]
          /\ cache' = cache
      BY <2>1 DEF Lookup, Goto
    <3> QED
      BY <2>1, <3>1 DEF IInv, TypeOK, ClientsReady, ClientReady, Making, Using
  <2>2. CASE cache # NoClient
    BY <2>2 DEF IInv, TypeOK, ClientsReady, ClientReady, Making, Using, Lookup, Goto
  <2> QED
    BY <2>1, <2>2
<1>3. HeadersBuilt'
  BY DEF IInv, TypeOK, ClientsReady, ClientReady, HeadersBuilt, Using, Lookup, Goto, serverVars, NoToken
<1>4. RetriesGood'
  <2>1. ASSUME NEW u \in Threads
        PROVE  RetryGood(u)'
    <3>1. CASE u = t
      BY <3>1 DEF IInv, TypeOK, RetriesGood, RetryGood, Lookup, Goto, serverVars
    <3>2. CASE u # t
      <4>1. /\ pc'[u] = pc[u] /\ client'[u] = client[u]
            /\ UNCHANGED <<job, header, result, excused, epoch>>
        BY <3>2 DEF IInv, TypeOK, Lookup, Goto, serverVars
      <4>2. pc[u] = "prepare again" => cache # NoClient
        BY DEF IInv, ClientsReady, ClientReady, Using
      <4>3. pc[u] = "prepare again" => token' = token
        BY <4>2 DEF Lookup
      <4> QED
        BY <4>1, <4>3 DEF IInv, RetriesGood, RetryGood
    <3> QED
      BY <3>1, <3>2
  <2> QED
    BY <2>1 DEF RetriesGood
<1>5. NothingSkippedByAny'
  BY DEF IInv, TypeOK, NothingSkippedByAny, NothingSkipped, Lookup, Goto, serverVars
<1> QED
  BY <1>1, <1>2, <1>3, <1>4, <1>5 DEF IInv

(* What is stored in the cache has a token.                                *)
LEMMA StoreClientIInv ==
  ASSUME IInv, NEW t \in Threads, StoreClient(t)
  PROVE  IInv'
<1>1. TypeOK'
  BY ThreadsAssumption, KindsAssumption, MaxLapsesAssumption
  DEF IInv, TypeOK, StoreClient, Goto, serverVars, NoToken, Jobs, Places, Results
<1>2. ClientsReady'
  BY ThreadsAssumption
  DEF IInv, TypeOK, ClientsReady, ClientReady, Making, Using, StoreClient, Goto, serverVars, NoToken
<1>3. HeadersBuilt'
  BY DEF IInv, TypeOK, ClientsReady, ClientReady, HeadersBuilt, Using, StoreClient, Goto, serverVars, NoToken
<1>4. RetriesGood'
  BY DEF IInv, TypeOK, ClientsReady, ClientReady, RetriesGood, RetryGood, Using, StoreClient, Goto, serverVars
<1>5. NothingSkippedByAny'
  BY DEF IInv, TypeOK, NothingSkippedByAny, NothingSkipped, StoreClient, Goto, serverVars
<1> QED
  BY <1>1, <1>2, <1>3, <1>4, <1>5 DEF IInv

(* What is taken from it is used.                                          *)
LEMMA FetchIInv ==
  ASSUME IInv, NEW t \in Threads, Fetch(t)
  PROVE  IInv'
<1>1. TypeOK'
  BY ThreadsAssumption, KindsAssumption, MaxLapsesAssumption
  DEF IInv, TypeOK, Fetch, Goto, serverVars, NoToken, Jobs, Places, Results
<1>2. ClientsReady'
  BY ThreadsAssumption
  DEF IInv, TypeOK, ClientsReady, ClientReady, Making, Using, Fetch, Goto, serverVars, NoToken
<1>3. HeadersBuilt'
  BY DEF IInv, TypeOK, ClientsReady, ClientReady, HeadersBuilt, Using, Fetch, Goto, serverVars, NoToken
<1>4. RetriesGood'
  BY DEF IInv, TypeOK, ClientsReady, ClientReady, RetriesGood, RetryGood, Using, Fetch, Goto, serverVars
<1>5. NothingSkippedByAny'
  BY DEF IInv, TypeOK, NothingSkippedByAny, NothingSkipped, Fetch, Goto, serverVars
<1> QED
  BY <1>1, <1>2, <1>3, <1>4, <1>5 DEF IInv

(* The server's token is on its way.                                       *)
LEMMA AcquireIInv ==
  ASSUME IInv, NEW t \in Threads, Acquire(t)
  PROVE  IInv'
<1>1. TypeOK'
  BY ThreadsAssumption, KindsAssumption, MaxLapsesAssumption
  DEF IInv, TypeOK, Acquire, Authenticating, Goto, serverVars, NoToken, Jobs, Places, Results
<1>2. ClientsReady'
  BY ThreadsAssumption
  DEF IInv, TypeOK, ClientsReady, ClientReady, Making, Using, Acquire, Authenticating, Goto, serverVars, NoToken
<1>3. HeadersBuilt'
  BY DEF IInv, TypeOK, ClientsReady, ClientReady, HeadersBuilt, Using, Acquire, Authenticating, Goto, serverVars, NoToken
<1>4. RetriesGood'
  BY DEF IInv, TypeOK, ClientsReady, ClientReady, RetriesGood, RetryGood, Using, Acquire, Authenticating, Goto, serverVars
<1>5. NothingSkippedByAny'
  BY DEF IInv, TypeOK, NothingSkippedByAny, NothingSkipped, Acquire, Authenticating, Goto, serverVars
<1> QED
  BY <1>1, <1>2, <1>3, <1>4, <1>5 DEF IInv

(* A new token is stored, which serves all who share the client.           *)
LEMMA StoreTokenIInv ==
  ASSUME IInv, NEW t \in Threads, StoreToken(t)
  PROVE  IInv'
<1>1. TypeOK'
  <2>1. pc[t] \in {"first token", "new token"} /\ client[t] \in Threads
    BY DEF IInv, ClientsReady, ClientReady, Making, Using, StoreToken
  <2>2. /\ token' = [token EXCEPT ![client[t]] = epoch]
        /\ pc' = [pc EXCEPT ![t] = IF pc[t] = "first token" THEN "cache" ELSE "prepare again"]
    BY DEF StoreToken, Goto
  <2>3. epoch \in 0 .. MaxLapses + 1
    BY MaxLapsesAssumption DEF IInv, TypeOK
  <2>4. token' \in [Threads -> 0 .. MaxLapses + 1] /\ pc' \in [Threads -> Places]
    BY <2>2, <2>3 DEF IInv, TypeOK, Places
  <2> QED
    BY <2>4 DEF IInv, TypeOK, StoreToken, serverVars
<1>2. ClientsReady'
  <2>1. pc[t] \in {"first token", "new token"} /\ client[t] \in Threads
    BY DEF IInv, ClientsReady, ClientReady, Making, Using, StoreToken
  <2>2. /\ token' = [token EXCEPT ![client[t]] = epoch]
        /\ pc' = [pc EXCEPT ![t] = IF pc[t] = "first token" THEN "cache" ELSE "prepare again"]
        /\ UNCHANGED <<cache, client>>
    BY DEF StoreToken, Goto
  <2>3. epoch # NoToken
    BY MaxLapsesAssumption DEF IInv, TypeOK, NoToken
  <2>4. \A c \in Threads : token[c] # NoToken => token'[c] # NoToken
    BY <2>2, <2>3 DEF IInv, TypeOK
  <2>5. token'[client[t]] # NoToken
    BY <2>1, <2>2, <2>3 DEF IInv, TypeOK
  <2>6. cache' # NoClient => token'[cache'] # NoToken
    BY <2>2, <2>4 DEF IInv, TypeOK, ClientsReady
  <2>7. ASSUME NEW u \in Threads
        PROVE  ClientReady(u)'
    BY <2>1, <2>2, <2>4, <2>5 DEF IInv, TypeOK, ClientsReady, ClientReady, Making, Using
  <2> QED
    BY <2>6, <2>7 DEF ClientsReady
<1>3. HeadersBuilt'
  BY DEF IInv, TypeOK, ClientsReady, ClientReady, HeadersBuilt, Using, StoreToken, Goto, serverVars, NoToken
<1>4. RetriesGood'
  BY DEF IInv, TypeOK, ClientsReady, ClientReady, RetriesGood, RetryGood, Using, StoreToken, Goto, serverVars
<1>5. NothingSkippedByAny'
  BY DEF IInv, TypeOK, NothingSkippedByAny, NothingSkipped, StoreToken, Goto, serverVars
<1> QED
  BY <1>1, <1>2, <1>3, <1>4, <1>5 DEF IInv

(* Headers are built from a client with a token, as good as the client's.  *)
LEMMA PrepareIInv ==
  ASSUME IInv, NEW t \in Threads, Prepare(t)
  PROVE  IInv'
<1>1. TypeOK'
  <2>1. pc[t] \in Using /\ client[t] \in Threads
    BY DEF IInv, ClientsReady, ClientReady, Using, Prepare
  <2>2. header' = [header EXCEPT ![t] = token[client[t]]]
    BY DEF Prepare, HeaderToken
  <2>3. header' \in [Threads -> 0 .. MaxLapses + 1]
    BY <2>1, <2>2 DEF IInv, TypeOK
  <2>4. pc' \in [Threads -> Places]
    BY DEF IInv, TypeOK, Prepare, Goto, Places
  <2> QED
    BY <2>3, <2>4 DEF IInv, TypeOK, Prepare, serverVars
<1>2. ClientsReady'
  BY ThreadsAssumption
  DEF IInv, TypeOK, ClientsReady, ClientReady, Making, Using, Prepare, HeaderToken, Goto, serverVars, NoToken
<1>3. HeadersBuilt'
  BY DEF IInv, TypeOK, ClientsReady, ClientReady, HeadersBuilt, Using, Prepare, HeaderToken, Goto, serverVars, NoToken
<1>4. RetriesGood'
  BY DEF IInv, TypeOK, ClientsReady, ClientReady, RetriesGood, RetryGood, Using, Prepare, HeaderToken, Goto, serverVars
<1>5. NothingSkippedByAny'
  BY DEF IInv, TypeOK, NothingSkippedByAny, NothingSkipped, Prepare, HeaderToken, Goto, serverVars
<1> QED
  BY <1>1, <1>2, <1>3, <1>4, <1>5 DEF IInv

(* A tool call that returns drops what it has built; its result has to be    *)
(* one the properties allow.                                                 *)
LEMMA ReturnIInv ==
  ASSUME IInv, NEW t \in Threads, NEW how \in Results, Return(t, how),
         UNCHANGED <<cache, token, job, epoch, refusing>>,
         kinds \subseteq kinds', kinds' \subseteq KindSet,
         excused' \in [Threads -> BOOLEAN],
         \A u \in Threads : excused[u] = TRUE => excused'[u] = TRUE,
         how = "401" /\ job[t] = "read" => excused'[t] = TRUE,
         how = "registered" => kinds' = KindSet
  PROVE  IInv'
<1>1. TypeOK'
  <2>1. left' \in [Threads -> Seq(KindSet)]
    <3>1. <<>> \in Seq(KindSet)
      OBVIOUS
    <3> QED
      BY <3>1 DEF IInv, TypeOK, Return
  <2>2. header' \in [Threads -> 0 .. MaxLapses + 1]
    BY MaxLapsesAssumption DEF IInv, TypeOK, Return, NoToken
  <2>3. client' \in [Threads -> Threads \cup {NoClient}]
    BY DEF IInv, TypeOK, Return
  <2>4. pc' \in [Threads -> Places] /\ result' \in [Threads -> Results]
    BY DEF IInv, TypeOK, Return, Goto, Places
  <2> QED
    BY <2>1, <2>2, <2>3, <2>4 DEF IInv, TypeOK
<1>2. ClientsReady'
  BY DEF IInv, TypeOK, ClientsReady, ClientReady, Making, Using, Return, Goto
<1>3. HeadersBuilt'
  BY DEF IInv, TypeOK, HeadersBuilt, Using, Return, Goto
<1>4. RetriesGood'
  BY DEF IInv, TypeOK, RetriesGood, RetryGood, Return, Goto
<1>5. NothingSkippedByAny'
  BY DEF IInv, TypeOK, NothingSkippedByAny, NothingSkipped, Return, Goto
<1> QED
  BY <1>1, <1>2, <1>3, <1>4, <1>5 DEF IInv

LEMMA RefusedIInv ==
  ASSUME IInv, NEW t \in Threads, Refused(t)
  PROVE  IInv'
<1>1. PICK how \in {"no client", "401"} : Return(t, how)
  BY DEF Refused
<1>2. excused' = [excused EXCEPT ![t] = TRUE] /\ UNCHANGED <<cache, token, job, epoch, refusing, kinds>>
  BY DEF Refused, serverVars
<1>3. /\ excused' \in [Threads -> BOOLEAN]
      /\ excused'[t] = TRUE
      /\ \A u \in Threads : excused[u] = TRUE => excused'[u] = TRUE
  BY <1>2 DEF IInv, TypeOK
<1>4. kinds \subseteq KindSet
  BY DEF IInv, TypeOK
<1> QED
  BY <1>1, <1>2, <1>3, <1>4, ReturnIInv DEF Results

LEMMA ServedIInv ==
  ASSUME IInv, NEW t \in Threads, Served(t)
  PROVE  IInv'
<1>1. kinds \subseteq KindSet /\ excused \in [Threads -> BOOLEAN]
  BY DEF IInv, TypeOK
<1>2. Return(t, "served") /\ UNCHANGED <<cache, token, job, excused, epoch, refusing, kinds>>
  BY DEF Served, serverVars
<1> QED
  BY <1>1, <1>2, ReturnIInv DEF Results

(* The second rejection of a read is excused.                                *)
LEMMA RejectedIInv ==
  ASSUME IInv, NEW t \in Threads, Rejected(t)
  PROVE  IInv'
<1>1. UNCHANGED <<cache, token, job, excused, epoch, refusing, kinds>>
  BY DEF Rejected, serverVars
<1>2. CASE pc[t] = "send" /\ job[t] = "read"
  <2>1. pc' = [pc EXCEPT ![t] = "reauthenticate"] /\ UNCHANGED <<result, client, header, left>>
    BY <1>2 DEF Rejected, Goto
  <2>2. TypeOK'
    BY <1>1, <2>1 DEF IInv, TypeOK, Places
  <2>3. ClientsReady'
    BY <1>1, <1>2, <2>1 DEF IInv, TypeOK, ClientsReady, ClientReady, Making, Using
  <2>4. HeadersBuilt'
    BY <1>1, <1>2, <2>1 DEF IInv, TypeOK, HeadersBuilt, Using
  <2>5. RetriesGood'
    BY <1>1, <1>2, <2>1 DEF IInv, TypeOK, RetriesGood, RetryGood
  <2>6. NothingSkippedByAny'
    BY <1>1, <1>2, <2>1 DEF IInv, TypeOK, NothingSkippedByAny, NothingSkipped
  <2> QED
    BY <2>2, <2>3, <2>4, <2>5, <2>6 DEF IInv
<1>3. CASE ~(pc[t] = "send" /\ job[t] = "read")
  <2>1. Return(t, "401")
    BY <1>3 DEF Rejected
  <2>2. job[t] = "read" => excused[t] = TRUE
    BY <1>3 DEF IInv, RetriesGood, RetryGood, Rejected, Live
  <2>3. kinds \subseteq KindSet /\ excused \in [Threads -> BOOLEAN]
    BY DEF IInv, TypeOK
  <2> QED
    BY <1>1, <2>1, <2>2, <2>3, ReturnIInv DEF Results
<1> QED
  BY <1>2, <1>3

(* A kind is passed over when the server has it.                             *)
LEMMA CheckKindIInv ==
  ASSUME IInv, NEW t \in Threads, CheckKind(t)
  PROVE  IInv'
<1>1. UNCHANGED <<cache, token, client, job, header, result, excused, epoch, refusing, kinds>>
  BY DEF CheckKind, serverVars
<1>2. pc[t] = "check" /\ left[t] \in Seq(KindSet) /\ left[t] # <<>>
  BY DEF IInv, TypeOK, CheckKind
<1>3. /\ Tail(left[t]) \in Seq(KindSet)
      /\ Members(left[t]) \subseteq {Head(left[t])} \cup Members(Tail(left[t]))
  BY <1>2, HeadOrTail
<1>4. CASE Head(left[t]) \in kinds /\ left' = [left EXCEPT ![t] = Tail(left[t])] /\ UNCHANGED pc
  <2>1. TypeOK'
    BY <1>1, <1>3, <1>4 DEF IInv, TypeOK
  <2>2. ClientsReady' /\ HeadersBuilt' /\ RetriesGood'
    BY <1>1, <1>4 DEF IInv, ClientsReady, ClientReady, HeadersBuilt, RetriesGood, RetryGood
  <2>3. NothingSkippedByAny'
    BY <1>1, <1>2, <1>3, <1>4 DEF IInv, TypeOK, NothingSkippedByAny, NothingSkipped
  <2> QED
    BY <2>1, <2>2, <2>3 DEF IInv
<1>5. CASE pc' = [pc EXCEPT ![t] = "create"] /\ UNCHANGED left
  <2>1. TypeOK'
    BY <1>1, <1>5 DEF IInv, TypeOK, Places
  <2>2. ClientsReady'
    BY <1>1, <1>2, <1>5 DEF IInv, TypeOK, ClientsReady, ClientReady, Making, Using
  <2>3. HeadersBuilt'
    BY <1>1, <1>2, <1>5 DEF IInv, TypeOK, HeadersBuilt, Using
  <2>4. RetriesGood'
    BY <1>1, <1>5 DEF IInv, TypeOK, RetriesGood, RetryGood
  <2>5. NothingSkippedByAny'
    BY <1>1, <1>2, <1>5 DEF IInv, TypeOK, NothingSkippedByAny, NothingSkipped
  <2> QED
    BY <2>1, <2>2, <2>3, <2>4, <2>5 DEF IInv
<1> QED
  BY <1>4, <1>5 DEF CheckKind, Goto

(* A kind is dealt with when its creation is answered, and not before.       *)
LEMMA CreateKindIInv ==
  ASSUME IInv, NEW t \in Threads, CreateKind(t)
  PROVE  IInv'
<1>1. UNCHANGED <<cache, token, job, excused, epoch, refusing>>
  BY DEF CreateKind
<1>2. pc[t] = "create" /\ left[t] \in Seq(KindSet) /\ left[t] # <<>>
  BY DEF IInv, TypeOK, NothingSkippedByAny, NothingSkipped, CreateKind
<1>3. /\ Head(left[t]) \in KindSet /\ Tail(left[t]) \in Seq(KindSet)
      /\ Members(left[t]) \subseteq {Head(left[t])} \cup Members(Tail(left[t]))
  BY <1>2, HeadOrTail
<1>4. PICK outcome \in CreateOutcomes(t) :
        /\ kinds' = outcome[1]
        /\ IF outcome[2]
           THEN /\ left' = [left EXCEPT ![t] = Tail(left[t])]
                /\ pc' = [pc EXCEPT ![t] = "check"]
                /\ UNCHANGED <<result, client, header>>
           ELSE Return(t, "not registered")
  BY DEF CreateKind, Goto
<1>5. /\ outcome[1] \in {kinds, kinds \cup {Head(left[t])}}
      /\ outcome[2] \in BOOLEAN
      /\ outcome[2] = TRUE => outcome[1] = kinds \cup {Head(left[t])}
  <2>1. \/ outcome = <<kinds, FALSE>>
        \/ outcome \in {kinds \cup {Head(left[t])}} \X BOOLEAN
    BY Zenon DEF CreateOutcomes
  <2>2. CASE outcome = <<kinds, FALSE>>
    BY <2>2
  <2>3. CASE outcome \in {kinds \cup {Head(left[t])}} \X BOOLEAN
    BY <2>3
  <2> QED
    BY <2>1, <2>2, <2>3
<1>6. kinds \subseteq kinds' /\ kinds' \subseteq KindSet
  BY <1>3, <1>4, <1>5 DEF IInv, TypeOK
<1>7. CASE outcome[2] = TRUE
  <2>1. Head(left[t]) \in kinds'
    BY <1>4, <1>5, <1>7
  <2>2. /\ left' = [left EXCEPT ![t] = Tail(left[t])]
        /\ pc' = [pc EXCEPT ![t] = "check"]
        /\ UNCHANGED <<result, client, header>>
    BY <1>4, <1>7
  <2>3. TypeOK'
    BY <1>1, <1>3, <1>6, <2>2 DEF IInv, TypeOK, Places
  <2>4. ClientsReady'
    BY <1>1, <1>2, <2>2 DEF IInv, TypeOK, ClientsReady, ClientReady, Making, Using
  <2>5. HeadersBuilt'
    BY <1>1, <1>2, <2>2 DEF IInv, TypeOK, HeadersBuilt, Using
  <2>6. RetriesGood'
    BY <1>1, <2>2 DEF IInv, TypeOK, RetriesGood, RetryGood
  <2>7. NothingSkippedByAny'
    <3> SUFFICES ASSUME NEW u \in Threads
                 PROVE  NothingSkipped(u)'
      BY DEF NothingSkippedByAny
    <3>1. NothingSkipped(u) /\ NothingSkipped(t)
      BY DEF IInv, NothingSkippedByAny
    <3>2. CASE u = t
      BY <1>1, <1>2, <1>3, <1>6, <2>1, <2>2, <3>1, <3>2 DEF IInv, TypeOK, NothingSkipped
    <3>3. CASE u # t
      BY <1>1, <1>6, <2>2, <3>1, <3>3 DEF IInv, TypeOK, NothingSkipped
    <3> QED
      BY <3>2, <3>3
  <2> QED
    BY <2>3, <2>4, <2>5, <2>6, <2>7 DEF IInv
<1>8. CASE outcome[2] # TRUE
  <2>1. Return(t, "not registered")
    BY <1>4, <1>5, <1>8
  <2>2. excused \in [Threads -> BOOLEAN]
    BY DEF IInv, TypeOK
  <2> QED
    BY <1>1, <1>6, <2>1, <2>2, ReturnIInv DEF Results
<1> QED
  BY <1>7, <1>8

LEMMA RegisteredIInv ==
  ASSUME IInv, NEW t \in Threads, Registered(t)
  PROVE  IInv'
<1>1. Return(t, "registered") /\ UNCHANGED <<cache, token, job, excused, epoch, refusing, kinds>>
  BY DEF Registered, serverVars
<1>2. kinds \subseteq KindSet /\ excused \in [Threads -> BOOLEAN]
  BY DEF IInv, TypeOK
<1>3. Members(left[t]) = {}
  BY DEF Registered, Members
<1>4. KindSet \subseteq kinds
  BY <1>3 DEF IInv, NothingSkippedByAny, NothingSkipped, Registered
<1>5. kinds' = KindSet
  BY <1>1, <1>2, <1>4
<1> QED
  BY <1>1, <1>2, <1>5, ReturnIInv DEF Results

(* All tokens lapse: every call under way is excused.                        *)
LEMMA LapseIInv ==
  ASSUME IInv, Lapse
  PROVE  IInv'
<1>1. /\ \A u \in Threads : pc[u] \notin {"first token", "new token"}
      /\ epoch <= MaxLapses /\ epoch' = epoch + 1
      /\ excused' = [u \in Threads |-> excused[u] \/ pc[u] # "idle"]
      /\ UNCHANGED <<cache, token, client, pc, job, header, left, result, refusing, kinds>>
  BY DEF Lapse
<1>2. excused' \in [Threads -> BOOLEAN]
  BY <1>1, Zenon
<1>3. \A u \in Threads : excused[u] = TRUE \/ pc[u] # "idle" => excused'[u] = TRUE
  BY <1>1, Zenon DEF IInv, TypeOK
<1>4. epoch' \in 1 .. MaxLapses + 1
  <2>1. epoch \in 1 .. MaxLapses + 1
    BY DEF IInv, TypeOK
  <2>2. epoch <= MaxLapses /\ epoch' = epoch + 1
    BY <1>1, Zenon
  <2> QED
    BY <2>1, <2>2, MaxLapsesAssumption
<1>5. TypeOK'
  BY <1>1, <1>2, <1>4 DEF IInv, TypeOK
<1>6. ClientsReady' /\ HeadersBuilt' /\ NothingSkippedByAny'
  BY <1>1 DEF IInv, ClientsReady, ClientReady, HeadersBuilt, NothingSkippedByAny, NothingSkipped
<1>7. RetriesGood'
  BY <1>1, <1>3 DEF IInv, RetriesGood, RetryGood
<1> QED
  BY <1>5, <1>6, <1>7 DEF IInv

LEMMA NextIInv == IInv /\ [Next]_vars => IInv'
<1> SUFFICES ASSUME IInv, [Next]_vars
             PROVE  IInv'
  OBVIOUS
<1>1. ASSUME NEW t \in Threads, Step(t)
      PROVE  IInv'
  BY <1>1, LookupIInv, StoreClientIInv, FetchIInv, AcquireIInv, RefusedIInv,
     StoreTokenIInv, PrepareIInv, ServedIInv, RejectedIInv, CheckKindIInv,
     CreateKindIInv, RegisteredIInv, Zenon DEF Step
<1>2. CASE Toggle
  BY <1>2 DEF Toggle, IInv, TypeOK, ClientsReady, ClientReady, HeadersBuilt, RetriesGood,
              RetryGood, NothingSkippedByAny, NothingSkipped
<1>3. CASE UNCHANGED vars
  BY <1>3 DEF vars, serverVars, IInv, TypeOK, ClientsReady, ClientReady, HeadersBuilt,
              RetriesGood, RetryGood, NothingSkippedByAny, NothingSkipped
<1> QED
  BY <1>1, <1>2, <1>3, BeginIInv, LapseIInv DEF Next

-----------------------------------------------------------------------------

LEMMA InductiveInvariant == Spec => []IInv
<1>1. Init => IInv
  BY InitIInv
<1>2. IInv /\ [Next]_vars => IInv'
  BY NextIInv
<1> QED
  BY <1>1, <1>2, PTL DEF Spec

(* What the threads hold and what the server has are of their types, for any *)
(* number of threads, lapses and resource kinds (actions.py:13-61).          *)
THEOREM ClientTypeCorrect == Spec => []TypeOK
<1>1. IInv => TypeOK
  BY DEF IInv
<1> QED
  BY <1>1, InductiveInvariant, PTL

(* No request goes out with a client that has never been authenticated, for  *)
(* any number of threads that share the cache (actions.py:21-29).            *)
THEOREM RequestsAuthenticated == Spec => []AlwaysAuthenticated
<1>1. IInv => AlwaysAuthenticated
  BY DEF IInv, HeadersBuilt, AlwaysAuthenticated, Using
<1> QED
  BY <1>1, InductiveInvariant, PTL

(* A read comes back with a 401 only if tokens lapsed or were refused while  *)
(* it was under way, however many threads renew the token of the client they *)
(* share, and however often tokens lapse (vrops_client.py:766-788).          *)
THEOREM ReadsHealLapses == Spec => []ReadsHeal
<1>1. IInv => ReadsHeal
  BY DEF IInv, RetriesGood, RetryGood, ReadsHeal
<1> QED
  BY <1>1, InductiveInvariant, PTL

(* A registration that is reported as done is complete, whatever other ones  *)
(* do at the same time, for any list of resource kinds                       *)
(* (vrops_client.py:549-660).                                                *)
THEOREM RegistrationComplete == Spec => []RegisteredMeansAll
<1>1. IInv => RegisteredMeansAll
  BY DEF IInv, NothingSkippedByAny, NothingSkipped, RegisteredMeansAll
<1> QED
  BY <1>1, InductiveInvariant, PTL

-----------------------------------------------------------------------------
(* How long a tool call can go on.                                           *)

\* The most steps from the headers on of a call of kind j: a registration checks,
\* and then creates, one of n kinds after the other; a read may take a second
\* attempt.
RequestsLeft(j, n) == IF j = "register" THEN 1 + 2 * n ELSE 5

\* The most steps from a place p in a call.
StepsAt(p, j, n) ==
  CASE p = "idle" -> 0
    [] p = "lookup" -> 6 + RequestsLeft(j, n)
    [] p = "authenticate" -> 5 + RequestsLeft(j, n)
    [] p = "first token" -> 4 + RequestsLeft(j, n)
    [] p = "cache" -> 3 + RequestsLeft(j, n)
    [] p = "fetch" -> 2 + RequestsLeft(j, n)
    [] p = "prepare" -> 1 + RequestsLeft(j, n)
    [] p = "send" -> 5
    [] p = "reauthenticate" -> 4
    [] p = "new token" -> 3
    [] p = "prepare again" -> 2
    [] p = "send again" -> 1
    [] p = "check" -> 1 + 2 * n
    [] p = "create" -> 2 * n

\* The most that the call of thread t can take yet.
CallLeft(t) == StepsAt(pc[t], job[t], Len(left[t]))

LEMMA Stops ==
  ASSUME NEW j, NEW n \in Nat
  PROVE  /\ StepsAt("idle", j, n) = 0
         /\ StepsAt("lookup", j, n) = 6 + RequestsLeft(j, n)
         /\ StepsAt("authenticate", j, n) = 5 + RequestsLeft(j, n)
         /\ StepsAt("first token", j, n) = 4 + RequestsLeft(j, n)
         /\ StepsAt("cache", j, n) = 3 + RequestsLeft(j, n)
         /\ StepsAt("fetch", j, n) = 2 + RequestsLeft(j, n)
         /\ StepsAt("prepare", j, n) = 1 + RequestsLeft(j, n)
         /\ StepsAt("send", j, n) = 5
         /\ StepsAt("reauthenticate", j, n) = 4
         /\ StepsAt("new token", j, n) = 3
         /\ StepsAt("prepare again", j, n) = 2
         /\ StepsAt("send again", j, n) = 1
         /\ StepsAt("check", j, n) = 1 + 2 * n
         /\ StepsAt("create", j, n) = 2 * n
         /\ RequestsLeft(j, n) \in Nat /\ RequestsLeft(j, n) > 0
         /\ j = "register" => RequestsLeft(j, n) = 1 + 2 * n
         /\ j # "register" => RequestsLeft(j, n) = 5
<1>1. /\ RequestsLeft(j, n) \in Nat /\ RequestsLeft(j, n) > 0
      /\ j = "register" => RequestsLeft(j, n) = 1 + 2 * n
      /\ j # "register" => RequestsLeft(j, n) = 5
  BY DEF RequestsLeft
<1> QED
  BY <1>1, Zenon DEF StepsAt

(* From each place in a call it is fewer steps from the next.                *)
LEMMA Onward ==
  ASSUME NEW j, NEW n \in Nat
  PROVE  /\ StepsAt("authenticate", j, n) < StepsAt("lookup", j, n)
         /\ StepsAt("fetch", j, n) < StepsAt("lookup", j, n)
         /\ StepsAt("first token", j, n) < StepsAt("authenticate", j, n)
         /\ StepsAt("cache", j, n) < StepsAt("first token", j, n)
         /\ StepsAt("fetch", j, n) < StepsAt("cache", j, n)
         /\ StepsAt("prepare", j, n) < StepsAt("fetch", j, n)
         /\ j = "register" => StepsAt("check", j, n) < StepsAt("prepare", j, n)
         /\ j # "register" => StepsAt("send", j, n) < StepsAt("prepare", j, n)
         /\ StepsAt("reauthenticate", j, n) < StepsAt("send", j, n)
         /\ StepsAt("new token", j, n) < StepsAt("reauthenticate", j, n)
         /\ StepsAt("prepare again", j, n) < StepsAt("new token", j, n)
         /\ StepsAt("send again", j, n) < StepsAt("prepare again", j, n)
         /\ StepsAt("create", j, n) < StepsAt("check", j, n)
         /\ \A m \in Nat : m + 1 = n => /\ StepsAt("check", j, m) < StepsAt("check", j, n)
                                        /\ StepsAt("check", j, m) < StepsAt("create", j, n)
<1> DEFINE r == RequestsLeft(j, n)
<1>1. /\ r \in Nat
      /\ j = "register" => r = 1 + 2 * n
      /\ j # "register" => r = 5
  BY Stops
<1>2. /\ 5 + r < 6 + r /\ 4 + r < 5 + r /\ 3 + r < 4 + r /\ 2 + r < 3 + r /\ 1 + r < 2 + r
      /\ 2 + r < 6 + r
      /\ j = "register" => 1 + 2 * n < 1 + r
      /\ j # "register" => 5 < 1 + r
      /\ 2 * n < 1 + 2 * n
  <2> HIDE DEF r
  <2> QED
    BY <1>1
<1>3. ASSUME NEW m \in Nat, m + 1 = n
      PROVE  /\ StepsAt("check", j, m) < StepsAt("check", j, n)
             /\ StepsAt("check", j, m) < StepsAt("create", j, n)
  <2>1. StepsAt("check", j, m) = 1 + 2 * m
    BY Stops
  <2>2. StepsAt("check", j, n) = 1 + 2 * n /\ StepsAt("create", j, n) = 2 * n
    BY Stops
  <2>3. 1 + 2 * m < 1 + 2 * n /\ 1 + 2 * m < 2 * n
    BY <1>3
  <2> QED
    BY <2>1, <2>2, <2>3, Zenon
<1>4. 4 < 5 /\ 3 < 4 /\ 2 < 3 /\ 1 < 2
  OBVIOUS
<1> QED
  BY <1>2, <1>3, <1>4, Stops, Zenon

(* In a call something is left to do, and between calls nothing is.          *)
LEMMA CallCounted ==
  ASSUME TypeOK, NothingSkippedByAny, NEW t \in Threads
  PROVE  CallLeft(t) \in Nat /\ (CallLeft(t) = 0 <=> pc[t] = "idle")
<1> DEFINE n == Len(left[t])
           j == job[t]
           r == RequestsLeft(j, n)
<1>1. n \in Nat /\ pc[t] \in Places /\ left[t] \in Seq(KindSet)
  BY DEF TypeOK
<1>2. pc[t] = "create" => n > 0
  <2>1. pc[t] = "create" => left[t] # <<>>
    BY DEF NothingSkippedByAny, NothingSkipped
  <2> QED
    BY <1>1, <2>1
<1>3. r \in Nat /\ r > 0
  BY <1>1, Stops
<1>4. CallLeft(t) = StepsAt(pc[t], j, n)
  BY DEF CallLeft
<1> HIDE DEF n, j
<1>5. CASE pc[t] = "idle"
  <2>1. StepsAt("idle", j, n) = 0
    BY <1>1, Stops
  <2>2. CallLeft(t) = 0
    BY <1>4, <1>5, <2>1, Zenon
  <2> QED
    BY <1>5, <2>2
<1>6. CASE pc[t] = "create"
  <2>1. StepsAt("create", j, n) = 2 * n
    BY <1>1, Stops
  <2>2. CallLeft(t) = 2 * n
    BY <1>4, <1>6, <2>1, Zenon
  <2> QED
    BY <1>1, <1>2, <1>6, <2>2
<1>7. CASE pc[t] = "check"
  <2>1. StepsAt("check", j, n) = 1 + 2 * n
    BY <1>1, Stops
  <2>2. CallLeft(t) = 1 + 2 * n
    BY <1>4, <1>7, <2>1, Zenon
  <2> QED
    BY <1>1, <1>7, <2>2
<1>8. CASE pc[t] \notin {"idle", "create", "check"}
  <2>1. \E k \in 0 .. 6 : CallLeft(t) = k + r \/ (k > 0 /\ CallLeft(t) = k)
    <3>1. \/ CallLeft(t) \in {6 + r, 5 + r, 4 + r, 3 + r, 2 + r, 1 + r}
          \/ CallLeft(t) \in {5, 4, 3, 2, 1}
      <4>1. /\ StepsAt("lookup", j, n) = 6 + r /\ StepsAt("authenticate", j, n) = 5 + r
            /\ StepsAt("first token", j, n) = 4 + r /\ StepsAt("cache", j, n) = 3 + r
            /\ StepsAt("fetch", j, n) = 2 + r /\ StepsAt("prepare", j, n) = 1 + r
            /\ StepsAt("send", j, n) = 5 /\ StepsAt("reauthenticate", j, n) = 4
            /\ StepsAt("new token", j, n) = 3 /\ StepsAt("prepare again", j, n) = 2
            /\ StepsAt("send again", j, n) = 1
        BY <1>1, Stops
      <4>2. pc[t] \in {"lookup", "authenticate", "first token", "cache", "fetch", "prepare",
                      "send", "reauthenticate", "new token", "prepare again", "send again"}
        BY <1>1, <1>8 DEF Places
      <4> HIDE DEF r
      <4> QED
        BY <1>4, <4>1, <4>2, Zenon
    <3> HIDE DEF r
    <3> QED
      BY <1>3, <3>1
  <2> HIDE DEF r
  <2>2. CallLeft(t) \in Nat /\ CallLeft(t) # 0
    BY <1>3, <2>1
  <2> QED
    BY <1>8, <2>2
<1> QED
  BY <1>5, <1>6, <1>7, <1>8

LEMMA ReturnEnds ==
  ASSUME TypeOK, NothingSkippedByAny, NEW t \in Threads, pc[t] # "idle",
         NEW how, Return(t, how)
  PROVE  CallLeft(t)' < CallLeft(t)
<1>1. CallLeft(t) \in Nat /\ CallLeft(t) # 0
  BY CallCounted
<1>2. CallLeft(t)' = 0
  <2>1. pc'[t] = "idle"
    BY DEF Return, Goto, TypeOK
  <2> QED
    BY <2>1 DEF CallLeft, StepsAt
<1> QED
  BY <1>1, <1>2

(* A step of the call that leaves what there is to register as it is.        *)
LEMMA GoesOn ==
  ASSUME TypeOK, NEW t \in Threads, NEW there,
         pc'[t] = there, job' = job, left' = left,
         StepsAt(there, job[t], Len(left[t])) < StepsAt(pc[t], job[t], Len(left[t]))
  PROVE  CallLeft(t)' < CallLeft(t)
<1>1. CallLeft(t)' = StepsAt(pc'[t], job'[t], Len(left'[t]))
  BY DEF CallLeft, StepsAt, RequestsLeft
<1> QED
  BY <1>1 DEF CallLeft

(* One kind less to register.                                                *)
LEMMA KindDone ==
  ASSUME TypeOK, NEW t \in Threads, pc[t] \in {"check", "create"},
         pc'[t] = "check", job' = job, left[t] # <<>>, left'[t] = Tail(left[t])
  PROVE  CallLeft(t)' < CallLeft(t)
<1> DEFINE n == Len(left[t])
           m == Len(left'[t])
<1>1. left[t] \in Seq(KindSet)
  BY DEF TypeOK
<1>2. n \in Nat /\ m \in Nat /\ m + 1 = n
  BY <1>1
<1>3. CallLeft(t)' = StepsAt("check", job[t], m) /\ CallLeft(t) = StepsAt(pc[t], job[t], n)
  BY DEF CallLeft, StepsAt, RequestsLeft
<1> HIDE DEF n, m
<1> QED
  BY <1>2, <1>3, Onward

\* Where a call has been rejected once and tries again.
Retrying == {"reauthenticate", "new token", "prepare again", "send again"}

OnlyReadsRetry == \A t \in Threads : pc[t] \in Retrying => job[t] = "read"

(* Where a call goes once it has its headers.                                *)
LEMMA Prepared ==
  ASSUME TypeOK, OnlyReadsRetry, NEW t \in Threads, Prepare(t)
  PROVE  /\ job' = job /\ left' = left
         /\ \/ pc[t] = "prepare" /\ job[t] = "register" /\ pc'[t] = "check"
            \/ pc[t] = "prepare" /\ job[t] # "register" /\ pc'[t] = "send"
            \/ pc[t] = "prepare again" /\ pc'[t] = "send again"
<1> DEFINE j == job[t]
<1>1. /\ pc[t] \in {"prepare", "prepare again"} /\ job' = job /\ left' = left
      /\ pc' = [pc EXCEPT ![t] = CASE pc[t] = "prepare again" -> "send again"
                                    [] j = "register" -> "check"
                                    [] OTHER -> "send"]
  BY DEF Prepare, Goto
<1>2. pc \in [Threads -> Places]
  BY DEF TypeOK
<1>3. pc'[t] = CASE pc[t] = "prepare again" -> "send again"
                 [] j = "register" -> "check"
                 [] OTHER -> "send"
  BY <1>1, <1>2, Zenon
<1>4. pc[t] = "prepare again" => j = "read"
  BY DEF OnlyReadsRetry, Retrying
<1> HIDE DEF j
<1>5. CASE pc[t] = "prepare again"
  <2>1. j # "register"
    BY <1>4, <1>5
  <2>2. pc'[t] = "send again"
    BY <1>3, <1>5, <2>1
  <2> QED
    BY <1>1, <1>5, <2>2, Zenon
<1>6. CASE pc[t] = "prepare"
  <2>1. pc[t] # "prepare again"
    BY <1>6
  <2>2. CASE j = "register"
    <3>1. pc'[t] = "check"
      BY <1>3, <2>1, <2>2
    <3> QED
      BY <1>1, <1>6, <2>2, <3>1, Zenon DEF j
  <2>3. CASE j # "register"
    <3>1. pc'[t] = "send"
      BY <1>3, <2>1, <2>3
    <3> QED
      BY <1>1, <1>6, <2>3, <3>1, Zenon DEF j
  <2> QED
    BY <2>2, <2>3
<1> QED
  BY <1>1, <1>5, <1>6

(* Every step of a call uses up at least one of those it had left.           *)
LEMMA StepUses ==
  ASSUME TypeOK, NothingSkippedByAny, OnlyReadsRetry, NEW t \in Threads, Step(t)
  PROVE  CallLeft(t)' < CallLeft(t)
<1> DEFINE n == Len(left[t])
           j == job[t]
<1>0. /\ pc \in [Threads -> Places] /\ left \in [Threads -> Seq(KindSet)]
      /\ job \in [Threads -> Jobs] /\ n \in Nat
  BY DEF TypeOK
<1>a. /\ StepsAt("authenticate", j, n) < StepsAt("lookup", j, n)
      /\ StepsAt("fetch", j, n) < StepsAt("lookup", j, n)
      /\ StepsAt("first token", j, n) < StepsAt("authenticate", j, n)
      /\ StepsAt("cache", j, n) < StepsAt("first token", j, n)
      /\ StepsAt("fetch", j, n) < StepsAt("cache", j, n)
      /\ StepsAt("prepare", j, n) < StepsAt("fetch", j, n)
      /\ j = "register" => StepsAt("check", j, n) < StepsAt("prepare", j, n)
      /\ j # "register" => StepsAt("send", j, n) < StepsAt("prepare", j, n)
      /\ StepsAt("reauthenticate", j, n) < StepsAt("send", j, n)
      /\ StepsAt("new token", j, n) < StepsAt("reauthenticate", j, n)
      /\ StepsAt("prepare again", j, n) < StepsAt("new token", j, n)
      /\ StepsAt("send again", j, n) < StepsAt("prepare again", j, n)
      /\ StepsAt("create", j, n) < StepsAt("check", j, n)
  BY <1>0, Onward
<1>b. ASSUME NEW there, pc'[t] = there, job' = job, left' = left,
             StepsAt(there, j, n) < StepsAt(pc[t], j, n)
      PROVE  CallLeft(t)' < CallLeft(t)
  BY <1>b, GoesOn
<1>1. CASE Lookup(t)
  BY <1>0, <1>1, <1>a, <1>b DEF Lookup, Goto
<1>2. CASE StoreClient(t)
  BY <1>0, <1>2, <1>a, <1>b DEF StoreClient, Goto
<1>3. CASE Fetch(t)
  BY <1>0, <1>3, <1>a, <1>b DEF Fetch, Goto
<1>4. CASE Acquire(t)
  BY <1>0, <1>4, <1>a, <1>b DEF Acquire, Authenticating, Goto
<1>5. CASE Refused(t)
  BY <1>5, ReturnEnds DEF Refused, Authenticating
<1>6. CASE StoreToken(t)
  BY <1>0, <1>6, <1>a, <1>b DEF StoreToken, Goto
<1>7. CASE Prepare(t)
  <2>1. /\ job' = job /\ left' = left
        /\ \/ pc[t] = "prepare" /\ j = "register" /\ pc'[t] = "check"
           \/ pc[t] = "prepare" /\ j # "register" /\ pc'[t] = "send"
           \/ pc[t] = "prepare again" /\ pc'[t] = "send again"
    BY <1>7, Prepared
  <2> HIDE DEF n, j
  <2> QED
    BY <1>a, <1>b, <2>1
<1>8. CASE Served(t)
  BY <1>8, ReturnEnds DEF Served
<1>9. CASE Rejected(t)
  <2>1. CASE pc[t] = "send" /\ job[t] = "read"
    BY <1>0, <1>9, <1>a, <1>b, <2>1 DEF Rejected, Goto
  <2>2. CASE ~(pc[t] = "send" /\ job[t] = "read")
    BY <1>9, <2>2, ReturnEnds DEF Rejected
  <2> QED
    BY <2>1, <2>2
<1>10. CASE CheckKind(t)
  <2>1. CASE pc' = pc
    <3>1. /\ pc[t] = "check" /\ pc'[t] = "check" /\ job' = job /\ left[t] # <<>>
          /\ left'[t] = Tail(left[t])
      BY <1>0, <1>10, <2>1 DEF CheckKind, Goto
    <3> QED
      BY <3>1, KindDone
  <2>2. CASE pc' # pc
    BY <1>0, <1>10, <1>a, <1>b, <2>2 DEF CheckKind, Goto
  <2> QED
    BY <2>1, <2>2
<1>11. CASE CreateKind(t)
  <2>1. left[t] # <<>> /\ pc[t] = "create" /\ job' = job
    BY <1>11 DEF CreateKind, NothingSkippedByAny, NothingSkipped
  <2>2. \/ left'[t] = Tail(left[t]) /\ pc'[t] = "check"
        \/ Return(t, "not registered")
    BY <1>0, <1>11 DEF CreateKind, Goto
  <2> QED
    BY <2>1, <2>2, KindDone, ReturnEnds
<1>12. CASE Registered(t)
  BY <1>12, ReturnEnds DEF Registered
<1> QED
  BY <1>1, <1>2, <1>3, <1>4, <1>5, <1>6, <1>7, <1>8, <1>9, <1>10, <1>11, <1>12 DEF Step

\* What only thread t's own steps and beginnings change.
Kept(t) == pc'[t] = pc[t] /\ job'[t] = job[t] /\ left'[t] = left[t]

LEMMA OthersKeep ==
  ASSUME TypeOK, NEW t \in Threads, NEW u \in Threads, u # t,
         Step(u) \/ (\E j \in Jobs : Begin(u, j))
  PROVE  Kept(t)
<1>1. CASE Step(u)
  BY <1>1 DEF TypeOK, Kept, Step, Lookup, StoreClient, Fetch, Acquire, Refused, StoreToken,
              Prepare, Served, Rejected, CheckKind, CreateKind, Registered, Return, Goto
<1>2. CASE \E j \in Jobs : Begin(u, j)
  BY <1>2 DEF TypeOK, Kept, Begin, Goto
<1> QED
  BY <1>1, <1>2

LEMMA KeptLeft ==
  ASSUME NEW t \in Threads, Kept(t)
  PROVE  CallLeft(t)' = CallLeft(t)
BY DEF Kept, CallLeft, StepsAt, RequestsLeft

(* Each step keeps what kind of call it is, and a call begins with no more   *)
(* steps to take than its kind allows.                                       *)
CallBound(j) == IF j = "register" THEN 7 + 2 * Len(Kinds) ELSE 11

CallsCounted == \A t \in Threads : CallLeft(t) \in Nat /\ (CallLeft(t) = 0 <=> pc[t] = "idle")

CallsBounded == \A t \in Threads : CallLeft(t) <= CallBound(job[t])

\* A thread that does not begin a call has no more left to do than before, and
\* less with each of its steps.
CallsUsedUp == [][\A t \in Threads :
                    /\ (\A j \in Jobs : ~Begin(t, j)) => CallLeft(t)' <= CallLeft(t)
                    /\ Step(t) => CallLeft(t)' < CallLeft(t)]_vars

LEMMA BoundNat ==
  ASSUME NEW j
  PROVE  CallBound(j) \in Nat
BY KindsAssumption DEF CallBound

LEMMA StepKeepsJob ==
  ASSUME NEW t \in Threads, Step(t)
  PROVE  job' = job
BY DEF Step, Lookup, StoreClient, Fetch, Acquire, Refused, StoreToken, Prepare, Served,
       Rejected, CheckKind, CreateKind, Registered

LEMMA CallBegins ==
  ASSUME TypeOK, NEW t \in Threads, NEW j \in Jobs, Begin(t, j)
  PROVE  CallLeft(t)' = CallBound(job'[t])
<1>1. /\ pc'[t] = "lookup" /\ job'[t] = j
      /\ left'[t] = IF j = "register" THEN Kinds ELSE <<>>
  BY DEF Begin, Goto, TypeOK
<1>2. CallLeft(t)' = StepsAt("lookup", j, Len(left'[t]))
  BY <1>1 DEF CallLeft, StepsAt, RequestsLeft
<1>3. Len(left'[t]) \in Nat /\ (j = "register" => Len(left'[t]) = Len(Kinds))
  BY <1>1, KindsAssumption
<1> DEFINE n == Len(left'[t])
<1>4. /\ StepsAt("lookup", j, n) = 6 + RequestsLeft(j, n)
      /\ j = "register" => RequestsLeft(j, n) = 1 + 2 * n
      /\ j # "register" => RequestsLeft(j, n) = 5
  BY <1>3, Stops
<1> HIDE DEF n
<1>5. CASE j = "register"
  <2>1. CallBound(job'[t]) = 7 + 2 * Len(Kinds)
    BY <1>1, <1>5 DEF CallBound
  <2>2. n \in Nat /\ n = Len(Kinds)
    BY <1>3, <1>5 DEF n
  <2>3. CallLeft(t)' = 6 + (1 + 2 * n)
    BY <1>2, <1>4, <1>5, Zenon DEF n
  <2> QED
    BY <2>1, <2>2, <2>3
<1>6. CASE j # "register"
  <2>1. CallBound(job'[t]) = 11
    BY <1>1, <1>6 DEF CallBound
  <2>2. CallLeft(t)' = 6 + 5
    BY <1>2, <1>4, <1>6, Zenon DEF n
  <2> QED
    BY <2>1, <2>2
<1> QED
  BY <1>5, <1>6

LEMMA AllCounted ==
  ASSUME TypeOK, NothingSkippedByAny
  PROVE  CallsCounted
BY CallCounted DEF CallsCounted

LEMMA InitCalls ==
  ASSUME Init
  PROVE  CallsBounded
<1> SUFFICES ASSUME NEW t \in Threads
             PROVE  CallLeft(t) <= CallBound(job[t])
  BY DEF CallsBounded
<1>1. pc[t] = "idle"
  BY DEF Init
<1>2. CallLeft(t) = 0
  BY <1>1 DEF CallLeft, StepsAt
<1> QED
  BY <1>2, BoundNat

\* One thread's part of a step of the system.
LEMMA ThreadSteps ==
  ASSUME TypeOK, NothingSkippedByAny, [Next]_vars, NEW t \in Threads
  PROVE  \/ Step(t)
         \/ \E j \in Jobs : Begin(t, j)
         \/ Kept(t)
<1>1. CASE \E u \in Threads : Step(u) \/ \E j \in Jobs : Begin(u, j)
  <2>1. PICK u \in Threads : Step(u) \/ \E j \in Jobs : Begin(u, j)
    BY <1>1
  <2>2. CASE u = t
    BY <2>1, <2>2, Zenon
  <2>3. CASE u # t
    BY <2>1, <2>3, OthersKeep
  <2> QED
    BY <2>2, <2>3
<1>2. CASE Lapse \/ Toggle \/ UNCHANGED vars
  BY <1>2 DEF Lapse, Toggle, vars, Kept
<1> QED
  BY <1>1, <1>2 DEF Next

LEMMA NextRetries ==
  ASSUME TypeOK, NothingSkippedByAny, OnlyReadsRetry, [Next]_vars
  PROVE  OnlyReadsRetry'
<1> SUFFICES ASSUME NEW t \in Threads
             PROVE  (pc[t] \in Retrying => job[t] = "read")'
  BY DEF OnlyReadsRetry
<1>1. pc[t] \in Retrying => job[t] = "read"
  BY DEF OnlyReadsRetry
<1>2. pc \in [Threads -> Places]
  BY DEF TypeOK
<1>3. CASE Kept(t)
  BY <1>1, <1>3 DEF Kept
<1>4. CASE \E j \in Jobs : Begin(t, j)
  BY <1>2, <1>4 DEF Begin, Goto, Retrying
<1>5. CASE Prepare(t)
  <2>1. /\ job' = job
        /\ \/ pc'[t] \in {"check", "send"}
           \/ pc[t] = "prepare again" /\ pc'[t] = "send again"
    BY <1>5, Prepared
  <2> QED
    BY <1>1, <2>1 DEF Retrying
<1>6. CASE Rejected(t)
  BY <1>1, <1>2, <1>6 DEF Rejected, Return, Goto, Retrying
<1>7. CASE Acquire(t) \/ StoreToken(t)
  BY <1>1, <1>2, <1>7 DEF Acquire, StoreToken, Authenticating, Goto, Retrying
<1>8. CASE Lookup(t) \/ StoreClient(t) \/ Fetch(t) \/ CheckKind(t)
  BY <1>1, <1>2, <1>8 DEF Lookup, StoreClient, Fetch, CheckKind, Goto, Retrying
<1>9. CASE Refused(t) \/ Served(t) \/ CreateKind(t) \/ Registered(t)
  <2>1. pc'[t] \in {"idle", "check"}
    BY <1>2, <1>9 DEF Refused, Served, CreateKind, Registered, Return, Goto
  <2> QED
    BY <2>1 DEF Retrying
<1> QED
  BY <1>3, <1>4, <1>5, <1>6, <1>7, <1>8, <1>9, ThreadSteps, Zenon DEF Step

\* Counted at both ends of the step.
LEMMA CallGoesOn ==
  ASSUME TypeOK, NothingSkippedByAny, OnlyReadsRetry, CallsCounted, CallsCounted', [Next]_vars,
         NEW t \in Threads
  PROVE  /\ (\A j \in Jobs : ~Begin(t, j)) => CallLeft(t)' <= CallLeft(t)
         /\ Step(t) => CallLeft(t)' < CallLeft(t)
         /\ CallLeft(t) <= CallBound(job[t]) => CallLeft(t)' <= CallBound(job'[t])
<1>1. CallLeft(t) \in Nat /\ CallLeft(t)' \in Nat
  BY DEF CallsCounted
<1>2. Step(t) => CallLeft(t)' < CallLeft(t)
  BY StepUses
<1>3. CallBound(job[t]) \in Nat /\ CallBound(job'[t]) \in Nat
  BY BoundNat
<1>4. CASE Step(t)
  <2>1. job'[t] = job[t]
    BY <1>4, StepKeepsJob
  <2>2. CallLeft(t)' < CallLeft(t)
    BY <1>2, <1>4
  <2>3. CallBound(job'[t]) = CallBound(job[t])
    BY <2>1
  <2> QED
    BY <1>1, <1>3, <2>2, <2>3
<1>5. CASE \E j \in Jobs : Begin(t, j)
  <2>1. CallLeft(t)' = CallBound(job'[t])
    BY <1>5, CallBegins
  <2> QED
    BY <1>2, <1>3, <1>5, <2>1
<1>6. CASE Kept(t)
  <2>1. CallLeft(t)' = CallLeft(t)
    BY <1>6, KeptLeft
  <2>2. CallBound(job'[t]) = CallBound(job[t])
    BY <1>6 DEF Kept
  <2> QED
    BY <1>1, <1>2, <2>1, <2>2
<1> QED
  BY <1>4, <1>5, <1>6, ThreadSteps

LEMMA NextCalls ==
  ASSUME TypeOK, NothingSkippedByAny, OnlyReadsRetry, CallsCounted, CallsCounted',
         CallsBounded, [Next]_vars
  PROVE  CallsBounded'
<1> SUFFICES ASSUME NEW t \in Threads
             PROVE  (CallLeft(t) <= CallBound(job[t]))'
  BY DEF CallsBounded
<1>1. CallLeft(t) <= CallBound(job[t])
  BY DEF CallsBounded
<1> QED
  BY <1>1, CallGoesOn

(* Only a read is ever authenticated again: a write that is answered by a    *)
(* 401, and a registration, end with it (vrops_client.py:766-788).           *)
THEOREM ReadsAloneRetry == Spec => []OnlyReadsRetry
<1>1. Init => OnlyReadsRetry
  BY DEF Init, OnlyReadsRetry, Retrying
<1>2. TypeOK /\ NothingSkippedByAny /\ OnlyReadsRetry /\ [Next]_vars => OnlyReadsRetry'
  BY NextRetries
<1>3. IInv => TypeOK /\ NothingSkippedByAny
  BY DEF IInv
<1> QED
  BY <1>1, <1>2, <1>3, InductiveInvariant, PTL DEF Spec

(* A tool call comes to its end after a bounded number of steps, whatever    *)
(* the server answers and the other threads do meanwhile: a refused token is *)
(* renewed at most once for a read and not at all for a write, and a         *)
(* registration deals with each resource kind at most once                   *)
(* (vrops_client.py:549-660, 766-788; actions.py:13-61). No other thread     *)
(* gives a call more to do, and every step of its own leaves it less.        *)
THEOREM CallStepsBounded == Spec => [](CallsCounted /\ CallsBounded) /\ CallsUsedUp
<1>1. Init => CallsBounded
  BY InitCalls
<1>2. TypeOK /\ NothingSkippedByAny => CallsCounted
  BY AllCounted
<1>3. TypeOK /\ NothingSkippedByAny /\ OnlyReadsRetry /\ CallsCounted /\ CallsCounted'
        /\ CallsBounded /\ [Next]_vars => CallsBounded'
  BY NextCalls
<1>4. TypeOK /\ NothingSkippedByAny /\ OnlyReadsRetry /\ CallsCounted /\ CallsCounted'
        /\ [Next]_vars
        => [\A t \in Threads :
              /\ (\A j \in Jobs : ~Begin(t, j)) => CallLeft(t)' <= CallLeft(t)
              /\ Step(t) => CallLeft(t)' < CallLeft(t)]_vars
  BY CallGoesOn
<1>5. IInv => TypeOK /\ NothingSkippedByAny
  BY DEF IInv
<1> QED
  BY <1>1, <1>2, <1>3, <1>4, <1>5, ReadsAloneRetry, InductiveInvariant, PTL
  DEF Spec, CallsUsedUp
=============================================================================
