---------------------------------- MODULE Mcp ----------------------------------
(* The clients of MCP servers: first mcp/manager.ts and mcp/client.ts for    *)
(* one stdio server, that is the connection at boot, calls from several      *)
(* conversations, answers, time limits, the death of the server's process    *)
(* and the respawn by the next call; then the tokens of one remote server.   *)
(*                                                                           *)
(* A client object owns one process and one map of pending requests; request *)
(* ids count up per client.  The server is outside src/: it answers any      *)
(* request it was sent, in any order, late or never, and may die.            *)
EXTENDS Integers, FiniteSets, Sequences, Functions

CONSTANTS
    Callers,      \* tool calls of conversations, crons and the heartbeat
    Boot,         \* the caller that is McpManager.start
    MaxRespawns,  \* MAX_RESPAWN_ATTEMPTS
    MaxCalls      \* bound: calls made

VARIABLES
    server,   \* the ServerState: connected (in servers), client, attempts
    clients,  \* every client object made, in order
    asked,    \* what processes got and have not answered: <<client, id, what>>
    calls,    \* the callers' requests
    made,     \* calls made so far
    left,     \* history: clients somebody stopped looking after, by code path
    stopped

vars == <<server, clients, asked, calls, made, left, stopped>>

Everyone == Callers \cup {Boot}
Asking == {"initialize", "list", "call"}
Rest == {"idle", "answered", "failed"}
Nothing == <<"idle", 0>>    \* what a request is: its method, for which call
Idle == [at |-> "idle", client |-> 0, id |-> 0, n |-> 0, got |-> Nothing]

TypeOK ==
    LET Serials == 0..MaxCalls + 3
        Cs == 1..Len(clients)
    IN /\ server \in [connected : BOOLEAN, client : 0..Len(clients),
                      attempts : 0..MaxRespawns + Len(clients)]
       /\ \A c \in Cs :
             /\ clients[c].open \in BOOLEAN /\ clients[c].alive \in BOOLEAN
             /\ clients[c].nextId \in Serials
             /\ DOMAIN clients[c].pending \subseteq 1..clients[c].nextId - 1
             /\ \A id \in DOMAIN clients[c].pending :
                   clients[c].pending[id] \in Everyone
       /\ asked \subseteq Cs \X Serials \X (Asking \X (0..MaxCalls)) /\ left \subseteq Cs
       /\ calls \in [Everyone -> [at : Asking \cup Rest \cup {"waiting"},
                                  client : {0} \cup Cs, id : Serials, n : 0..MaxCalls,
                                  got : (Asking \cup {"idle"}) \X (0..MaxCalls)]]
       /\ made \in 0..MaxCalls /\ stopped \in BOOLEAN

Init ==
    /\ server = [connected |-> FALSE, client |-> 0, attempts |-> 0]
    /\ clients = <<>> /\ asked = {} /\ left = {} /\ made = 0
    /\ calls = [k \in Everyone |-> Idle]
    /\ stopped = FALSE
-----------------------------------------------------------------------------
(* One client *)

NextId(client) == client.nextId

(* request: k asks c; what is written to a process that died is lost. *)
Request(ks, cs, as, k, c, at) ==
    IF ~cs[c].open
    THEN /\ calls' = [ks EXCEPT ![k].at = "failed"]
         /\ clients' = cs /\ asked' = as
    ELSE LET id == NextId(cs[c])
         IN /\ calls' = [ks EXCEPT ![k].at = at, ![k].client = c, ![k].id = id]
            /\ clients' = [cs EXCEPT ![c].nextId = @ + 1,
                        ![c].pending = [i \in DOMAIN @ \cup {id} |->
                                           IF i = id THEN k ELSE @[i]]]
            /\ asked' = IF cs[c].alive
                        THEN as \cup {<<c, id, <<at, ks[k].n>>>>} ELSE as

(* connect: spawn, which may fail, and the first request of the handshake. *)
Connect(k) ==
    \E alive \in BOOLEAN :
        LET new == [open |-> TRUE, alive |-> alive, nextId |-> 1,
                    pending |-> <<>>]
        IN Request(calls, Append(clients, new), asked, k, Len(clients) + 1,
                   "initialize")

(* Callers whose request to c is rejected; a handshake that fails leaves its *)
(* client to nobody.                                                         *)
Waiting(c) == {clients[c].pending[id] : id \in DOMAIN clients[c].pending}
Reject(ks) ==
    [k \in Everyone |-> IF k \in ks THEN [calls[k] EXCEPT !.at = "failed"]
                                   ELSE calls[k]]
Abandoned(ks) ==
    {calls[k].client : k \in {j \in ks : calls[j].at \in {"initialize", "list"}}}

(* A time limit: 15 s for the handshake, timeoutMs for the rest. *)
Expire(c, id) ==
    /\ id \in DOMAIN clients[c].pending
    /\ LET k == clients[c].pending[id]
       IN /\ calls' = Reject({k})
          /\ left' = left \cup Abandoned({k})
    /\ clients' = [clients EXCEPT ![c].pending = Restrict(@, DOMAIN @ \ {id})]
    /\ UNCHANGED <<server, asked, made, stopped>>

ProcessDies(c) ==
    /\ clients[c].alive
    /\ clients' = [clients EXCEPT ![c].alive = FALSE]
    /\ UNCHANGED <<server, asked, calls, made, left, stopped>>

(* The events of a dead process: failAll on a broken pipe (the child stays), *)
(* failAll and no child on exit.  Answers that come later find no request.   *)
ExitSeen(c) ==
    /\ ~clients[c].alive /\ clients[c].open
    /\ calls' = Reject(Waiting(c))
    /\ left' = left \cup Abandoned(Waiting(c))
    /\ \E open \in BOOLEAN :
           clients' = [clients EXCEPT ![c].pending = <<>>, ![c].open = open]
    /\ asked' = {r \in asked : r[1] # c}
    /\ UNCHANGED <<server, made, stopped>>
-----------------------------------------------------------------------------
(* The manager *)

(* start: a server that fails to connect is skipped for good. *)
Start ==
    /\ calls[Boot].at = "idle"
    /\ Connect(Boot)
    /\ UNCHANGED <<server, made, left, stopped>>

(* ensureAlive of a server that is down: the number of respawns is looked at *)
(* before the wait and counted after it.                                     *)
EnsureAlive ==
    IF server.connected /\ server.attempts < MaxRespawns THEN "waiting" ELSE "failed"

(* callTool.  A process that died a moment ago is still taken for alive. *)
CallTool(k) ==
    /\ calls[k].at \in Rest /\ made < MaxCalls /\ made' = made + 1
    /\ calls[Boot].at \in {"answered", "failed"}
    /\ LET ks == [calls EXCEPT ![k] = [Idle EXCEPT !.n = made']]
       IN IF server.connected /\ clients[server.client].open
          THEN Request(ks, clients, asked, k, server.client, "call")
          ELSE /\ calls' = [ks EXCEPT ![k].at = EnsureAlive]
               /\ UNCHANGED <<clients, asked>>
    /\ UNCHANGED <<server, left, stopped>>

(* After the backoff: nobody looks whether another caller respawned it. *)
Respawn(k) ==
    /\ calls[k].at = "waiting"
    /\ server' = [server EXCEPT !.attempts = @ + 1]
    /\ Connect(k)
    /\ UNCHANGED <<made, left, stopped>>

(* connectServer returned: the fresh client takes the place of the one that  *)
(* was there, which is not closed, and the call that waited is made.         *)
Connected(cs, as, k, c) ==
    /\ server' = [server EXCEPT !.client = c, !.attempts = 0,
                                !.connected = @ \/ k = Boot]
    /\ left' = left \cup (IF stopped THEN {c} ELSE {})
                    \cup ({server.client} \ {0})
    /\ IF k = Boot THEN /\ calls' = [calls EXCEPT ![k].at = "answered"]
                        /\ clients' = cs /\ asked' = as
                   ELSE Request(calls, cs, as, k, c, "call")

(* onMessage, and how the caller goes on: initialize, tools/list, the call.  *)
(* An answer whose request ended is dropped.                                 *)
Answer(m, ok) ==
    LET c == m[1]
        id == m[2]
        as == asked \ {m}
        k == clients[c].pending[id]
        cs == [clients EXCEPT ![c].pending = Restrict(@, DOMAIN @ \ {id})]
    IN /\ m \in asked
       /\ \/ /\ id \notin DOMAIN clients[c].pending
             /\ asked' = as /\ UNCHANGED <<server, clients, calls, left>>
          \/ /\ id \in DOMAIN clients[c].pending /\ ~ok
             /\ calls' = Reject({k}) /\ clients' = cs /\ asked' = as
             /\ left' = left \cup Abandoned({k})
             /\ UNCHANGED server
          \/ /\ id \in DOMAIN clients[c].pending /\ ok
             /\ \/ /\ calls[k].at = "initialize"
                   /\ Request(calls, cs, as, k, c, "list")
                   /\ UNCHANGED <<server, left>>
                \/ calls[k].at = "list" /\ Connected(cs, as, k, c)
                \/ /\ calls[k].at = "call"
                   /\ calls' = [calls EXCEPT ![k].at = "answered", ![k].got = m[3]]
                   /\ clients' = cs /\ asked' = as
                   /\ UNCHANGED <<server, left>>
       /\ UNCHANGED <<made, stopped>>

(* stop: closes the client each server has now, its requests fail.  A        *)
(* respawn under way is not told.                                            *)
Stop ==
    /\ ~stopped /\ calls[Boot].at \in {"answered", "failed"}
    /\ stopped' = TRUE
    /\ server' = [server EXCEPT !.connected = FALSE]
    /\ IF server.connected
       THEN LET c == server.client
            IN /\ clients' = [clients EXCEPT ![c].open = FALSE, ![c].alive = FALSE,
                                             ![c].pending = <<>>]
               /\ calls' = Reject(Waiting(c))
               /\ asked' = {r \in asked : r[1] # c}
       ELSE UNCHANGED <<clients, calls, asked>>
    /\ UNCHANGED <<made, left>>

Next ==
    \/ Start \/ Stop
    \/ \E k \in Callers : CallTool(k) \/ Respawn(k)
    \/ \E c \in 1..Len(clients) :
          \/ ProcessDies(c) \/ ExitSeen(c)
          \/ \E id \in DOMAIN clients[c].pending : Expire(c, id)
    \/ \E m \in asked, ok \in BOOLEAN : Answer(m, ok)

(* Timers fire; nothing is assumed of the server. *)
Timers == \/ \E k \in Callers : Respawn(k)
          \/ \E c \in 1..Len(clients) :
                \E id \in DOMAIN clients[c].pending : Expire(c, id)
Spec == Init /\ [][Next]_vars /\ WF_vars(Timers)
-----------------------------------------------------------------------------
(* Properties *)

(* An answer reaches the call it belongs to, however late it comes and       *)
(* however many clients and requests there are (client.ts:156).              *)
AnswerIsOwn ==
    \A k \in Callers : calls[k].at = "answered" => calls[k].got = <<"call", calls[k].n>>

(* Whoever waits is in pending of the client it waits for, once, and who is  *)
(* in pending waits: no call hangs on a request nobody will settle.          *)
WaitersArePending ==
    /\ \A k \in Everyone : calls[k].at \in Asking =>
          /\ calls[k].id \in DOMAIN clients[calls[k].client].pending
          /\ clients[calls[k].client].pending[calls[k].id] = k
    /\ \A c \in 1..Len(clients) : \A id \in DOMAIN clients[c].pending :
          LET k == clients[c].pending[id]
          IN calls[k].at \in Asking /\ calls[k].client = c /\ calls[k].id = id

(* A process that runs without anybody holding its client comes from one of  *)
(* three paths: its handshake failed, another respawn replaced it, or stop   *)
(* came while it was being connected (manager.ts:50, :80).                   *)
Held(c) == \/ server.connected /\ server.client = c
           \/ \E k \in Everyone : /\ calls[k].client = c
                                  /\ calls[k].at \in {"initialize", "list"}
ProcessesAreHeld ==
    \A c \in 1..Len(clients) : clients[c].alive => Held(c) \/ c \in left

(* The limit of three respawns is passed by at most the calls that were past *)
(* the test while another one counted (manager.ts:82-87).                    *)
RespawnsAreLimited ==
    server.attempts + Cardinality({k \in Callers : calls[k].at = "waiting"})
        < MaxRespawns + Cardinality(Callers)

(* Every call gets an answer or an error, whatever the server does. *)
CallsEnd == \A k \in Everyone : calls[k].at \notin Rest ~> calls[k].at \in Rest
-----------------------------------------------------------------------------
(* Tokens: mcp/http-client.ts and mcp/oauth.ts.  Requests to a remote server *)
(* read the stored token, refresh it when it is about to expire, and store   *)
(* what the issuer answered.  Calls of several conversations do so at once.  *)
(* Tokens are generations.  The issuer is outside src/: it takes the last    *)
(* refresh token it gave, and gives a new one with every refresh or never.   *)
CONSTANTS Requests, MaxRefreshes, MaxPosts

VARIABLES
    stored,     \* the profile in the secret store: refresh, expiring
    issuer,     \* the refresh token it takes, whether it rotates, refreshes
    connected,  \* McpHttpClient.connected
    req,        \* each request: where it is, what it read, what it was given
    posts,
    lost        \* history: what the issuer gave never arrived, or could not
                \* be stored

tokenVars == <<stored, issuer, connected, req, posts, lost>>

Token == 1..MaxRefreshes + 1

TokenTypeOK ==
    /\ stored \in [refresh : Token, expiring : BOOLEAN]
    /\ issuer \in [refresh : Token, rotates : BOOLEAN, count : 0..MaxRefreshes]
    /\ connected \in BOOLEAN /\ lost \in BOOLEAN
    /\ req \in [Requests -> [at : {"idle", "refresh", "answered", "post"},
                             base : Token, given : Token]]
    /\ posts \in 0..MaxPosts

TokenInit ==
    /\ stored = [refresh |-> 1, expiring |-> FALSE]
    /\ \E rotates \in BOOLEAN :
           issuer = [refresh |-> 1, rotates |-> rotates, count |-> 0]
    /\ connected = TRUE /\ lost = FALSE
    /\ req = [k \in Requests |-> [at |-> "idle", base |-> 1, given |-> 1]]
    /\ posts = 0

Expires ==
    /\ ~stored.expiring /\ issuer.count < MaxRefreshes
    /\ stored' = [stored EXCEPT !.expiring = TRUE]
    /\ UNCHANGED <<issuer, connected, req, posts, lost>>

(* headers, getAccessToken: the profile is read once, before the refresh.    *)
Headers(k) ==
    /\ req[k].at = "idle" /\ connected /\ posts < MaxPosts /\ posts' = posts + 1
    /\ req' = [req EXCEPT ![k] = [at |-> IF stored.expiring THEN "refresh"
                                                            ELSE "post",
                                  base |-> stored.refresh, given |-> @.given]]
    /\ UNCHANGED <<stored, issuer, connected, lost>>

(* What fails before the post fails the request: the client counts as dead   *)
(* and the manager makes a new one.  A notification swallows it.             *)
Failed(k) ==
    /\ req' = [req EXCEPT ![k].at = "idle"]
    /\ connected' \in {connected, FALSE}

(* tokenRequest: what reaches the issuer, and what of its answer comes back. *)
Refresh(k) ==
    /\ req[k].at = "refresh"
    /\ LET good == req[k].base = issuer.refresh /\ issuer.count < MaxRefreshes
           next == IF issuer.rotates THEN issuer.count + 2 ELSE issuer.refresh
       IN \/ Failed(k) /\ UNCHANGED <<issuer, lost>>
          \/ /\ good
             /\ issuer' = [issuer EXCEPT !.refresh = next, !.count = @ + 1]
             /\ \/ /\ req' = [req EXCEPT ![k].at = "answered", ![k].given = next]
                   /\ UNCHANGED <<lost, connected>>
                \/ Failed(k) /\ lost' = TRUE
    /\ UNCHANGED <<stored, posts>>

(* persistTokens: the profile read before, with what was given.  If the store *)
(* cannot be written it is as before, and the token just given is gone.       *)
Persist(k) ==
    /\ req[k].at = "answered"
    /\ \/ /\ stored' = [refresh |-> IF issuer.rotates THEN req[k].given
                                                     ELSE req[k].base,
                         expiring |-> FALSE]
          /\ req' = [req EXCEPT ![k].at = "post"]
          /\ UNCHANGED <<connected, lost>>
       \/ Failed(k) /\ lost' = TRUE /\ UNCHANGED stored
    /\ UNCHANGED <<issuer, posts>>

(* request: answered in some way, or the connection counts as dead; then the *)
(* next call makes a new client.                                             *)
Post(k) ==
    /\ req[k].at = "post"
    /\ Failed(k)
    /\ UNCHANGED <<stored, issuer, posts, lost>>

Reconnect ==
    /\ ~connected /\ connected' = TRUE
    /\ UNCHANGED <<stored, issuer, req, posts, lost>>

TokenNext == \/ Expires \/ Reconnect
        \/ \E k \in Requests : Headers(k) \/ Refresh(k) \/ Persist(k) \/ Post(k)
TokenSpec == TokenInit /\ [][TokenNext]_vars
-----------------------------------------------------------------------------
(* Properties *)

(* When nobody is between an answer of the issuer and the store, the store   *)
(* holds the refresh token the issuer takes, however many requests refresh   *)
(* at once, unless an answer was lost or could not be stored: else the       *)
(* server is cut off until the owner authorizes it again (oauth.ts:39-55).   *)
RefreshTokenIsGood ==
    lost \/ stored.refresh = issuer.refresh
         \/ \E k \in Requests : req[k].at = "answered"
=============================================================================
