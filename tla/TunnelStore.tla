----------------------------- MODULE TunnelStore -----------------------------
(***************************************************************************)
(* What the control plane keeps about a tunnel outside its own memory: the *)
(* keys in Valkey (internal/cache/cache.go) and the row in YugabyteDB      *)
(* (internal/db/users.go).  Each operator is one command pipeline or one   *)
(* SQL statement.                                                          *)
(*                                                                         *)
(* Time is abstracted to what the handlers can tell apart.  A key whose    *)
(* TTL is the idle window may vanish at any moment; a key whose TTL is the *)
(* rest of the tunnel's life vanishes with the hard deadline; effectiveTTL *)
(* never lets a key outlive it.  The reverse index tunnel:byid is left     *)
(* out: a handler that misses it reads the row, which answers the same.    *)
(***************************************************************************)
EXTENDS TunnelHub

CONSTANTS
    NoEntry,     \* a cache miss
    StoresFail   \* a call to a store may fail

ASSUME StoreConstants == StoresFail \in BOOLEAN

VARIABLES
    key,   \* tunnel:<subdomain> -> TunnelEntry
    hold,  \* what bounds the key's TTL
    mine,  \* user:tunnels:<user>, the subdomains the user has put
    row,   \* the tunnels table
    late   \* tunnels past expires_at

cacheVars == <<key, hold, mine>>
storeVars == <<cacheVars, row, late>>

CacheEntry == [id : Tids, agent : Agents \cup {NoAgent}, enabled : BOOLEAN]

Row == [status : {"none", "active", "inactive"}, enabled : BOOLEAN]

StoreTypeOK ==
    /\ key \in [Subs -> CacheEntry \cup {NoEntry}]
    /\ hold \in [Subs -> {"idle", "deadline"}]
    /\ mine \in [Users -> SUBSET Subs]
    /\ row \in [Tids -> Row]
    /\ late \subseteq Tids

\* A store call whose error the caller ignores.
Ignoring(call, unchanged) == call \/ (StoresFail /\ unchanged)

-----------------------------------------------------------------------------
(* The cache.                                                              *)

\* RemoveTunnel that forgets the routing key.
RemoveIndexOnly(id) ==
    /\ mine' = [mine EXCEPT ![UserOf[id]] = @ \ {SubOf[id]}]
    /\ UNCHANGED <<key, hold>>

\* Past the deadline there is no TTL to give, and the call is a no-op.
PutTunnel(e, ttl) ==
    IF e.id \in late
    THEN UNCHANGED cacheVars
    ELSE /\ key' = [key EXCEPT ![SubOf[e.id]] = e]
         /\ hold' = [hold EXCEPT ![SubOf[e.id]] = ttl]
         /\ mine' = [mine EXCEPT ![UserOf[e.id]] = @ \cup {SubOf[e.id]}]

\* GetTunnel reads, and slides whatever TTL the key had to the idle window.
Slide(s) ==
    /\ hold' = IF key[s] = NoEntry THEN hold ELSE [hold EXCEPT ![s] = "idle"]
    /\ UNCHANGED <<key, mine>>

\* Deletes by subdomain, whichever tunnel's entry is there.
RemoveTunnel(id) ==
    /\ key' = [key EXCEPT ![SubOf[id]] = NoEntry]
    /\ hold' = [hold EXCEPT ![SubOf[id]] = "idle"]
    /\ mine' = [mine EXCEPT ![UserOf[id]] = @ \ {SubOf[id]}]

\* The members of the user's set, whoever's key each of them leads to.
LiveMembers(u) == {s \in mine[u] : key[s] # NoEntry}

CountLiveTunnels(u) == Cardinality(LiveMembers(u))

-----------------------------------------------------------------------------
(* The table.                                                              *)

IsActive(id) == row[id].status = "active"

\* subdomain is UNIQUE over all rows, the inactive ones included.
SubdomainTaken(s) == \E id \in Tids : SubOf[id] = s /\ row[id].status # "none"

RecordTunnel(id) ==
    row' = [row EXCEPT ![id] = [status |-> "active", enabled |-> TRUE]]

DeactivateTunnels(ids) ==
    row' = [id \in Tids |->
              IF id \in ids /\ row[id].status # "none"
              THEN [row[id] EXCEPT !.status = "inactive"]
              ELSE row[id]]

SetTunnelEnabled(id, on) == row' = [row EXCEPT ![id].enabled = on]

ActiveTunnelsForUser(u) ==
    {id \in Tids : UserOf[id] = u /\ IsActive(id) /\ id \notin late}

-----------------------------------------------------------------------------
(* The passing of time.                                                    *)

KeyIdles(s) ==
    /\ key[s] # NoEntry
    /\ hold[s] = "idle"
    /\ key' = [key EXCEPT ![s] = NoEntry]
    /\ UNCHANGED <<hold, mine, row, late>>

\* The set lives for the TTL of the user's last put, while GetTunnel goes on
\* sliding the keys: it can lapse before them.
SetLapses(u) ==
    /\ mine[u] # {}
    /\ mine' = [mine EXCEPT ![u] = {}]
    /\ UNCHANGED <<key, hold, row, late>>

DeadlinePasses(id) ==
    LET dies == {s \in Subs : key[s] # NoEntry /\ key[s].id = id} IN
    /\ row[id].status # "none"
    /\ id \notin late
    /\ late' = late \cup {id}
    /\ key' = [s \in Subs |-> IF s \in dies THEN NoEntry ELSE key[s]]
    /\ hold' = [s \in Subs |-> IF s \in dies THEN "idle" ELSE hold[s]]
    /\ UNCHANGED <<mine, row>>

=============================================================================
