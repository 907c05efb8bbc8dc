--------------------------- MODULE TokenRevocation ---------------------------
(***************************************************************************)
(* One access token: the logout route of backend/api/v1/router.py and      *)
(* get_current_user / revoke_token of backend/core/auth.py, which meet in  *)
(* the Redis key token:blacklist:<jti>.  Both decode the token first and   *)
(* reach Redis after an await, and the key has a lifetime of its own,      *)
(* which ends early when Redis evicts it or starts anew.                   *)
(***************************************************************************)
EXTENDS Naturals

CONSTANTS
    Requests,   \* requests that carry the token
    Logouts,    \* calls of the logout route that carry the token
    Lifetime,   \* JWT_ACCESS_TOKEN_EXPIRE_MINUTES
    TTL,        \* expiry_seconds of revoke_token
    MaxAwait,   \* longest time a call spends between its decode and Redis' answer
    RedisFails, \* TRUE: a Redis command may raise
    RedisLoses, \* TRUE: Redis may lose a key before its time
    MaxAge      \* bound: the clock stops when the token is this old

ASSUME TokenAssumption ==
    /\ Lifetime \in Nat /\ TTL \in Nat \ {0} /\ MaxAwait \in Nat /\ MaxAge \in Nat
    /\ RedisFails \in BOOLEAN /\ RedisLoses \in BOOLEAN
    /\ Requests \cap Logouts = {}

VARIABLES
    age,      \* ticks since create_access_token issued the token
    key,      \* ticks the blacklist key has left; 0 when there is none
    req,      \* req[r]: where get_current_user stands for request r
    out,      \* out[l]: where logout l stands
    waited,   \* waited[c]: ticks since call c decoded the token
    late,     \* late[r]: r arrived after Redis had confirmed a revocation
    lost      \* history: Redis has lost the key before its time

vars == <<age, key, req, out, waited, late, lost>>

Calls == Requests \cup Logouts
ReqStates == {"idle", "checking", "expired", "revoked", "accepted", "unchecked"}
OutStates == {"idle", "revoking", "expired", "confirmed", "unconfirmed"}

TypeOK ==
    /\ age \in Nat
    /\ key \in 0 .. TTL
    /\ req \in [Requests -> ReqStates]
    /\ out \in [Logouts -> OutStates]
    /\ waited \in [Calls -> 0 .. MaxAwait]
    /\ late \in [Requests -> BOOLEAN]
    /\ lost \in BOOLEAN

Init ==
    /\ age = 0
    /\ key = 0
    /\ req = [r \in Requests |-> "idle"]
    /\ out = [l \in Logouts |-> "idle"]
    /\ waited = [c \in Calls |-> 0]
    /\ late = [r \in Requests |-> FALSE]
    /\ lost = FALSE

\* jwt.decode accepts a token up to and including its exp.
Decodes == age <= Lifetime

Confirmed == \E l \in Logouts : out[l] = "confirmed"

-----------------------------------------------------------------------------
(* logout *)

LogoutDecode(l) ==
    /\ out[l] = "idle"
    /\ out' = [out EXCEPT ![l] = IF Decodes THEN "revoking" ELSE "expired"]
    /\ waited' = [waited EXCEPT ![l] = 0]
    /\ UNCHANGED <<age, key, req, late, lost>>

\* Mutant: the key lives only as long as the token.
SetexRemaining(l) ==
    /\ out[l] = "revoking"
    /\ key' = IF age < Lifetime THEN Lifetime - age ELSE 1
    /\ out' = [out EXCEPT ![l] = "confirmed"]
    /\ UNCHANGED <<age, req, waited, late, lost>>

\* revoke_token: SETEX overwrites the expiry of an earlier logout.
Setex(l) ==
    /\ out[l] = "revoking"
    /\ key' = TTL
    /\ out' = [out EXCEPT ![l] = "confirmed"]
    /\ UNCHANGED <<age, req, waited, late, lost>>

\* The exception is logged; the route answers as if the token were revoked, and the
\* server may have executed the command.
SetexRaises(l) ==
    /\ RedisFails
    /\ out[l] = "revoking"
    /\ key' \in {key, TTL}
    /\ out' = [out EXCEPT ![l] = "unconfirmed"]
    /\ UNCHANGED <<age, req, waited, late, lost>>

-----------------------------------------------------------------------------
(* get_current_user *)

RequestDecode(r) ==
    /\ req[r] = "idle"
    /\ req' = [req EXCEPT ![r] = IF Decodes THEN "checking" ELSE "expired"]
    /\ waited' = [waited EXCEPT ![r] = 0]
    /\ late' = [late EXCEPT ![r] = Confirmed]
    /\ UNCHANGED <<age, key, out, lost>>

\* _check_token_blacklist
Exists(r) ==
    /\ req[r] = "checking"
    /\ req' = [req EXCEPT ![r] = IF key > 0 THEN "revoked" ELSE "accepted"]
    /\ UNCHANGED <<age, key, out, waited, late, lost>>

ExistsRaises(r) ==
    /\ RedisFails
    /\ req[r] = "checking"
    /\ req' = [req EXCEPT ![r] = "unchecked"]
    /\ UNCHANGED <<age, key, out, waited, late, lost>>

\* The request is over; another one with the same token may come.
NextRequest(r) ==
    /\ req[r] \notin {"idle", "checking"}
    /\ req' = [req EXCEPT ![r] = "idle"]
    /\ late' = [late EXCEPT ![r] = FALSE]
    /\ UNCHANGED <<age, key, out, waited, lost>>

-----------------------------------------------------------------------------
Waiting(c) == \/ c \in Requests /\ req[c] = "checking"
              \/ c \in Logouts /\ out[c] = "revoking"

\* allkeys-lru, or a restart of Redis since its last snapshot.
Evict ==
    /\ RedisLoses
    /\ key > 0
    /\ key' = 0
    /\ lost' = TRUE
    /\ UNCHANGED <<age, req, out, waited, late>>

Tick ==
    /\ age < MaxAge
    /\ \A c \in Calls : Waiting(c) => waited[c] < MaxAwait
    /\ age' = age + 1
    /\ key' = IF key = 0 THEN 0 ELSE key - 1
    /\ waited' = [c \in Calls |-> IF Waiting(c) THEN waited[c] + 1 ELSE waited[c]]
    /\ UNCHANGED <<req, out, late, lost>>

Logout(l) == LogoutDecode(l) \/ Setex(l) \/ SetexRaises(l)
GetCurrentUser(r) == RequestDecode(r) \/ Exists(r) \/ ExistsRaises(r) \/ NextRequest(r)

Next ==
    \/ \E l \in Logouts : Logout(l)
    \/ \E r \in Requests : GetCurrentUser(r)
    \/ Evict
    \/ Tick

Spec == Init /\ [][Next]_vars

-----------------------------------------------------------------------------
(* Properties *)

\* "Revoke the current access token." (logout): once Redis has confirmed one logout, and as
\* long as it keeps the key, no request that arrives later passes on the word of Redis.
\* The key must outlive the token by the time a request may spend between its decode and
\* its EXISTS.
RevokedIsRefused == ~lost => \A r \in Requests : late[r] => req[r] # "accepted"

\* "Revoked JWT (blacklisted) | 401" (testing_documentation.md), whatever becomes of the key.
RevokedStaysRefused == \A r \in Requests : late[r] => req[r] # "accepted"
=============================================================================
