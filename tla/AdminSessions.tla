----------------------------- MODULE AdminSessions -----------------------------
(***************************************************************************)
(* Who may use the admin API.  A request is admitted by the configured keys *)
(* (a bearer key, or a cookie whose session still matches a key), or by the *)
(* loopback bind when no keys are configured; its handler then asks for a   *)
(* role.  Keys and roles are hot-reloaded; the bound address is the one of  *)
(* the boot.  A login and a request each load the configuration once and    *)
(* use it later, so a reload may fall between their steps.                  *)
(***************************************************************************)
EXTENDS Integers, FiniteSets

CONSTANTS
    Name, Secret,  \* the names and secrets of admin keys
    Role,          \* the roles, viewer < operator < admin
    Admin,         \* the highest of them
    Ttl,           \* the values of admin.session_ttl_ms
    Token,         \* the session tokens logins draw
    Request,       \* the requests in progress at one time
    MaxSessions,   \* MAX_SESSIONS
    MaxClock,      \* bound on the clock
    Files,         \* the configurations that are published
    Nothing        \* nothing presented

AdminKey == [name : Name, key : Secret, role : Role]

\* Config::validate: names and keys are unique, and an enabled plane on an
\* address that is not loopback needs keys.  auth tells whether admin.keys is
\* there at all; an empty list admits nobody.
Valid(c) ==
    /\ c.enabled /\ ~c.loopback => c.auth
    /\ ~c.auth => c.keys = {}
    /\ \A j, k \in c.keys : (j.name = k.name \/ j.key = k.key) => j = k

Config ==
    {c \in [enabled : BOOLEAN, auth : BOOLEAN, keys : SUBSET AdminKey, loopback : BOOLEAN] :
        Valid(c)}

ASSUME SessionsAssumption ==
    /\ Role \subseteq Nat /\ Admin \in Role
    /\ Ttl \subseteq Nat
    /\ IsFiniteSet(Token)
    /\ MaxSessions \in Nat \ {0} /\ MaxClock \in Nat
    /\ Nothing \notin Secret /\ Nothing \notin Token
    /\ Files \subseteq Config

VARIABLES
    clock,     \* now_ms
    config,    \* the live configuration
    boot,      \* whether the bound address is loopback
    logins,    \* the login that draws each token: its step and what it matched
    sessions,  \* the SessionStore
    requests   \* the requests: what they present, ask for, load and are given

svars == <<clock, config, boot, logins, sessions, requests>>

NoLogin == [pc |-> "none", name |-> Nothing, key |-> Nothing, expires |-> 0]
NoConfig == [enabled |-> TRUE, auth |-> TRUE, keys |-> {}, loopback |-> FALSE]
NoRequest == [pc |-> "none", bearer |-> Nothing, token |-> Nothing, need |-> Admin,
              config |-> NoConfig, name |-> Nothing, role |-> Admin]

SInit ==
    /\ clock = 0
    /\ config \in {f \in Files : f.enabled}
    /\ boot = config.loopback
    /\ logins = [t \in Token |-> NoLogin]
    /\ sessions = [t \in {} |-> NoLogin]
    /\ requests = [r \in Request |-> NoRequest]

\* The wall clock moves either way.
Tick ==
    /\ clock' \in (0..MaxClock) \ {clock}
    /\ UNCHANGED <<config, boot, logins, sessions, requests>>

\* The watcher publishes an edited file, restart-only fields included.
Publish ==
    /\ config' \in Files \ {config}
    /\ UNCHANGED <<clock, boot, logins, sessions, requests>>

\* login: match name and key on one entry of the loaded configuration, and fix
\* the expiry.  A login that matches nothing is answered 401.
LoginMatch(t) ==
    /\ logins[t].pc = "none"
    /\ \E k \in config.keys, ttl \in Ttl :
        logins' = [logins EXCEPT ![t] =
            [pc |-> "matched", name |-> k.name, key |-> k.key, expires |-> clock + ttl]]
    /\ UNCHANGED <<clock, config, boot, sessions, requests>>

Live == {t \in DOMAIN sessions : sessions[t].expires > clock}

\* A variant that evicts the session that would have lasted longest.
LastToExpire(live) ==
    {t \in live : \A u \in live : sessions[u].expires <= sessions[t].expires}

\* The sessions of which one makes room: the soonest to expire.
SoonestToExpire(live) ==
    {t \in live : \A u \in live : sessions[t].expires <= sessions[u].expires}

\* Under the write lock: drop the expired, make room, insert.
LoginInsert(t) ==
    /\ logins[t].pc = "matched"
    /\ \E out \in IF Cardinality(Live) >= MaxSessions
                  THEN {{v} : v \in SoonestToExpire(Live)} ELSE {{}} :
        sessions' = [u \in (Live \ out) \cup {t} |->
                        IF u = t THEN [logins[t] EXCEPT !.pc = "open"] ELSE sessions[u]]
    /\ logins' = [logins EXCEPT ![t].pc = "open", ![t].expires = 0]
    /\ UNCHANGED <<clock, config, boot, requests>>

\* require begins: it loads the configuration.  The request may present a bearer
\* key and the cookie of an answered login, and its handler needs a role.
Arrive(r) ==
    /\ requests[r].pc = "none"
    /\ \E b \in Secret \cup {Nothing}, need \in Role,
          t \in {u \in Token : logins[u].pc = "open"} \cup {Nothing} :
        requests' = [requests EXCEPT ![r] =
            [NoRequest EXCEPT !.pc = "loaded", !.bearer = b, !.token = t, !.need = need,
                              !.config = config]]
    /\ UNCHANGED <<clock, config, boot, logins, sessions>>

\* match_key: the entry whose key is presented.
ByBearer(c, b) == {k \in c.keys : k.key = b}

\* A variant that matches a session to a key by its name alone.
ByCookieName(c, t) ==
    IF t \notin Live THEN {} ELSE {k \in c.keys : k.name = sessions[t].name}

\* The entry a live session still matches, in name and hash.
ByCookie(c, t) ==
    IF t \notin Live THEN {}
    ELSE {k \in c.keys : k.name = sessions[t].name /\ k.key = sessions[t].key}

\* Whether a configuration without keys admits everyone.
OpenWithoutKeys(c) == boot

\* require decides, reading the sessions and the clock now.
Check(r) ==
    /\ requests[r].pc = "loaded"
    /\ LET c == requests[r].config
           matched == IF ByBearer(c, requests[r].bearer) # {}
                      THEN ByBearer(c, requests[r].bearer)
                      ELSE ByCookie(c, requests[r].token)
       IN  \/ /\ ~c.auth /\ OpenWithoutKeys(c)
              /\ requests' = [requests EXCEPT ![r].pc = "admitted"]
           \/ \E k \in matched :
                requests' = [requests EXCEPT ![r].pc = "admitted", ![r].name = k.name,
                                             ![r].role = k.role]
           \/ /\ ~(~c.auth /\ OpenWithoutKeys(c)) /\ matched = {}
              /\ requests' = [requests EXCEPT ![r] = NoRequest]   \* 401
    /\ UNCHANGED <<clock, config, boot, logins, sessions>>

\* extract: the handler of an admitted request runs, or 403.
Serve(r) ==
    /\ requests[r].pc = "admitted"
    /\ requests' = [requests EXCEPT ![r] = IF @.role < @.need THEN NoRequest
                                           ELSE [@ EXCEPT !.pc = "serving"]]
    /\ UNCHANGED <<clock, config, boot, logins, sessions>>

\* logout: any admitted request may be one, and ends the session of its cookie.
Logout(r) ==
    /\ requests[r].pc = "admitted"
    /\ sessions' = [t \in DOMAIN sessions \ {requests[r].token} |-> sessions[t]]
    /\ requests' = [requests EXCEPT ![r] = NoRequest]
    /\ UNCHANGED <<clock, config, boot, logins>>

Answer(r) ==
    /\ requests[r].pc = "serving"
    /\ requests' = [requests EXCEPT ![r] = NoRequest]
    /\ UNCHANGED <<clock, config, boot, logins, sessions>>

\* The process restarts with the plane enabled: the store is in memory, the
\* address is bound anew.
Restart ==
    /\ config.enabled
    /\ boot' = config.loopback
    /\ logins' = [t \in Token |-> IF logins[t].pc = "open" THEN logins[t] ELSE NoLogin]
    /\ sessions' = [t \in {} |-> NoLogin]
    /\ requests' = [r \in Request |-> NoRequest]
    /\ UNCHANGED <<clock, config>>

SNext ==
    \/ Tick \/ Publish \/ Restart
    \/ \E t \in Token : LoginMatch(t) \/ LoginInsert(t)
    \/ \E r \in Request : Arrive(r) \/ Check(r) \/ Serve(r) \/ Logout(r) \/ Answer(r)

SSpec == SInit /\ [][SNext]_svars

-------------------------------------------------------------------------------
(* Properties.                                                               *)

\* A handler runs only for a request that, under the configuration live when it
\* arrived, either met no keys on a loopback bind, or showed the secret of a
\* configured key of sufficient role: as a bearer, or at the login of its
\* session (require, extract).  So a rotated or revoked key is out at once, also
\* for a login that was under way while the file changed, and a role edit holds
\* from the next request on.
ServedByLiveKey ==
    \A r \in Request : requests[r].pc = "serving" =>
        LET q == requests[r] IN
        IF ~q.config.auth THEN boot
        ELSE \E k \in q.config.keys :
                /\ k.name = q.name /\ q.need <= k.role
                /\ \/ k.key = q.bearer
                   \/ q.token # Nothing /\ k.key = logins[q.token].key
                      /\ k.name = logins[q.token].name

\* A session ends before its expiry only by its own logout, by a restart, or at
\* a login over the cap, and then no session that stays expires earlier (login);
\* there are never more than MAX_SESSIONS.
SessionsEndInOrder ==
    [][/\ Cardinality(DOMAIN sessions') <= MaxSessions
       /\ \A t \in Live \ DOMAIN sessions' :
            \/ \E r \in Request : requests[r].pc = "admitted" /\ requests[r].token = t
            \/ sessions' = [u \in {} |-> NoLogin]
            \/ /\ Cardinality(Live) = MaxSessions
               /\ \A u \in DOMAIN sessions' \cap DOMAIN sessions :
                    sessions[t].expires <= sessions[u].expires]_svars
===============================================================================
