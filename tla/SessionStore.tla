---------------------------- MODULE SessionStore ----------------------------
(***************************************************************************)
(* The tables that say which backend may speak in a conversation and in    *)
(* which session (src/store/sessions.rs, src/store/context.rs), for one    *)
(* virtual context.  Each operator is one SQL statement, so one step of    *)
(* the modules that use it.                                                *)
(*                                                                         *)
(* active_sessions has at most one row for a backend, here a record whose  *)
(* session name is NoSession when the row is missing.  expires_at is kept  *)
(* as the age of the row: it has expired at GrantTtl.  backend_sessions_v2 *)
(* is, for a backend, a function from its session names to the session id  *)
(* of its command-line tool; NoSid is the empty string.                    *)
(***************************************************************************)
EXTENDS Integers, Functions

CONSTANT GrantTtl       \* grant_ttl_secs

ASSUME GrantTtlAssumption == GrantTtl \in Nat \ {0}

\* Session names: "default", those a user gives, those made for an @mention
\* ("at-...") and those made for an agent call ("a2a-...").
NoSession == <<"none", 0>>
Default   == <<"default", 0>>
NoSid     == 0

Row(name, depth, age) == [name |-> name, depth |-> depth, age |-> age]
NoRow == Row(NoSession, 0, 0)
HasRow(row) == row.name # NoSession

\* The row read-time expiry accepts: expires_at > now.
Unexpired(row) == HasRow(row) /\ row.age < GrantTtl

set_active_session_with_depth(active, vtoken, name, depth) ==
    [active EXCEPT ![vtoken] = Row(name, depth, 0)]

\* The depth column keeps its value, which is 0 in a new row.
set_active_session_name(active, vtoken, name) ==
    [active EXCEPT ![vtoken] = Row(name, @.depth, 0)]

delete_active_session_if_name(active, vtoken, name) ==
    [active EXCEPT ![vtoken] = IF @.name = name THEN NoRow ELSE @]

get_active_session_name(active, vtoken) ==
    IF HasRow(active[vtoken]) THEN active[vtoken].name ELSE Default

set_backend_session(backend, vtoken, name, sid) ==
    [backend EXCEPT ![vtoken] =
        [s \in DOMAIN @ \cup {name} |-> IF s = name THEN sid ELSE @[s]]]

delete_backend_session(backend, vtoken, name) ==
    [backend EXCEPT ![vtoken] = Restrict(@, DOMAIN @ \ {name})]

\* None and the empty string are both "no session id" to the callers that
\* build a HubExt.
get_backend_session(backend, vtoken, name) ==
    IF name \in DOMAIN backend[vtoken] THEN backend[vtoken][name] ELSE NoSid

\* The session name does not depend on the row's expiry.
get_hub_ext_single(active, backend, vtoken) ==
    LET name == get_active_session_name(active, vtoken)
    IN  [name |-> name, sid |-> get_backend_session(backend, vtoken, name)]

\* The ownership predicate of sendmessage and getconfig.
vtoken_owns_vctx(active, backend, vtoken) ==
    Unexpired(active[vtoken]) \/ DOMAIN backend[vtoken] # {}

\* The session name an owner's message gets when it names none itself.
resolve_send_context(active, vtoken) ==
    IF Unexpired(active[vtoken]) THEN active[vtoken].name ELSE Default

\* Time passes for every row; an expired one stays as it is.
AgedRows(active) ==
    [v \in DOMAIN active |->
        IF Unexpired(active[v]) THEN [active[v] EXCEPT !.age = @ + 1]
                                ELSE active[v]]
=============================================================================
