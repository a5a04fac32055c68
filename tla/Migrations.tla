----------------------------- MODULE Migrations -----------------------------
(***************************************************************************)
(* What each schema migration of src/store/migrations.rs does to a         *)
(* database.  A database is a record                                       *)
(*                                                                         *)
(*   versions   the rows of schema_version                                 *)
(*   schema     the tables, columns and indexes that exist                 *)
(*   clients, routing   the vtokens stored in clients and routing_state    *)
(*   peers      the rows of context_token_map, from rowid to peer_user_id  *)
(*   cred       the token of bot_credentials                               *)
(*   messages   the rows of messages: id, vtoken and created_at            *)
(*   sessions   the rows of active_sessions: key and updated_at            *)
(*                                                                         *)
(* A vtoken is <<v, "plain">> or <<v, "hash">>.  A peer_user_id is         *)
(* <<u, "bare">> as releases before v6 wrote it, <<u, "peer">> or          *)
(* <<u, "group">> in the canonical form, and <<u, "empty">> for a message  *)
(* whose sender was not known.  Each operator is the body a claimed        *)
(* version runs; the claim itself is Claimed.                              *)
(***************************************************************************)
EXTENDS Integers, FiniteSets, FiniteSetsExt

Latest == 15

is_vtoken_hash(t) == t[2] = "hash"

hash_vtoken(t) == <<t[1], "hash">>

\* CREATE TABLE / INDEX IF NOT EXISTS
Create(d, objects) == [d EXCEPT !.schema = @ \cup objects]

\* A column or an index added to a table, when the table exists.
AddTo(d, table, object) ==
  IF table \in d.schema THEN Create(d, {object}) ELSE d

MigrateToV1(d) ==
  Create(d, {"clients", "routing_state", "context_token_map", "bot_credentials"})

MigrateToV2(d) == Create(d, {"backend_sessions_v2", "active_sessions"})

MigrateToV3(d) == Create(d, {"idx_real_ctx"})

MigrateToV4(d) == Create(d, {"context_token_map.created_at", "idx_created_at"})

MigrateToV5(d) == Create(d, {"messages", "idx_vctx_created", "idx_peer_role_created"})

MigrateToV6(d) ==
  [d EXCEPT !.peers =
     [r \in DOMAIN @ |-> IF @[r][2] = "bare" THEN <<@[r][1], "peer">> ELSE @[r]]]

\* The rows the unique index covers.
NonEmpty(peers) == {r \in DOMAIN peers : peers[r][2] # "empty"}

\* Rows v7 deletes: every non-empty one but the oldest of its peer.
Duplicates(peers) ==
  {r \in NonEmpty(peers) :
     r # Min({q \in NonEmpty(peers) : peers[q] = peers[r]})}

MigrateToV7(d) ==
  LET kept == DOMAIN d.peers \ Duplicates(d.peers)
  IN  Create([d EXCEPT !.peers = [r \in kept |-> @[r]]], {"uniq_peer_user_id"})

\* v8 hashes every plaintext vtoken it finds in the three tables.
HashVtokens(d) ==
  LET found  == {t \in d.clients \cup d.routing \cup {m.vt : m \in d.messages} :
                   ~is_vtoken_hash(t)}
      new(t) == IF t \in found THEN hash_vtoken(t) ELSE t
  IN  [d EXCEPT !.clients = {new(t) : t \in @},
                !.routing = {new(t) : t \in @},
                !.messages = {[m EXCEPT !.vt = new(@)] : m \in @}]

\* encrypt_token, and whether decrypt_token opens what is stored.
Sealed == "sealed"

Opens(cred) == cred = Sealed

\* A credential the master key does not open is taken for plaintext.
EncryptCredential(d) ==
  [d EXCEPT !.cred = IF @ = "none" \/ Opens(@) THEN @ ELSE Sealed]

\* The conversion runs only when a client is stored and the first one is not
\* hashed yet: with no client at all the credential is left as it is.
MigrateToV8(d) ==
  IF \E t \in d.clients : ~is_vtoken_hash(t)
  THEN EncryptCredential(HashVtokens(d))
  ELSE d

MigrateToV9(d) == AddTo(d, "messages", "idx_messages_lookup")

\* The one migration without a check that the column is missing.
MigrateToV10(d) == AddTo(d, "clients", "clients.persona")

MigrateToV11(d) == AddTo(d, "active_sessions", "active_sessions.a2a_depth")

MigrateToV12(d) == AddTo(d, "clients", "clients.description")

MigrateToV13(d) == AddTo(d, "messages", "messages.ilink_msg_id")

MigrateToV14(d) == AddTo(d, "backend_sessions_v2", "backend_sessions_v2.last_usage_json")

MigrateToV15(d) == AddTo(d, "active_sessions", "active_sessions.expires_at")

Migrated(v, d) ==
  CASE v = 1  -> MigrateToV1(d)
    [] v = 2  -> MigrateToV2(d)
    [] v = 3  -> MigrateToV3(d)
    [] v = 4  -> MigrateToV4(d)
    [] v = 5  -> MigrateToV5(d)
    [] v = 6  -> MigrateToV6(d)
    [] v = 7  -> MigrateToV7(d)
    [] v = 8  -> MigrateToV8(d)
    [] v = 9  -> MigrateToV9(d)
    [] v = 10 -> MigrateToV10(d)
    [] v = 11 -> MigrateToV11(d)
    [] v = 12 -> MigrateToV12(d)
    [] v = 13 -> MigrateToV13(d)
    [] v = 14 -> MigrateToV14(d)
    [] v = 15 -> MigrateToV15(d)

Claimed(v, d) == [d EXCEPT !.versions = @ \cup {v}]

\* The one statement that an existing object makes fail: v10's ALTER TABLE.
Accepts(v, d) == v = 10 => "clients.persona" \notin d.schema

EmptyDatabase ==
  [versions |-> {}, schema |-> {}, clients |-> {}, routing |-> {},
   peers |-> [r \in {} |-> <<>>], cred |-> "none", messages |-> {}, sessions |-> {}]

\* The objects each version adds, as its files under migrations/ list them.
ObjectsOf ==
  [v \in 1..Latest |->
     CASE v = 1  -> {"clients", "routing_state", "context_token_map", "bot_credentials"}
       [] v = 2  -> {"backend_sessions_v2", "active_sessions"}
       [] v = 3  -> {"idx_real_ctx"}
       [] v = 4  -> {"context_token_map.created_at", "idx_created_at"}
       [] v = 5  -> {"messages", "idx_vctx_created", "idx_peer_role_created"}
       [] v = 7  -> {"uniq_peer_user_id"}
       [] v = 9  -> {"idx_messages_lookup"}
       [] v = 10 -> {"clients.persona"}
       [] v = 11 -> {"active_sessions.a2a_depth"}
       [] v = 12 -> {"clients.description"}
       [] v = 13 -> {"messages.ilink_msg_id"}
       [] v = 14 -> {"backend_sessions_v2.last_usage_json"}
       [] v = 15 -> {"active_sessions.expires_at"}
       [] OTHER  -> {}]

\* The schema that a set of versions stands for.
SchemaOf(versions) == UNION {ObjectsOf[v] : v \in versions}
=============================================================================
