-------------------------- MODULE MCStoreLifecycle --------------------------
\* Two processes on one database.  It is missing or empty, or a release of
\* version 5 left it with a conversation stored with and without the prefix,
\* or a release of version 7 with a client or none, a token or none.  The
\* message in it is of a client that was removed since.
EXTENDS StoreLifecycle

CONSTANTS p1, p2, v1, v2, u1, s1

Left(n, cs, cred, peers) ==
  [EmptyDatabase EXCEPT
     !.versions = 1..n,
     !.schema   = SchemaOf(1..n),
     !.clients  = {<<v, "plain">> : v \in cs},
     !.routing  = {<<v, "plain">> : v \in cs},
     !.cred     = cred,
     !.peers    = peers,
     !.messages = {[id |-> 1, vt |-> <<v2, "plain">>, at |-> 0]},
     !.sessions = {[key |-> s1, at |-> 0]}]

\* Two rows of the user, each with or without the prefix, and one whose
\* sender was not known.
Conversations ==
  {[r \in {1, 2, 3} |-> <<u1, IF r = 3 THEN "empty" ELSE form[r]>>] :
     form \in [{1, 2} -> {"bare", "peer"}]}

const_Databases ==
  {EmptyDatabase}
    \cup {Left(5, {v1}, "plain", p) : p \in Conversations}
    \cup {Left(7, cs, c, [r \in {1, 3} |-> <<u1, IF r = 1 THEN "peer" ELSE "empty">>]) :
            cs \in {{}, {v1}}, c \in {"none", "plain"}}
=============================================================================
