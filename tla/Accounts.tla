------------------------------ MODULE Accounts ------------------------------
(***************************************************************************)
(* Accounts, the sign-in identities linked to them and their sessions, as  *)
(* the web runtime keeps them: CentralIdentityService over                 *)
(* services/sqlite_central_identity.py, browser sessions, unlinking and    *)
(* the closing of a tenant.                                                *)
(*                                                                         *)
(* The store opens its transaction at the first write: what it read before *)
(* may be stale when it writes.  A user, its tenant and its membership are *)
(* created and disabled together and are one account here; nothing enables *)
(* an account again, so that of two reads of one account in a row the      *)
(* later one decides.                                                      *)
(***************************************************************************)
EXTENDS Naturals, FiniteSets

CONSTANTS Identity,    \* verified external identities
          Account,     \* user ids, each with its own tenant
          Session,     \* session ids
          Handler      \* request threads

VARIABLES
    link,        \* identity_accounts: the account of an identity, in a set
    created_as,  \* accounts that exist
    enabled,     \* accounts that are enabled
    entitled,    \* accounts with a row in identity_entitlements
    session,     \* identity_sessions: the account of a session, in a set
    ended,       \* sessions that were revoked
    handling,    \* where a thread is
    holds        \* what it read: <<identity, account, source account>>, in a set

accountTables == <<link, created_as, enabled, entitled>>
sessionTables == <<session, ended>>
handlers      == <<handling, holds>>
accountVars   == <<accountTables, sessionTables, handlers>>

Step == {"idle", "create", "resolve", "insert", "add", "transfer", "move", "unlink"}

AccountsTypeOK ==
    /\ \A i \in Identity : link[i] \subseteq created_as /\ Cardinality(link[i]) <= 1
    /\ created_as \subseteq Account
    /\ enabled \subseteq created_as /\ entitled \subseteq created_as
    /\ \A s \in Session : session[s] \subseteq created_as /\ Cardinality(session[s]) <= 1
    /\ ended \subseteq {s \in Session : session[s] # {}}
    /\ handling \in [Handler -> Step]
    /\ \A h \in Handler : Cardinality(holds[h]) <= 1

AccountsInit ==
    /\ link = [i \in Identity |-> {}]
    /\ created_as = {} /\ enabled = {} /\ entitled = {}
    /\ session = [s \in Session |-> {}]
    /\ ended = {}
    /\ handling = [h \in Handler |-> "idle"]
    /\ holds = [h \in Handler |-> {}]

\* The account of a session that verify accepts.
Principal(s) == session[s] \intersect (IF s \in ended THEN {} ELSE enabled)

LinksOf(a) == {i \in Identity : a \in link[i]}

Enter(h, step, held) ==
    /\ handling' = [handling EXCEPT ![h] = step]
    /\ holds' = [holds EXCEPT ![h] = held]

Return(h) == Enter(h, "idle", {})

-----------------------------------------------------------------------------
(* sign_in and the browser session *)

SignIn(h, i) ==
    /\ handling[h] = "idle"
    /\ \/ link[i] = {} /\ Enter(h, "create", {<<i>>})
       \/ \E a \in link[i] \intersect enabled : Enter(h, "resolve", {<<i, a>>})
    /\ UNCHANGED <<accountTables, sessionTables>>

\* A store that gives an identity another account when it has one already.
UnlinkedMutant(i) == TRUE

\* The identity has no link; the table's key makes this part of the insert.
Unlinked(i) == link[i] = {}

\* create_account_with_link
CreateAccount(h, i, a) ==
    /\ handling[h] = "create"
    /\ a \notin created_as
    /\ \/ /\ Unlinked(i)
          /\ link' = [link EXCEPT ![i] = @ \union {a}]
          /\ created_as' = created_as \union {a}
          /\ enabled' = enabled \union {a}
          /\ Enter(h, "resolve", {<<i, a>>})
       \/ ~Unlinked(i) /\ Return(h) /\ UNCHANGED <<link, created_as, enabled>>
    /\ UNCHANGED <<entitled, sessionTables>>

\* issue: the principal is resolved, and the session inserted later.
ResolvePrincipal(h, a, held) ==
    /\ handling[h] = "resolve"
    /\ \/ a \in enabled /\ Enter(h, "insert", held)
       \/ a \notin enabled /\ Return(h)
    /\ UNCHANGED <<accountTables, sessionTables>>

InsertSession(h, a, s) ==
    /\ handling[h] = "insert"
    /\ session[s] = {}
    /\ session' = [session EXCEPT ![s] = {a}]
    /\ Return(h)
    /\ UNCHANGED <<accountTables, ended>>

\* revoke, and revoke_one of the caller's own sessions.
EndSession(s) ==
    /\ session[s] # {} /\ s \notin ended
    /\ ended' = ended \union {s}
    /\ UNCHANGED <<accountTables, session, handlers>>

SessionsOf(a) == {s \in Session : a \in session[s]}

RevokeAll(a) ==
    /\ a \in enabled
    /\ ended' = ended \union SessionsOf(a)
    /\ UNCHANGED <<accountTables, session, handlers>>

-----------------------------------------------------------------------------
(* link_identity *)

LinkIdentity(h, s, i) ==
    /\ handling[h] = "idle"
    /\ \E a \in Principal(s) :
          /\ a \notin link[i]
          /\ Enter(h, IF link[i] = {} THEN "add" ELSE "transfer", {<<i, a>>})
    /\ UNCHANGED <<accountTables, sessionTables>>

\* add_link inserts for the account it read.
AddLink(h, i, a) ==
    /\ handling[h] = "add"
    /\ \/ Unlinked(i) /\ link' = [link EXCEPT ![i] = {a}]
       \/ ~Unlinked(i) /\ UNCHANGED link
    /\ Return(h)
    /\ UNCHANGED <<created_as, enabled, entitled, sessionTables>>

\* A bootstrap account: this link only, and nothing bought.
Isolated(source) ==
    source \in enabled /\ source \notin entitled /\ Cardinality(LinksOf(source)) = 1

\* transfer_isolated_link reads everything it decides on ...
TransferCheck(h, i, a) ==
    /\ handling[h] = "transfer"
    /\ \/ \E source \in link[i] \ {a} :
             /\ a \in enabled /\ Isolated(source)
             /\ Enter(h, "move", {<<i, a, source>>})
       \/ (link[i] \ {a} = {} \/ a \notin enabled \/ \E o \in link[i] : ~Isolated(o)) /\ Return(h)
    /\ UNCHANGED <<accountTables, sessionTables>>

\* ... and writes if the identity is still where it was.
TransferMove(h, i, a, source) ==
    /\ handling[h] = "move"
    /\ \/ /\ link[i] = {source}
          /\ link' = [link EXCEPT ![i] = {a}]
          /\ enabled' = enabled \ {source}
          /\ ended' = ended \union SessionsOf(source)
       \/ link[i] # {source} /\ UNCHANGED <<link, enabled, ended>>
    /\ Return(h)
    /\ UNCHANGED <<created_as, entitled, session>>

-----------------------------------------------------------------------------
(* Unlinking, entitlements and the end of a tenant *)

\* unlink_identity, re-authenticated through another identity of the account.
UnlinkCheck(h, s, i) ==
    /\ handling[h] = "idle"
    /\ \E a \in Principal(s) :
          /\ a \in link[i] /\ LinksOf(a) # {i}
          /\ Enter(h, "unlink", {<<i, a>>})
    /\ UNCHANGED <<accountTables, sessionTables>>

\* An unlink that relies on the links counted before its transaction.
AlternateMutant(i, a) == TRUE

Alternate(i, a) == LinksOf(a) \ {i} # {}

\* remove_link_if_alternate_exists
UnlinkRemove(h, i, a) ==
    /\ handling[h] = "unlink"
    /\ \/ /\ a \in link[i] /\ Alternate(i, a)
          /\ link' = [link EXCEPT ![i] = {}]
       \/ ~(a \in link[i] /\ Alternate(i, a)) /\ UNCHANGED link
    /\ Return(h)
    /\ UNCHANGED <<created_as, enabled, entitled, sessionTables>>

SetEntitlement(a) ==
    /\ a \in created_as \ entitled
    /\ entitled' = entitled \union {a}
    /\ UNCHANGED <<link, created_as, enabled, sessionTables, handlers>>

\* delete_tenant: the only member is the owner, whose account ends with it.
DeleteTenant(a) ==
    /\ a \in enabled
    /\ enabled' = enabled \ {a}
    /\ ended' = ended \union SessionsOf(a)
    /\ UNCHANGED <<link, created_as, entitled, session, handlers>>

AccountsNext ==
    \/ \E h \in Handler, i \in Identity : SignIn(h, i)
    \/ \E h \in Handler, s \in Session, i \in Identity : LinkIdentity(h, s, i) \/ UnlinkCheck(h, s, i)
    \/ \E h \in Handler : \E held \in holds[h] :
          \/ \E a \in Account : CreateAccount(h, held[1], a)
          \/ ResolvePrincipal(h, held[2], holds[h])
          \/ \E s \in Session : InsertSession(h, held[2], s)
          \/ AddLink(h, held[1], held[2])
          \/ TransferCheck(h, held[1], held[2])
          \/ TransferMove(h, held[1], held[2], held[3])
          \/ UnlinkRemove(h, held[1], held[2])
    \/ \E s \in Session : EndSession(s)
    \/ \E a \in Account : RevokeAll(a) \/ SetEntitlement(a) \/ DeleteTenant(a)

-----------------------------------------------------------------------------
(* Properties *)

\* An enabled account keeps a way to sign in, whatever links, transfers and
\* unlinks run side by side ("removing the final usable sign-in method fails
\* closed", central_identity.py).
EnabledHasSignIn == \A a \in enabled : LinksOf(a) # {}

\* Accounts, links and sessions are well typed, and nobody is locked out.
AccountsInv == AccountsTypeOK /\ EnabledHasSignIn
=============================================================================
