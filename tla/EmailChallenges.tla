-------------------------- MODULE EmailChallenges --------------------------
(***************************************************************************)
(* The challenges that prove an e-mail address (services/email_auth.py):   *)
(* issued by concurrent threads at a limited rate, short-lived and good    *)
(* for one sign-in.  The model follows one address.                        *)
(***************************************************************************)
EXTENDS Naturals, FiniteSets

CONSTANTS Challenge,   \* challenge ids
          Issuer,      \* threads that issue
          Verifier,    \* threads that verify
          MaxIssues    \* max_issues_per_window

ASSUME ChallengeAssumption == MaxIssues \in Nat \ {0} /\ IsFiniteSet(Issuer)

VARIABLES
    issued,     \* identity_email_challenges
    recent,     \* those whose issued_at lies in the rate window
    expired,    \* those whose expires_at has passed
    consumed,   \* those with a consumed_at
    counted,    \* threads that saw the count below the limit
    proven      \* <<thread, challenge>> that were answered with an identity

challengeVars == <<issued, recent, expired, consumed, counted, proven>>

ChallengesTypeOK ==
    /\ issued \subseteq Challenge
    /\ recent \subseteq issued /\ expired \subseteq issued /\ consumed \subseteq issued
    /\ counted \subseteq Issuer
    /\ proven \subseteq Verifier \X consumed

ChallengesInit ==
    /\ issued = {} /\ recent = {} /\ expired = {} /\ consumed = {}
    /\ counted = {} /\ proven = {}

\* A limit that lets one more through.
BelowLimitMutant == Cardinality(recent) <= MaxIssues

BelowLimit == Cardinality(recent) < MaxIssues

\* issue: the count is one transaction ...
IssueCount(p) ==
    /\ p \notin counted
    /\ BelowLimit
    /\ counted' = counted \union {p}
    /\ UNCHANGED <<issued, recent, expired, consumed, proven>>

\* A new row that is taken for an old one.
PutMutant(c) == recent' = recent \union {c} /\ UNCHANGED issued

Put(c) == issued' = issued \union {c} /\ recent' = recent \union {c}

\* ... and the insert another.
IssuePut(p, c) ==
    /\ p \in counted
    /\ c \notin issued
    /\ Put(c)
    /\ counted' = counted \ {p}
    /\ UNCHANGED <<expired, consumed, proven>>

\* A challenge that is good until it expires.
OpenMutant(c) == c \notin expired

Open(c) == c \notin consumed /\ c \notin expired

\* consume is one transaction, the update's own condition included.
Consume(v, c) ==
    /\ c \in issued
    /\ Open(c)
    /\ consumed' = consumed \union {c}
    /\ proven' = proven \union {<<v, c>>}
    /\ UNCHANGED <<issued, recent, expired, counted>>

Expire(c) ==
    /\ c \in issued \ expired
    /\ expired' = expired \union {c}
    /\ UNCHANGED <<issued, recent, consumed, counted, proven>>

LeaveWindow(c) ==
    /\ c \in recent
    /\ recent' = recent \ {c}
    /\ UNCHANGED <<issued, expired, consumed, counted, proven>>

ChallengesNext ==
    \/ \E p \in Issuer : IssueCount(p) \/ \E c \in Challenge : IssuePut(p, c)
    \/ \E v \in Verifier, c \in Challenge : Consume(v, c)
    \/ \E c \in Challenge : Expire(c) \/ LeaveWindow(c)

-----------------------------------------------------------------------------
(* Properties *)

\* The count and the insert of a challenge are not one step, but no more than
\* one challenge for every other thread gets past the limit (issue).
IssueRateBounded == Cardinality(recent) <= MaxIssues + Cardinality(Issuer) - 1

\* However many threads present one secret, a challenge signs in one of them
\* (consume).
OneSignInPerChallenge ==
    \A p, q \in proven : p[2] = q[2] => p = q

\* Challenges are issued at a bounded rate and used once, in well-typed tables.
ChallengesInv == ChallengesTypeOK /\ IssueRateBounded /\ OneSignInPerChallenge
=============================================================================
