------------------------------ MODULE MCStores ------------------------------
(***************************************************************************)
(* The stores that share no state with one another, side by side: a        *)
(* behaviour of this specification is a behaviour of one of them, the      *)
(* others staying as they were created.                                    *)
(***************************************************************************)
EXTENDS LiveState, EvidenceStore, Subscriptions, DigitalOrders, Accounts, EmailChallenges,
        Publications, TLC

CONSTANTS s1, g1, g2

\* Two grants for consecutive, overlapping periods of the subscription.
MCGrantOf     == [g \in Grant |-> s1]
MCPeriodStart == g1 :> 0 @@ g2 :> 2
MCPeriodEnd   == g1 :> 3 @@ g2 :> 4

VARIABLE store

Init ==
    /\ store \in {"live", "evidence", "subscriptions", "orders", "accounts", "challenges",
                 "publications"}
    /\ LiveInit /\ EvidenceInit /\ SubscriptionInit
    /\ OrdersInit /\ AccountsInit /\ ChallengesInit /\ PublicationsInit

\* One store moves, the others do not.
Next ==
    /\ UNCHANGED store
    /\ \/ store = "live" /\ LiveNext
          /\ UNCHANGED <<evidenceVars, subscriptionVars, orderVars, accountVars, challengeVars, publicationVars>>
       \/ store = "evidence" /\ EvidenceNext
          /\ UNCHANGED <<liveVars, subscriptionVars, orderVars, accountVars, challengeVars, publicationVars>>
       \/ store = "subscriptions" /\ SubscriptionNext
          /\ UNCHANGED <<liveVars, evidenceVars, orderVars, accountVars, challengeVars, publicationVars>>
       \/ store = "orders" /\ OrdersNext
          /\ UNCHANGED <<liveVars, evidenceVars, subscriptionVars, accountVars, challengeVars, publicationVars>>
       \/ store = "accounts" /\ AccountsNext
          /\ UNCHANGED <<liveVars, evidenceVars, subscriptionVars, orderVars, challengeVars, publicationVars>>
       \/ store = "challenges" /\ ChallengesNext
          /\ UNCHANGED <<liveVars, evidenceVars, subscriptionVars, orderVars, accountVars, publicationVars>>
       \/ store = "publications" /\ PublicationsNext
          /\ UNCHANGED <<liveVars, evidenceVars, subscriptionVars, orderVars, accountVars, challengeVars>>

vars == <<store, liveVars, evidenceVars, subscriptionVars, orderVars, accountVars, challengeVars,
          publicationVars>>

Spec == Init /\ [][Next]_vars

\* The request threads of a web runtime are interchangeable, and so are sessions.
Symmetry == Permutations(Handler) \union Permutations(Session)
=============================================================================
