---------------------------- MODULE Publications ----------------------------
(***************************************************************************)
(* Posts on social platforms: the coordinator of guarded_publishing.py and *)
(* the side-effect ledger of publication_ledger.py.  Threads may publish   *)
(* the same package, the platform may lose answers or report a failure     *)
(* although the post exists, and the process may stop between any two      *)
(* steps: the ledger survives, the threads do not.                         *)
(*                                                                         *)
(* A package is immutable and its id stands for its content, product and   *)
(* account; the checks on them either pass for every call or for none.     *)
(***************************************************************************)
EXTENDS Naturals

CONSTANTS Package,    \* packages that pass the checks
          Poster,     \* threads that publish
          MaxPosts    \* bound on the publish calls for a package

ASSUME PublicationAssumption == MaxPosts \in Nat \ {0}

VARIABLES
    publication,  \* state of a package's row, or "none"
    posting,      \* where a thread is in publish
    parcel,       \* the package it publishes, in a set
    posts,        \* publish calls made to the platform for a package
    visible       \* posts the platform has created for it

publicationVars == <<publication, posting, parcel, posts, visible>>

Answers == {"published", "ambiguous", "failed"}
Closed  == {"PUBLISHED", "AMBIGUOUS", "FAILED"}

PublicationsTypeOK ==
    /\ publication \in [Package -> {"none", "PREPARED", "SUBMITTING"} \union Closed]
    /\ posting \in [Poster -> {"idle", "submit", "post"} \union Answers]
    /\ parcel \in [Poster -> SUBSET Package]
    /\ \A t \in Poster : posting[t] = "idle" <=> parcel[t] = {}
    /\ \A t \in Poster : \A p, q \in parcel[t] : p = q
    /\ posts \in [Package -> 0..MaxPosts]
    /\ visible \in [Package -> 0..MaxPosts]

PublicationsInit ==
    /\ publication = [p \in Package |-> "none"]
    /\ posting = [t \in Poster |-> "idle"]
    /\ parcel = [t \in Poster |-> {}]
    /\ posts = [p \in Package |-> 0]
    /\ visible = [p \in Package |-> 0]

\* publish returns or raises.
Returned(t) ==
    /\ posting' = [posting EXCEPT ![t] = "idle"]
    /\ parcel' = [parcel EXCEPT ![t] = {}]

\* prepare goes on only for a package without side-effect history.
Preparable(p) == publication[p] \in {"none", "PREPARED"}

Prepare(t, p) ==
    /\ posting[t] = "idle"
    /\ Preparable(p)
    /\ publication' = [publication EXCEPT ![p] = "PREPARED"]
    /\ posting' = [posting EXCEPT ![t] = "submit"]
    /\ parcel' = [parcel EXCEPT ![t] = {p}]
    /\ UNCHANGED <<posts, visible>>

\* A ledger that takes a second thread for the first one's repetition.
EnterableMutant(p) == publication[p] \in {"PREPARED", "SUBMITTING"}

\* "publication may enter SUBMITTING only from PREPARED"
Enterable(p) == publication[p] = "PREPARED"

Submit(t, p) ==
    /\ posting[t] = "submit"
    /\ \/ /\ Enterable(p)
          /\ publication' = [publication EXCEPT ![p] = "SUBMITTING"]
          /\ posting' = [posting EXCEPT ![t] = "post"]
          /\ UNCHANGED parcel
       \/ ~Enterable(p) /\ Returned(t) /\ UNCHANGED publication
    /\ UNCHANGED <<posts, visible>>

\* The platform creates the post, whatever reaches the coordinator, or does
\* not and reports a failure or nothing.
Post(t, p) ==
    /\ posting[t] = "post"
    /\ posts[p] < MaxPosts
    /\ posts' = [posts EXCEPT ![p] = @ + 1]
    /\ \/ /\ visible' = [visible EXCEPT ![p] = @ + 1]
          /\ \E answer \in Answers : posting' = [posting EXCEPT ![t] = answer]
       \/ /\ UNCHANGED visible
          /\ \E answer \in Answers \ {"published"} : posting' = [posting EXCEPT ![t] = answer]
    /\ UNCHANGED <<publication, parcel>>

\* A coordinator that takes an exception for a success.
RecordedMutant(answer) == IF answer = "failed" THEN "FAILED" ELSE "PUBLISHED"

\* The state publish records for an answer.
Recorded(answer) ==
    CASE answer = "published" -> "PUBLISHED"
      [] answer = "ambiguous" -> "AMBIGUOUS"
      [] answer = "failed"    -> "FAILED"

\* published, ambiguous and failed of the ledger, from SUBMITTING only.  An
\* identifier or error code with outer blanks is refused and the row stays.
Record(t, p) ==
    /\ posting[t] \in Answers
    /\ \/ /\ publication[p] = "SUBMITTING"
          /\ publication' = [publication EXCEPT ![p] = Recorded(posting[t])]
       \/ /\ publication[p] # "SUBMITTING" \/ posting[t] # "ambiguous"
          /\ UNCHANGED publication
    /\ Returned(t)
    /\ UNCHANGED <<posts, visible>>

\* The process stops.
PosterStops ==
    /\ posting' = [t \in Poster |-> "idle"]
    /\ parcel' = [t \in Poster |-> {}]
    /\ UNCHANGED <<publication, posts, visible>>

PublicationsNext ==
    \/ \E t \in Poster, p \in Package : Prepare(t, p)
    \/ \E t \in Poster : \E p \in parcel[t] : Submit(t, p) \/ Post(t, p) \/ Record(t, p)
    \/ PosterStops

PublicationsSpec == PublicationsInit /\ [][PublicationsNext]_publicationVars

-----------------------------------------------------------------------------
(* Properties *)

\* "Perform at most one external publish attempt for one immutable package ID":
\* through races, lost answers and restarts (publish).
OnePublishAttempt == \A p \in Package : posts[p] <= 1

\* The ledger tells the truth about the platform: a post exists only for a
\* package whose submission was recorded before the call, and a package is
\* PUBLISHED only if its post exists.
LedgerKnowsPosts ==
    \A p \in Package : /\ posts[p] > 0 => publication[p] \in {"SUBMITTING"} \union Closed
                       /\ publication[p] = "PUBLISHED" => visible[p] > 0

\* No late or repeated call reopens or reclassifies a closed package.
PublicationIsFinal ==
    [][\A p \in Package : publication[p] \in Closed => publication'[p] = publication[p]]_publicationVars
=============================================================================
