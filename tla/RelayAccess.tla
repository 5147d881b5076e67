----------------------------- MODULE RelayAccess -----------------------------
(***************************************************************************)
(* Who may open a connection to a box through the relay: a visitor with    *)
(* the relay's key derives a token from it; one without asks the relay,    *)
(* which asks PVE whether the visitor's API token shows it the box, for a  *)
(* credential of five minutes.  A client keeps what it has for as long as  *)
(* it lives and opens a new connection with it whenever one breaks.        *)
(*                                                                         *)
(* Time passes in parts of the five minutes, each longer than the timeout  *)
(* of the request to PVE; the relay's clock may be set.                    *)
(***************************************************************************)
EXTENDS Integers, FiniteSets

CONSTANTS
    Visitors,
    VisitorKinds,  \* "pve", "key", "check"
    Lifetime,      \* how long a credential is good for
    IssueSlots,    \* requests to PVE at once
    MaxTime,
    MaxSettings    \* changes of the clock

ASSUME LifetimeAssumption == Lifetime \in Nat \ {0}
ASSUME IssueSlotsAssumption == IssueSlots \in Nat \ {0}
ASSUME VisitorsAssumption == IsFiniteSet(Visitors)
ASSUME BoundsAssumption == MaxTime \in Nat /\ MaxSettings \in Nat
ASSUME VisitorKindsAssumption == VisitorKinds \subseteq {"pve", "key", "check"}

VARIABLES
    time,       \* passed since the start
    clockError, \* of the relay's clock
    clockSets,   \* changes of the clock so far
    servedKey,  \* the key the relay read when it started
    heldKey,    \* the key in the users' key files
    seesBox,    \* PVE shows the box to the visitors' API token
    blindFor,   \* since when it does not
    freeSlots,
    visit

siteAccess == <<clockError, clockSets, servedKey, heldKey, seesBox>>
accessVars == <<time, siteAccess, blindFor, freeSlots, visit>>

Forever == MaxTime + MaxSettings + Lifetime + 1
Blank == [key |-> 0, expires |-> Forever, issued |-> 0]
NewVisit(kind) ==
    [kind |-> kind, at |-> "new", token |-> Blank, pending |-> 0, refusedBy |-> 0, refusedAt |-> 0, late |-> 0]

AccessInit ==
    /\ time = 0 /\ clockError = 0 /\ clockSets = 0
    /\ servedKey = 1 /\ heldKey = 1
    /\ seesBox = TRUE /\ blindFor = 0
    /\ freeSlots = IssueSlots
    /\ visit \in [Visitors -> {NewVisit(k) : k \in VisitorKinds}]

Clock == time + clockError
Visits(c, becomes) == visit' = [visit EXCEPT ![c] = becomes]
OnlyVisit(c, becomes) ==
    Visits(c, becomes) /\ UNCHANGED <<time, siteAccess, blindFor, freeSlots>>
GivesSlotBack(c, becomes) ==
    /\ freeSlots' = freeSlots + 1
    /\ Visits(c, becomes)
    /\ UNCHANGED <<time, siteAccess, blindFor>>

AtIssuer(c) == visit[c].at \in {"asked", "shown"}

(***************************************************************************)
(* The request for a credential.                                           *)
(***************************************************************************)
\* Values that connect_agent misses, a relay that is not reached, a box that is
\* not enrolled, no API token.
RequestRefused(c) ==
    /\ visit[c].at = "new" /\ visit[c].kind = "pve"
    /\ OnlyVisit(c, [visit[c] EXCEPT !.at = "failed"])

RequestsAccess(c) ==
    /\ visit[c].at = "new" /\ visit[c].kind = "pve"
    /\ IF freeSlots = 0 THEN OnlyVisit(c, [visit[c] EXCEPT !.at = "failed"])
       ELSE /\ freeSlots' = freeSlots - 1
            /\ Visits(c, [visit[c] EXCEPT !.at = "asked"])
            /\ UNCHANGED <<time, siteAccess, blindFor>>

PveShowsBox(c) ==
    /\ visit[c].at = "asked" /\ seesBox
    /\ OnlyVisit(c, [visit[c] EXCEPT !.at = "shown"])

\* PVE refuses the API token, does not list the box, fails or takes 10 seconds;
\* or the visitor, who waits for 15, is gone and the handler is dropped.
IssuerFails(c) ==
    /\ AtIssuer(c)
    /\ GivesSlotBack(c, [visit[c] EXCEPT !.at = "failed", !.pending = 0])

IssuesCredential(c) ==
    /\ visit[c].at = "shown"
    /\ GivesSlotBack(c, [visit[c] EXCEPT !.at = "holds", !.pending = 0,
           !.token = [key |-> servedKey, expires |-> Clock + Lifetime, issued |-> time]])

(***************************************************************************)
(* A token of the relay's own key has no end.                              *)
(***************************************************************************)
ReadsKey(c) ==
    /\ visit[c].at = "new" /\ visit[c].kind \in {"key", "check"}
    /\ \/ OnlyVisit(c, [visit[c] EXCEPT !.at = "holds", !.token = [Blank EXCEPT !.key = heldKey]])
       \/ OnlyVisit(c, [visit[c] EXCEPT !.at = "failed"])

\* Mutant: a credential is good for as long as its expiry is to come.
AuthorisedUntilExpiry(c) ==
    visit[c].token.key = servedKey /\ (visit[c].kind = "pve" => Clock <= visit[c].token.expires)

\* What the relay accepts: a signature of its key, and of a credential an expiry
\* that is to come and no further off than one it could have given by now.
Authorised(c) ==
    LET token == visit[c].token
    IN  /\ token.key = servedKey
        /\ visit[c].kind = "pve" => Clock < token.expires /\ token.expires <= Clock + Lifetime

Enters(c) ==
    /\ visit[c].at = "holds" /\ visit[c].kind # "check"
    /\ IF Authorised(c) THEN OnlyVisit(c, [visit[c] EXCEPT !.at = "open", !.late = blindFor])
       ELSE OnlyVisit(c, [visit[c] EXCEPT !.at = "refused", !.refusedBy = servedKey, !.refusedAt = time])

EntryFails(c) ==
    /\ visit[c].at = "holds"
    /\ OnlyVisit(c, [visit[c] EXCEPT !.at = "failed"])

\* "pbox relay check" with a key file.
ChecksKey(c) ==
    /\ visit[c].at = "holds" /\ visit[c].kind = "check"
    /\ IF Authorised(c) THEN OnlyVisit(c, [visit[c] EXCEPT !.at = "confirmed", !.refusedBy = servedKey])
       ELSE OnlyVisit(c, [visit[c] EXCEPT !.at = "refused", !.refusedBy = servedKey])

\* The next call of the client opens another connection with the token it has;
\* an open one outlives its credential.
EntryBreaks(c) ==
    /\ visit[c].at = "open"
    /\ OnlyVisit(c, [visit[c] EXCEPT !.at = "holds", !.late = 0])

VisitorStep(c) ==
    \/ RequestRefused(c) \/ RequestsAccess(c) \/ PveShowsBox(c) \/ IssuerFails(c) \/ IssuesCredential(c)
    \/ ReadsKey(c) \/ Enters(c) \/ EntryFails(c) \/ ChecksKey(c) \/ EntryBreaks(c)

(***************************************************************************)
(* What happens around them.                                               *)
(***************************************************************************)
\* No request to PVE lasts for two parts.
PartPasses ==
    /\ time < MaxTime
    /\ \A c \in Visitors : AtIssuer(c) => visit[c].pending = 0
    /\ time' = time + 1
    /\ blindFor' = IF seesBox THEN 0 ELSE blindFor + 1
    /\ visit' = [c \in Visitors |-> [visit[c] EXCEPT !.pending = IF AtIssuer(c) THEN 1 ELSE 0]]
    /\ UNCHANGED <<siteAccess, freeSlots>>

ClockSet ==
    /\ clockSets < MaxSettings
    /\ clockSets' = clockSets + 1
    /\ \E step \in {-1, 1} : clockError' = clockError + step
    /\ UNCHANGED <<time, servedKey, heldKey, seesBox, blindFor, freeSlots, visit>>

VisibilityChanges ==
    /\ seesBox' = ~seesBox
    /\ blindFor' = 0
    /\ UNCHANGED <<time, clockError, clockSets, servedKey, heldKey, freeSlots, visit>>

KeyFileReplaced ==
    /\ heldKey' = 2
    /\ UNCHANGED <<time, clockError, clockSets, servedKey, seesBox, blindFor, freeSlots, visit>>

\* The relay is restarted, and may have been given the other key.
RelayRestarted ==
    /\ servedKey' \in {servedKey, 2}
    /\ freeSlots' = IssueSlots
    /\ visit' = [c \in Visitors |->
           IF AtIssuer(c) THEN [visit[c] EXCEPT !.at = "failed", !.pending = 0]
           ELSE IF visit[c].at = "open" THEN [visit[c] EXCEPT !.at = "holds", !.late = 0]
           ELSE visit[c]]
    /\ UNCHANGED <<time, clockError, clockSets, heldKey, seesBox, blindFor>>

AccessNext ==
    \/ \E c \in Visitors : VisitorStep(c)
    \/ PartPasses \/ ClockSet \/ VisibilityChanges \/ KeyFileReplaced \/ RelayRestarted

AccessSpec == AccessInit /\ [][AccessNext]_accessVars

AccessTypeOK ==
    /\ time \in 0..MaxTime /\ clockError \in -MaxSettings..MaxSettings
    /\ clockSets \in 0..MaxSettings
    /\ {servedKey, heldKey} \subseteq 1..2 /\ seesBox \in BOOLEAN /\ blindFor \in 0..MaxTime
    /\ freeSlots \in 0..IssueSlots
    /\ \A c \in Visitors : visit[c].pending \in 0..1 /\ visit[c].token.expires \in Int

\* A request to PVE holds one slot until its handler ends, however it ends.
IssuersCounted == freeSlots + Cardinality({c \in Visitors : AtIssuer(c)}) = IssueSlots

\* A connection is opened on PVE's word for no longer than a credential lasts: as
\* long as the clock is left alone, what PVE no longer shows cannot be entered.
EntryFollowsVisibility ==
    \A c \in Visitors :
        (visit[c].at = "open" /\ visit[c].kind = "pve") => visit[c].late <= Lifetime + clockSets

\* Who is refused has an old credential or another key; a clock that was set may
\* also be the reason, as may a restart with another key.
RefusedForReason ==
    \A c \in Visitors :
        visit[c].at = "refused" =>
            \/ visit[c].token.key # visit[c].refusedBy
            \/ /\ visit[c].kind = "pve"
               /\ clockSets > 0 \/ visit[c].refusedAt - visit[c].token.issued >= Lifetime

\* A check that succeeds means that the relay takes the tokens of that key.
CheckMeansKey ==
    \A c, d \in Visitors :
        (visit[c].at = "confirmed" /\ visit[d].at = "refused" /\ visit[d].kind = "key") =>
            (visit[c].token.key = visit[d].token.key => visit[c].refusedBy # visit[d].refusedBy)
=============================================================================
