---------------------------- MODULE Conversions ----------------------------
(***************************************************************************)
(* internal/inquiry and internal/adsconversion: staff move leads through   *)
(* new/contacted/converted/closed, a conversion is pushed to GA4, and      *)
(* cmd/retry-ads-conversion-sync pushes again what failed.                 *)
(*                                                                         *)
(* A status request reads the lead, writes status and note, pushes, and    *)
(* records the push: four steps on their own, with no transaction and no   *)
(* condition on what was read.  A click by the lead's visitor reads an     *)
(* open lead and then overwrites its ga_client_id, also in two steps.  The *)
(* notifier is configured.                                                 *)
(***************************************************************************)
EXTENDS Naturals

CONSTANTS
    Leads,
    Staff,      \* status requests in flight
    Retriers,   \* running copies of the retry command
    Clicks,     \* contact clicks in flight
    CountCap,   \* where the counts of pushes and turns to converted stop
    NoLead

ASSUME CapAssumption == CountCap \in Nat \ {0}
ASSUME NoLeadAssumption == NoLead \notin Leads

VARIABLES
    lead,   \* the inquiries table
    staff,  \* staff[a]: the entity a status request holds
    retry,  \* retry[r]: the list a retry run read, and where it stands
    click,  \* click[c]: the lead a click found
    ga,     \* ga[l]: how many events of status requests reached GA4, whether any
            \* event did, whether any was answered with 2xx
    won,    \* won[l]: how often l turned converted; whether it last had an id
    crossed \* leads that two requests, clicks or retry runs held at once (history)

vars == <<lead, staff, retry, click, ga, won, crossed>>

Statuses == {"new", "contacted", "converted", "closed"}
\* ga_client_id: NULL, the empty string, or an id.
Clients == {"none", "blank", "known"}
Inquiry == [status : Statuses, client : Clients, synced : BOOLEAN]

\* pc, the lead, the status to write, whether this request converts it, and
\* the ga_client_id the write returned.
Request == [pc : {"idle", "writing", "sending", "recording"}, lead : Leads \cup {NoLead},
            status : Statuses, converts : BOOLEAN, client : Clients]
NoRequest == [pc |-> "idle", lead |-> NoLead, status |-> "new", converts |-> FALSE,
              client |-> "none"]

RetryRun == [todo : SUBSET Leads, sent : Leads \cup {NoLead}]
NoRun == [todo |-> {}, sent |-> NoLead]

Bump(n) == IF n < CountCap THEN n + 1 ELSE n

IsAnyStatus(l) == TRUE
IsOpen(l) == lead[l].status \in {"new", "contacted"}

\* Somebody holds lead l; somebody takes up the leads in S.
Held(l) ==
    \/ \E a \in Staff : staff[a].lead = l
    \/ \E r \in Retriers : l \in retry[r].todo \cup {retry[r].sent}
    \/ \E c \in Clicks : click[c] = l
TakesUp(S) == crossed' = crossed \cup {l \in S : Held(l)}

\* An id GA4 can attribute the event to.
NotNull(c) == c # "none"
HasClient(c) == NotNull(c) /\ c # "blank"

-----------------------------------------------------------------------------
Init == /\ lead \in [Leads -> [status : {"new"}, client : Clients, synced : {FALSE}]]
        /\ staff = [a \in Staff |-> NoRequest]
        /\ retry = [r \in Retriers |-> NoRun]
        /\ click = [c \in Clicks |-> NoLead]
        /\ ga = [l \in Leads |-> [pushes |-> 0, heard |-> FALSE, answered |-> FALSE]]
        /\ won = [l \in Leads |-> [times |-> 0, captured |-> FALSE]]
        /\ crossed = {}

\* The status asked for turns the lead that was read into a converted one.
\* target "keep" is a request that only sets the note.
AsksConverted(l, target) == target = "converted"
AnySave(l, target) == lead[l].status # "converted"
JustConverted(l, target) == target = "converted" /\ lead[l].status # "converted"

\* UpdateInquiryStatus up to the entity's mutator.
ReadLead(a, l, target) ==
    /\ staff[a].pc = "idle"
    /\ staff' = [staff EXCEPT ![a] =
                   [pc |-> "writing", lead |-> l,
                    status |-> IF target = "keep" THEN lead[l].status ELSE target,
                    converts |-> JustConverted(l, target), client |-> "none"]]
    /\ TakesUp({l})
    /\ UNCHANGED <<lead, retry, click, ga, won>>

\* repo.Update writes the status whatever the row holds now, and returns the
\* row; syncConversionToAds skips a lead without ga_client_id.
WriteStatus(a) ==
    LET q == staff[a]
        l == q.lead
    IN  /\ q.pc = "writing"
        /\ lead' = [lead EXCEPT ![l].status = q.status]
        /\ won' = IF q.status = "converted" /\ lead[l].status # "converted"
                  THEN [won EXCEPT ![l] = [times |-> Bump(@.times),
                                           captured |-> HasClient(lead[l].client)]]
                  ELSE won
        /\ staff' = [staff EXCEPT ![a] =
                       IF q.converts /\ HasClient(lead[l].client)
                       THEN [q EXCEPT !.pc = "sending", !.client = lead[l].client]
                       ELSE NoRequest]
        /\ UNCHANGED <<retry, click, ga, crossed>>

\* One SendCloseConvertLead: the event may or may not reach GA4, and the answer
\* may be 2xx or an error (a refusal, a timeout after 5 s, a lost answer);
\* "a 2xx is NOT a guarantee GA4 actually recorded the event".
Push(l, reached, answered, again) ==
    ga' = [ga EXCEPT ![l] = [pushes |-> IF reached /\ ~again THEN Bump(@.pushes) ELSE @.pushes,
                             heard |-> @.heard \/ reached,
                             answered |-> @.answered \/ answered]]

\* What the sender does with the answer.
Believes(answered) == TRUE
Accepted(answered) == answered

SendPush(a, reached, answered) ==
    /\ staff[a].pc = "sending"
    /\ Push(staff[a].lead, reached, answered, FALSE)
    /\ staff' = [staff EXCEPT ![a] = IF Accepted(answered) THEN [@ EXCEPT !.pc = "recording"]
                                     ELSE NoRequest]
    /\ UNCHANGED <<lead, retry, click, won, crossed>>

\* UpdateAdsConversionSync.
RecordPush(a) ==
    /\ staff[a].pc = "recording"
    /\ lead' = [lead EXCEPT ![staff[a].lead].synced = TRUE]
    /\ staff' = [staff EXCEPT ![a] = NoRequest]
    /\ UNCHANGED <<retry, click, ga, won, crossed>>

\* The request ends early: a statement fails or the server stops.
AbandonRequest(a) ==
    /\ staff[a].pc # "idle"
    /\ staff' = [staff EXCEPT ![a] = NoRequest]
    /\ UNCHANGED <<lead, retry, click, ga, won, crossed>>

\* FindPendingAdsConversionSync, and the check for an empty id in the loop.
IsPending(l) ==
    lead[l].status = "converted" /\ ~lead[l].synced /\ NotNull(lead[l].client)

ListPending(r) ==
    LET pending == {l \in Leads : IsPending(l) /\ HasClient(lead[l].client)}
    IN  /\ retry[r] = NoRun
        /\ retry' = [retry EXCEPT ![r].todo = pending]
        /\ TakesUp(pending)
        /\ UNCHANGED <<lead, staff, click, ga, won>>

\* One turn of the retry loop, on the lead as it was listed.
SendAgain(r, l, reached, answered) ==
    /\ retry[r].sent = NoLead
    /\ l \in retry[r].todo
    /\ Push(l, reached, answered, TRUE)
    /\ retry' = [retry EXCEPT ![r] = [todo |-> @.todo,
                                      sent |-> IF Accepted(answered) THEN l ELSE NoLead]]
    /\ UNCHANGED <<lead, staff, click, won, crossed>>

SendPending(r, l, reached, answered) ==
    /\ retry[r].sent = NoLead
    /\ l \in retry[r].todo
    /\ Push(l, reached, answered, TRUE)
    /\ retry' = [retry EXCEPT ![r] = [todo |-> @.todo \ {l},
                                      sent |-> IF Accepted(answered) THEN l ELSE NoLead]]
    /\ UNCHANGED <<lead, staff, click, won, crossed>>

RecordPending(r) ==
    /\ retry[r].sent # NoLead
    /\ lead' = [lead EXCEPT ![retry[r].sent].synced = TRUE]
    /\ retry' = [retry EXCEPT ![r].sent = NoLead]
    /\ UNCHANGED <<staff, click, ga, won, crossed>>

\* The record fails and the loop goes on, or the command is stopped.
SkipRecord(r) ==
    /\ retry[r].sent # NoLead
    /\ retry' = [retry EXCEPT ![r].sent = NoLead]
    /\ UNCHANGED <<lead, staff, click, ga, won, crossed>>

StopRetry(r) ==
    /\ retry[r] # NoRun
    /\ retry' = [retry EXCEPT ![r] = NoRun]
    /\ UNCHANGED <<lead, staff, click, ga, won, crossed>>

\* RecordContactClick finds the visitor's open lead ...
FindOpenLead(c, l) ==
    /\ click[c] = NoLead
    /\ IsOpen(l)
    /\ click' = [click EXCEPT ![c] = l]
    /\ TakesUp({l})
    /\ UNCHANGED <<lead, staff, retry, ga, won>>

\* ... and UpdateClickContext overwrites its attribution, WHERE id.
RefreshLead(c, client) ==
    /\ click[c] # NoLead
    /\ lead' = [lead EXCEPT ![click[c]].client = client]
    /\ click' = [click EXCEPT ![c] = NoLead]
    /\ UNCHANGED <<staff, retry, ga, won, crossed>>

DropClick(c) ==
    /\ click[c] # NoLead
    /\ click' = [click EXCEPT ![c] = NoLead]
    /\ UNCHANGED <<lead, staff, retry, ga, won, crossed>>

-----------------------------------------------------------------------------
Begin ==
    \/ \E a \in Staff, l \in Leads, target \in Statuses \cup {"keep"} : ReadLead(a, l, target)
    \/ \E r \in Retriers : ListPending(r)
    \/ \E c \in Clicks, l \in Leads : FindOpenLead(c, l)

RetryStep(r) ==
    \/ \E l \in Leads, reached, answered \in BOOLEAN : SendPending(r, l, reached, answered)
    \/ RecordPending(r)
    \/ SkipRecord(r)

Proceed ==
    \/ \E a \in Staff :
         \/ WriteStatus(a)
         \/ \E reached, answered \in BOOLEAN : SendPush(a, reached, answered)
         \/ RecordPush(a)
    \/ \E r \in Retriers : RetryStep(r)
    \/ \E c \in Clicks, client \in Clients : RefreshLead(c, client)

Break ==
    \/ \E a \in Staff : AbandonRequest(a)
    \/ \E r \in Retriers : StopRetry(r)
    \/ \E c \in Clicks : DropClick(c)

Next == Begin \/ Proceed \/ Break

Spec == Init /\ [][Next]_vars

\* A retry run that nobody stops goes on: a loop in a process of its own, every
\* call of which returns (the HTTP client gives up after 5 s).
FairSpec == Spec /\ \A r \in Retriers : WF_vars(RetryStep(r))

-----------------------------------------------------------------------------
\* Type correctness; nobody is about to push for a lead without an id to
\* attribute the event to.
TypeOK ==
    /\ lead \in [Leads -> Inquiry]
    /\ staff \in [Staff -> Request]
    /\ \A a \in Staff : staff[a].pc # "idle" => staff[a].lead \in Leads
    /\ \A a \in Staff : staff[a].pc = "sending" => staff[a].client = "known"
    /\ retry \in [Retriers -> RetryRun]
    /\ click \in [Clicks -> Leads \cup {NoLead}]
    /\ ga \in [Leads -> [pushes : 0..CountCap, heard : BOOLEAN, answered : BOOLEAN]]
    /\ won \in [Leads -> [times : 0..CountCap, captured : BOOLEAN]]

\* A lead is marked synced only after Google answered a push of it with 2xx
\* ("never before", MarkAdsConversionSynced), whoever pushed and whatever else
\* ran or stopped.
SyncedWasAnswered == \A l \in Leads : lead[l].synced => ga[l].answered

\* GA4 hears only of leads that have been converted, even from requests and
\* retry runs working on what they read long ago.
OnlyConversionsPushed == \A l \in Leads : ga[l].heard => won[l].times > 0

\* Status requests push each turn to converted at most once: re-saving a
\* converted lead does not push it again, unless requests for it overlap.
PushPerConversion == \A l \in Leads \ crossed : ga[l].pushes <= won[l].times

\* A lead is pushed exactly once, however often it is reopened and converted
\* again (update_inquiry_status.go:24, "exactly once").
PushedOnce == \A l \in Leads : ga[l].pushes <= 1

\* A conversion that had an id to attribute it to and is not synced is found
\* by the retry command (types.go:404-406), wherever requests and runs stopped,
\* unless something else held the lead meanwhile.
FailedPushRetriable ==
    \A l \in Leads \ crossed :
        lead[l].status = "converted" /\ won[l].captured /\ ~lead[l].synced => IsPending(l)

\* The retry command ends, even if Google refuses every push.
RetryEnds == \A r \in Retriers : retry[r] # NoRun ~> retry[r] = NoRun
=============================================================================
