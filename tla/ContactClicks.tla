--------------------------- MODULE ContactClicks ---------------------------
(***************************************************************************)
(* internal/inquiry: clicks on Zalo/Messenger/Hotline become leads.        *)
(*                                                                         *)
(* RecordContactClick looks for the newest open lead of the visitor on the *)
(* channel, then either folds the click into that lead's interest history  *)
(* or creates a lead: two statements, with nothing held between them.      *)
(* (Conversions models what staff do with leads; the names of the two      *)
(* modules differ so that both can be extended together.)                  *)
(***************************************************************************)
EXTENDS Naturals, Sequences

CONSTANTS
    Visitors,           \* a session on a channel
    ClickIds,           \* clicks, each made once
    LeadIds,            \* lead keys, in the order of created_at
    NoVisitor,          \* a click without a session
    MaxInterestHistory  \* touches a lead keeps

ASSUME LeadIdAssumption == LeadIds \subseteq Nat \ {0}
ASSUME HistoryAssumption == MaxInterestHistory \in Nat \ {0}
ASSUME VisitorAssumption == NoVisitor \notin Visitors

VARIABLES
    inquiry,    \* inquiry[l]: the inquiries row of lead l, once created
    held,       \* held[c]: what the request of click c holds
    stored,     \* stored[l]: the clicks answered with lead l, in that order
    overlapped  \* visitors whose clicks overlapped, or whose lead staff touched
                \* during a click (history)

clickVars == <<inquiry, held, stored, overlapped>>

LeadStatuses == {"new", "contacted", "converted", "closed"}
NoInquiry == [status |-> "closed", visitor |-> NoVisitor, trail |-> <<>>]

\* found = 0: no open lead.
Unmade == [pc |-> "unmade", visitor |-> NoVisitor, found |-> 0, trail |-> <<>>]

Created == {l \in LeadIds : stored[l] # <<>>}

\* The last n elements of s.
LastOf(s, n) == IF Len(s) <= n THEN s ELSE SubSeq(s, Len(s) - n + 1, Len(s))

\* AppendInterestTouch: the oldest touches drop off first.
KeepAllTouches(trail, c) == Append(trail, c)
DropNewTouch(trail, c) == SubSeq(Append(trail, c), 1,
    IF Len(trail) < MaxInterestHistory THEN Len(trail) + 1 ELSE MaxInterestHistory)
AppendTouch(trail, c) == LastOf(Append(trail, c), MaxInterestHistory)

\* FindOpenBySessionAndChannel's WHERE, and its newest row.
OnlyNewLeads(v) == {l \in Created : inquiry[l].visitor = v /\ inquiry[l].status = "new"}
OpenLeads(v) ==
    {l \in Created : inquiry[l].visitor = v /\ inquiry[l].status \in {"new", "contacted"}}

FindOpen(v) ==
    IF OpenLeads(v) = {} THEN 0
    ELSE CHOOSE l \in OpenLeads(v) : \A m \in OpenLeads(v) : m <= l

-----------------------------------------------------------------------------
ClicksInit ==
    /\ inquiry = [l \in LeadIds |-> NoInquiry]
    /\ held = [c \in ClickIds |-> Unmade]
    /\ stored = [l \in LeadIds |-> <<>>]
    /\ overlapped = {}

\* Something begins for visitor v, perhaps with a click of v in flight.
InFlight(v) == \E c \in ClickIds : held[c].pc = "found" /\ held[c].visitor = v
Crosses(v) ==
    overlapped' = IF v # NoVisitor /\ InFlight(v) THEN overlapped \cup {v} ELSE overlapped

\* RecordContactClick up to its query; without a session there is none.
FindLead(c, v) ==
    LET l == IF v = NoVisitor THEN 0 ELSE FindOpen(v)
    IN  /\ held[c].pc = "unmade"
        /\ held' = [held EXCEPT ![c] =
                       [pc |-> "found", visitor |-> v, found |-> l,
                        trail |-> IF l = 0 THEN <<>> ELSE inquiry[l].trail]]
        /\ Crosses(v)
        /\ UNCHANGED <<inquiry, stored>>

Answer(c, l) ==
    /\ held' = [held EXCEPT ![c] = [Unmade EXCEPT !.pc = "done"]]
    /\ stored' = [stored EXCEPT ![l] = Append(@, c)]
    /\ UNCHANGED overlapped

\* repo.UpdateClickContext: the history read earlier, one touch longer.
UpdateClickContext(c) ==
    LET l == held[c].found
    IN  /\ held[c].pc = "found"
        /\ l # 0
        /\ inquiry' = [inquiry EXCEPT ![l].trail = AppendTouch(held[c].trail, c)]
        /\ Answer(c, l)

\* repo.Create.
CreateLead(c) ==
    /\ held[c].pc = "found"
    /\ held[c].found = 0
    /\ \E l \in LeadIds \ Created :
         /\ \A m \in LeadIds \ Created : l <= m
         /\ inquiry' = [inquiry EXCEPT ![l] = [status |-> "new", visitor |-> held[c].visitor,
                                               trail |-> AppendTouch(<<>>, c)]]
         /\ Answer(c, l)

\* The request ends early: the click is as good as never made.
LoseClick(c) ==
    /\ held[c].pc = "found"
    /\ held' = [held EXCEPT ![c] = Unmade]
    /\ UNCHANGED <<inquiry, stored, overlapped>>

\* Staff follow a lead up; any status may follow any.  (Conversions has the
\* steps of this request.)
SetStatus(l, status) ==
    /\ l \in Created
    /\ inquiry[l].status # status
    /\ inquiry' = [inquiry EXCEPT ![l].status = status]
    /\ Crosses(inquiry[l].visitor)
    /\ UNCHANGED <<held, stored>>

-----------------------------------------------------------------------------
Find == \E c \in ClickIds, v \in Visitors \cup {NoVisitor} : FindLead(c, v)

Finish == \E c \in ClickIds : UpdateClickContext(c) \/ CreateLead(c) \/ LoseClick(c)

Follow == \E l \in LeadIds, status \in LeadStatuses : SetStatus(l, status)

ClicksNext == Find \/ Finish \/ Follow

ClicksSpec == ClicksInit /\ [][ClicksNext]_clickVars

-----------------------------------------------------------------------------
\* Type correctness; a lead is closed until a click creates it.
ClicksTypeOK ==
    /\ \A l \in LeadIds :
         /\ DOMAIN inquiry[l] = {"status", "visitor", "trail"}
         /\ inquiry[l].status \in LeadStatuses
         /\ inquiry[l].visitor \in Visitors \cup {NoVisitor}
         /\ Len(inquiry[l].trail) <= MaxInterestHistory
         /\ l \notin Created => inquiry[l] = NoInquiry
    /\ \A c \in ClickIds :
         /\ held[c].pc \in {"unmade", "found", "done"}
         /\ held[c].found \in Created \cup {0}

\* The newest touch of a lead is the last click that was answered with it: no
\* click, however late it writes, drops its own touch or resurrects an order.
LatestTouchLast ==
    \A l \in Created :
        inquiry[l].trail[Len(inquiry[l].trail)] = stored[l][Len(stored[l])]

\* "the visitor's full browsing trail survives repeat clicks instead of each one
\* erasing the last" (domain/types.go:312-313), up to the cap, for visitors whose
\* clicks came one after the other, whatever everybody else did meanwhile.
TrailKept ==
    \A l \in LeadIds : inquiry[l].visitor \notin overlapped =>
        inquiry[l].trail = LastOf(stored[l], MaxInterestHistory)

\* The same promise for every visitor: "instead of each one erasing the last".
TrailNeverErased ==
    \A l \in LeadIds : inquiry[l].trail = LastOf(stored[l], MaxInterestHistory)

HasOpenLead(v) ==
    \E l \in Created : inquiry[l].visitor = v /\ inquiry[l].status \in {"new", "contacted"}

\* A click of a visitor with an open lead refreshes it "instead of creating a
\* duplicate" (record_contact_click.go:13-17), for the same visitors.
NoDuplicateLead ==
    [][\A l \in LeadIds :
         LET v == inquiry'[l].visitor
         IN  stored[l] = <<>> /\ stored'[l] # <<>> /\ v # NoVisitor /\ v \notin overlapped
                => ~HasOpenLead(v)]_clickVars

\* The same promise for every visitor: "a repeat click from the same visitor on
\* the same channel", while the lead is open, makes no second lead.
NeverDuplicated ==
    [][\A l \in LeadIds :
         LET v == inquiry'[l].visitor
         IN  stored[l] = <<>> /\ stored'[l] # <<>> /\ v # NoVisitor => ~HasOpenLead(v)]_clickVars
=============================================================================
