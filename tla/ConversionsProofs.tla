------------------------- MODULE ConversionsProofs -------------------------
(***************************************************************************)
(* Lead conversions under any number of leads, status requests, retry runs *)
(* and clicks.  What a request or a run read long ago is kept in staff,    *)
(* retry and click, so the invariant says what each of them still knows of *)
(* the lead it holds: that it has been converted, that a push of it was    *)
(* answered, and, when nobody else held the lead, that it is still as read.*)
(***************************************************************************)
EXTENDS Conversions, ContactClicks, SequenceTheorems, WellFoundedInduction, TLAPS

Typed ==
    /\ TypeOK
    /\ crossed \subseteq Leads
    /\ \A a \in Staff : staff[a].pc = "idle" => staff[a].lead = NoLead

\* What the tables say of a lead.
LeadKnown(l) ==
    /\ lead[l].synced => ga[l].answered
    /\ ga[l].heard => won[l].times > 0
    /\ lead[l].status = "converted" => won[l].times > 0

LeadAlone(l) ==
    /\ ga[l].pushes <= won[l].times
    /\ lead[l].status = "converted" /\ won[l].captured => NotNull(lead[l].client)

\* What a status request still knows of the lead it holds.
StaffKnows(a) ==
    LET q == staff[a]
    IN  /\ q.converts => q.status = "converted"
        /\ q.pc \in {"sending", "recording"} => won[q.lead].times > 0
        /\ q.pc = "recording" => ga[q.lead].answered

StaffAlone(a) ==
    LET q == staff[a]
    IN  /\ q.pc = "writing" /\ q.converts => lead[q.lead].status # "converted"
        /\ q.pc = "sending" => Bump(ga[q.lead].pushes) <= won[q.lead].times

\* What a retry run still knows of the leads it listed.
RetryKnows(r) ==
    /\ \A l \in retry[r].todo : won[l].times > 0
    /\ retry[r].sent # NoLead => /\ won[retry[r].sent].times > 0
                                 /\ ga[retry[r].sent].answered

\* A lead that was never held twice: one request at a time, no click beside a
\* request, and a click that found it open still finds it open.
OneHolder(l) ==
    /\ \A a, b \in Staff : staff[a].lead = l /\ staff[b].lead = l => a = b
    /\ \A a \in Staff, c \in Clicks : staff[a].lead = l => click[c] # l
    /\ \A c \in Clicks : click[c] = l => IsOpen(l)

Known ==
    /\ \A l \in Leads : LeadKnown(l)
    /\ \A a \in Staff : StaffKnows(a)
    /\ \A r \in Retriers : RetryKnows(r)

Alone ==
    /\ \A l \in Leads \ crossed : LeadAlone(l)
    /\ \A a \in Staff : staff[a].lead \in Leads \ crossed => StaffAlone(a)
    /\ \A l \in Leads \ crossed : OneHolder(l)

IInv == Typed /\ Known /\ Alone

-----------------------------------------------------------------------------
LEMMA Numbers ==
    ASSUME NEW n \in 0..CountCap
    PROVE  /\ Bump(n) \in 0..CountCap
           /\ n <= Bump(n)
           /\ Bump(n) > 0
           /\ \A m \in 0..CountCap : m <= n => Bump(m) <= Bump(n)
  BY CapAssumption DEF Bump

LEMMA Shapes ==
    /\ NoRequest \in Request
    /\ NoRequest.lead \notin Leads
    /\ NoRequest.lead = NoLead
    /\ NoRequest.pc = "idle"
    /\ ~NoRequest.converts
    /\ NoRun \in RetryRun
  BY NoLeadAssumption DEF NoRequest, Request, NoRun, RetryRun, Statuses, Clients

\* A push changes only the events of its lead, and only upwards.
LEMMA PushCounts ==
    ASSUME Typed, NEW l \in Leads, NEW reached \in BOOLEAN, NEW answered \in BOOLEAN,
           NEW again \in BOOLEAN, Push(l, reached, answered, again)
    PROVE  /\ ga' \in [Leads -> [pushes : 0..CountCap, heard : BOOLEAN, answered : BOOLEAN]]
           /\ \A m \in Leads \ {l} : ga'[m] = ga[m]
           /\ ga'[l].pushes = IF reached /\ ~again THEN Bump(ga[l].pushes) ELSE ga[l].pushes
           /\ ga'[l].heard = (ga[l].heard \/ reached)
           /\ ga'[l].answered = (ga[l].answered \/ answered)
  <1> DEFINE old == ga[l]
             new == [pushes |-> IF reached /\ ~again THEN Bump(old.pushes) ELSE old.pushes,
                     heard |-> old.heard \/ reached, answered |-> old.answered \/ answered]
  <1>1. /\ ga \in [Leads -> [pushes : 0..CountCap, heard : BOOLEAN, answered : BOOLEAN]]
        /\ old.pushes \in 0..CountCap
    BY DEF Typed, TypeOK
  <1>2. new \in [pushes : 0..CountCap, heard : BOOLEAN, answered : BOOLEAN]
    BY <1>1, Numbers
  <1>3. ga' = [ga EXCEPT ![l] = new]
    BY DEF Push
  <1> QED BY <1>1, <1>2, <1>3

\* The only write to won: times and captured of the lead that turns converted.
LEMMA WriteCounts ==
    ASSUME Typed, NEW a \in Staff, WriteStatus(a)
    PROVE  LET l == staff[a].lead
               turns == staff[a].status = "converted" /\ lead[l].status # "converted"
           IN  /\ l \in Leads
               /\ lead' = [lead EXCEPT ![l].status = staff[a].status]
               /\ won' \in [Leads -> [times : 0..CountCap, captured : BOOLEAN]]
               /\ \A m \in Leads \ {l} : won'[m] = won[m]
               /\ turns => /\ won'[l].times = Bump(won[l].times)
                           /\ won'[l].captured = HasClient(lead[l].client)
               /\ ~turns => won' = won
  <1> DEFINE l == staff[a].lead
             new == [times |-> Bump(won[l].times), captured |-> HasClient(lead[l].client)]
  <1>1. /\ l \in Leads
        /\ won \in [Leads -> [times : 0..CountCap, captured : BOOLEAN]]
        /\ won[l].times \in 0..CountCap
    BY DEF Typed, TypeOK, WriteStatus
  <1>2. new \in [times : 0..CountCap, captured : BOOLEAN]
    BY <1>1, Numbers DEF HasClient, NotNull
  <1>3. won' = IF staff[a].status = "converted" /\ lead[l].status # "converted"
               THEN [won EXCEPT ![l] = new] ELSE won
    BY DEF WriteStatus
  <1>4. lead' = [lead EXCEPT ![l].status = staff[a].status]
    BY DEF WriteStatus
  <1> QED BY <1>1, <1>2, <1>3, <1>4

\* A request takes up a lead; nobody else holds it unless it is crossed now.
LEMMA ReadKeeps ==
    ASSUME IInv, NEW a \in Staff, NEW l \in Leads, NEW target \in Statuses \cup {"keep"},
           ReadLead(a, l, target)
    PROVE  IInv'
  <1> DEFINE q == [pc |-> "writing", lead |-> l,
                   status |-> IF target = "keep" THEN lead[l].status ELSE target,
                   converts |-> JustConverted(l, target), client |-> "none"]
  <1> USE DEF IInv
  <1>1. /\ staff' = [staff EXCEPT ![a] = q]
        /\ UNCHANGED <<lead, retry, click, ga, won>>
        /\ crossed' = crossed \cup {m \in {l} : Held(m)}
    BY DEF ReadLead, TakesUp
  <1>2. /\ q \in Request
        /\ q.converts => q.status = "converted" /\ lead[l].status # "converted"
    BY DEF Typed, TypeOK, Inquiry, Request, Statuses, Clients, JustConverted
  <1>3. /\ staff \in [Staff -> Request]
        /\ staff' \in [Staff -> Request]
        /\ staff'[a] = q
        /\ \A b \in Staff \ {a} : staff'[b] = staff[b]
    BY <1>1, <1>2 DEF Typed, TypeOK
  <1> HIDE DEF q
  <1>4. q.pc = "writing" /\ q.lead = l
    BY DEF q
  <1>5. Typed'
    BY <1>1, <1>3, <1>4 DEF Typed, TypeOK
  <1>6. Known'
    BY <1>1, <1>2, <1>3, <1>4 DEF Known, LeadKnown, StaffKnows, RetryKnows
  <1>7. crossed \subseteq crossed' /\ (l \notin crossed' => ~Held(l))
    BY <1>1
  <1>8. Alone'
    <2>1. \A m \in Leads \ crossed' : LeadAlone(m)'
      BY <1>1, <1>7 DEF Alone, LeadAlone
    <2>2. \A b \in Staff : staff'[b].lead \in Leads \ crossed' => StaffAlone(b)'
      BY <1>1, <1>2, <1>3, <1>4, <1>7 DEF Alone, StaffAlone, Bump
    <2>3. \A m \in Leads \ crossed' : OneHolder(m)'
      BY <1>1, <1>3, <1>4, <1>7 DEF Alone, OneHolder, Held, IsOpen
    <2> QED BY <2>1, <2>2, <2>3 DEF Alone
  <1> QED BY <1>5, <1>6, <1>8

\* A request ends, or goes on with the lead it holds, and the rest stays.
LEMMA StaffTurns ==
    ASSUME IInv, NEW a \in Staff, NEW q \in Request, staff' = [staff EXCEPT ![a] = q],
           q = NoRequest \/ (q.pc # "idle" /\ q.lead = staff[a].lead /\ q.lead \in Leads),
           q.pc = "sending" => q.client = "known",
           UNCHANGED <<retry, click, crossed>>
    PROVE  /\ staff' \in [Staff -> Request]
           /\ staff'[a] = q
           /\ \A b \in Staff \ {a} : staff'[b] = staff[b]
           /\ \A b \in Staff : staff'[b].pc # "idle" => staff'[b].lead \in Leads
           /\ \A b \in Staff : staff'[b].pc = "idle" => staff'[b].lead = NoLead
           /\ \A b \in Staff : staff'[b].pc = "sending" => staff'[b].client = "known"
           /\ \A b \in Staff : staff'[b].lead \in Leads => staff'[b].lead = staff[b].lead
  <1>1. staff \in [Staff -> Request] /\ staff'[a] = q
    BY DEF IInv, Typed, TypeOK
  <1>2. \A b \in Staff \ {a} : staff'[b] = staff[b]
    BY <1>1
  <1>3. staff' \in [Staff -> Request]
    BY <1>1
  <1> QED BY <1>1, <1>2, <1>3, Shapes DEF IInv, Typed, TypeOK

LEMMA WriteKeeps == ASSUME IInv, NEW a \in Staff, WriteStatus(a) PROVE IInv'
  <1> DEFINE l == staff[a].lead
             q == IF staff[a].converts /\ HasClient(lead[l].client)
                  THEN [staff[a] EXCEPT !.pc = "sending", !.client = lead[l].client]
                  ELSE NoRequest
  <1>0. staff[a] \in Request /\ lead \in [Leads -> Inquiry] /\ Typed
    BY DEF IInv, Typed, TypeOK
  <1>1. /\ staff[a].pc = "writing"
        /\ staff' = [staff EXCEPT ![a] = q]
        /\ UNCHANGED <<retry, click, ga, crossed>>
    BY DEF WriteStatus
  <1>2. l \in Leads
    BY <1>0, WriteCounts
  <1>3. /\ q \in Request
        /\ q = NoRequest \/ /\ q.pc = "sending" /\ q.lead = l /\ q.client = "known"
                            /\ q.converts = staff[a].converts /\ q.status = staff[a].status
                            /\ staff[a].converts
    <2>1. lead[l].client \in Clients
      BY <1>0, <1>2 DEF Inquiry
    <2>2. HasClient(lead[l].client) => lead[l].client = "known"
      BY <2>1 DEF Clients, HasClient, NotNull
    <2> QED BY <1>0, <2>1, <2>2, Shapes DEF Request
  <1> HIDE DEF q
  <1>4. /\ staff' \in [Staff -> Request]
        /\ staff'[a] = q
        /\ \A b \in Staff \ {a} : staff'[b] = staff[b]
        /\ \A b \in Staff : staff'[b].pc # "idle" => staff'[b].lead \in Leads
        /\ \A b \in Staff : staff'[b].pc = "idle" => staff'[b].lead = NoLead
        /\ \A b \in Staff : staff'[b].pc = "sending" => staff'[b].client = "known"
        /\ \A b \in Staff : staff'[b].lead \in Leads => staff'[b].lead = staff[b].lead
    BY <1>1, <1>2, <1>3, StaffTurns, Shapes
  <1>5. /\ lead' = [lead EXCEPT ![l].status = staff[a].status]
        /\ won' \in [Leads -> [times : 0..CountCap, captured : BOOLEAN]]
        /\ \A m \in Leads \ {l} : won'[m] = won[m]
        /\ staff[a].status = "converted" /\ lead[l].status # "converted"
           => /\ won'[l].times = Bump(won[l].times)
              /\ won'[l].captured = HasClient(lead[l].client)
        /\ ~(staff[a].status = "converted" /\ lead[l].status # "converted") => won' = won
    BY <1>0, WriteCounts
  <1>6. /\ lead' \in [Leads -> Inquiry]
        /\ \A m \in Leads \ {l} : lead'[m] = lead[m]
        /\ lead'[l].status = staff[a].status
        /\ lead'[l].client = lead[l].client
        /\ lead'[l].synced = lead[l].synced
    BY <1>0, <1>2, <1>5 DEF Inquiry, Request
  <1>7. \A m \in Leads : won[m].times \in 0..CountCap /\ won'[m].times \in 0..CountCap
    BY <1>0, <1>5 DEF Typed, TypeOK
  <1>8. \A m \in Leads : won[m].times <= won'[m].times
    BY <1>2, <1>5, <1>7, Numbers
  <1>9. Typed'
    BY <1>0, <1>1, <1>4, <1>5, <1>6 DEF Typed, TypeOK
  <1>10. Known'
    <2>1. staff[a].status = "converted" => won'[l].times > 0
      BY <1>2, <1>5, <1>7, Numbers DEF IInv, Known, LeadKnown
    <2>2. \A m \in Leads : won[m].times > 0 => won'[m].times > 0
      BY <1>7, <1>8
    <2>3. \A m \in Leads : LeadKnown(m)'
      BY <1>1, <1>2, <1>6, <2>1, <2>2 DEF IInv, Known, LeadKnown
    <2>4. \A b \in Staff : StaffKnows(b)'
      BY <1>0, <1>1, <1>2, <1>3, <1>4, <2>1, <2>2, Shapes DEF IInv, Known, StaffKnows, Typed, TypeOK
    <2>5. \A r \in Retriers : RetryKnows(r)'
      BY <1>0, <1>1, <2>2 DEF IInv, Known, RetryKnows, Typed, TypeOK, RetryRun
    <2> QED BY <2>3, <2>4, <2>5 DEF Known
  <1>11. Alone'
    <2>0. \A m \in Leads : ga[m].pushes \in 0..CountCap
      BY <1>0 DEF Typed, TypeOK
    <2>1. \A m \in Leads \ crossed' : LeadAlone(m)'
      BY <1>1, <1>2, <1>5, <1>6, <1>7, <1>8, <2>0 DEF IInv, Alone, LeadAlone, HasClient
    <2>2. ASSUME NEW b \in Staff, staff'[b].lead \in Leads \ crossed' PROVE StaffAlone(b)'
      <3>1. staff[b].lead = staff'[b].lead /\ staff[b].lead \in Leads \ crossed
        BY <2>2, <1>1, <1>4
      <3>2. CASE b = a
        <4>1. q.pc = "sending" /\ staff[a].converts
          BY <3>2, <2>2, <1>3, <1>4, Shapes
        <4>2. staff[a].status = "converted" /\ lead[l].status # "converted"
          BY <3>1, <3>2, <4>1, <1>1 DEF IInv, Known, StaffKnows, Alone, StaffAlone
        <4>3. ga[l].pushes <= won[l].times
          BY <3>1, <3>2 DEF IInv, Alone, LeadAlone
        <4>4. Bump(ga[l].pushes) <= Bump(won[l].times)
          BY <1>2, <1>7, <2>0, <4>3, Numbers
        <4>5. won'[l].times = Bump(won[l].times) /\ ga'[l] = ga[l]
          BY <1>1, <1>5, <4>2
        <4> QED BY <1>2, <1>3, <1>4, <3>1, <3>2, <4>1, <4>4, <4>5 DEF StaffAlone, Bump
      <3>3. CASE b # a
        <4>1. staff[b].lead # l
          BY <3>1, <3>3, <1>2 DEF IInv, Alone, OneHolder
        <4> QED BY <1>1, <1>4, <1>5, <1>6, <3>1, <3>3, <4>1 DEF IInv, Alone, StaffAlone, Bump
      <3> QED BY <3>2, <3>3
    <2>3. ASSUME NEW m \in Leads \ crossed' PROVE OneHolder(m)'
      <3>1. OneHolder(m)
        BY <2>3, <1>1 DEF IInv, Alone
      <3>2. \A c \in Clicks : click[c] = m => m # l
        BY <3>1 DEF OneHolder
      <3> QED BY <1>1, <1>4, <1>6, <3>1, <3>2 DEF OneHolder, IsOpen
    <2> QED BY <2>1, <2>2, <2>3 DEF Alone
  <1> QED BY <1>9, <1>10, <1>11 DEF IInv

LEMMA SendKeeps ==
    ASSUME IInv, NEW a \in Staff, NEW reached \in BOOLEAN, NEW answered \in BOOLEAN,
           SendPush(a, reached, answered)
    PROVE  IInv'
  <1> DEFINE l == staff[a].lead
             q == IF Accepted(answered) THEN [staff[a] EXCEPT !.pc = "recording"] ELSE NoRequest
  <1>0. staff[a] \in Request /\ Typed
    BY DEF IInv, Typed, TypeOK
  <1>1. /\ staff[a].pc = "sending"
        /\ staff' = [staff EXCEPT ![a] = q]
        /\ Push(l, reached, answered, FALSE)
        /\ UNCHANGED <<lead, retry, click, won, crossed>>
    BY DEF SendPush
  <1>2. l \in Leads
    BY <1>1 DEF IInv, Typed, TypeOK
  <1>3. /\ q \in Request
        /\ q = NoRequest \/ /\ q.pc = "recording" /\ q.lead = l /\ answered
                            /\ q.converts = staff[a].converts /\ q.status = staff[a].status
    BY <1>0, Shapes DEF Request, Accepted
  <1> HIDE DEF q
  <1>4. /\ staff' \in [Staff -> Request]
        /\ staff'[a] = q
        /\ \A b \in Staff \ {a} : staff'[b] = staff[b]
        /\ \A b \in Staff : staff'[b].pc # "idle" => staff'[b].lead \in Leads
        /\ \A b \in Staff : staff'[b].pc = "idle" => staff'[b].lead = NoLead
        /\ \A b \in Staff : staff'[b].pc = "sending" => staff'[b].client = "known"
        /\ \A b \in Staff : staff'[b].lead \in Leads => staff'[b].lead = staff[b].lead
    BY <1>1, <1>2, <1>3, StaffTurns, Shapes
  <1>5. /\ ga' \in [Leads -> [pushes : 0..CountCap, heard : BOOLEAN, answered : BOOLEAN]]
        /\ \A m \in Leads \ {l} : ga'[m] = ga[m]
        /\ ga'[l].pushes = IF reached THEN Bump(ga[l].pushes) ELSE ga[l].pushes
        /\ ga'[l].answered = (ga[l].answered \/ answered)
    BY <1>0, <1>1, <1>2, PushCounts
  <1>6. won[l].times > 0
    BY <1>1 DEF IInv, Known, StaffKnows
  <1>7. Typed'
    BY <1>0, <1>1, <1>4, <1>5 DEF Typed, TypeOK
  <1>8. Known'
    <2>1. \A m \in Leads : LeadKnown(m)'
      BY <1>1, <1>2, <1>5, <1>6 DEF IInv, Known, LeadKnown
    <2>2. ASSUME NEW b \in Staff PROVE StaffKnows(b)'
      <3>1. CASE b # a
        <4>1. staff'[b] = staff[b] /\ won' = won /\ StaffKnows(b)
          BY <1>1, <1>4, <3>1 DEF IInv, Known
        <4>2. staff[b].pc = "recording" =>
                staff[b].lead \in Leads /\ ga[staff[b].lead].answered
          BY <1>0, <4>1 DEF StaffKnows, Typed, TypeOK
        <4>3. staff[b].pc = "recording" => ga'[staff[b].lead].answered
          BY <1>5, <4>2
        <4> QED BY <4>1, <4>3 DEF StaffKnows
      <3>2. CASE b = a
        <4>1. staff'[a] = q /\ won' = won /\ StaffKnows(a)
          BY <1>1, <1>4 DEF IInv, Known
        <4>2. CASE q = NoRequest
          BY <3>2, <4>1, <4>2, Shapes DEF StaffKnows
        <4>3. CASE q.pc = "recording" /\ q.lead = l /\ answered
                   /\ q.converts = staff[a].converts /\ q.status = staff[a].status
          <5>1. ga'[l].answered /\ won'[l].times > 0
            BY <1>5, <1>6, <4>1, <4>3
          <5> QED BY <3>2, <4>1, <4>3, <5>1 DEF StaffKnows
        <4> QED BY <1>3, <4>2, <4>3
      <3> QED BY <3>1, <3>2
    <2>3. \A r \in Retriers : RetryKnows(r)'
      BY <1>0, <1>1, <1>2, <1>5 DEF IInv, Known, RetryKnows, Typed, TypeOK, RetryRun
    <2> QED BY <2>1, <2>2, <2>3 DEF Known
  <1>9. Alone'
    <2>1. \A m \in Leads \ crossed' : LeadAlone(m)'
      <3>1. l \notin crossed => Bump(ga[l].pushes) <= won[l].times
        BY <1>1, <1>2 DEF IInv, Alone, StaffAlone
      <3> QED BY <1>1, <1>2, <1>5, <3>1 DEF IInv, Alone, LeadAlone
    <2>2. ASSUME NEW b \in Staff, staff'[b].lead \in Leads \ crossed' PROVE StaffAlone(b)'
      <3>1. staff[b].lead = staff'[b].lead /\ staff[b].lead \in Leads \ crossed
        BY <2>2, <1>1, <1>4
      <3>2. CASE b = a
        BY <3>1, <3>2, <1>3, <1>4, Shapes DEF StaffAlone
      <3>3. CASE b # a
        <4>1. staff[b].lead # l
          BY <3>1, <3>3, <1>2 DEF IInv, Alone, OneHolder
        <4> QED BY <1>1, <1>4, <1>5, <3>1, <3>3, <4>1 DEF IInv, Alone, StaffAlone, Bump
      <3> QED BY <3>2, <3>3
    <2>3. ASSUME NEW m \in Leads \ crossed' PROVE OneHolder(m)'
      BY <2>3, <1>1, <1>4 DEF IInv, Alone, OneHolder, IsOpen
    <2> QED BY <2>1, <2>2, <2>3 DEF Alone
  <1> QED BY <1>7, <1>8, <1>9 DEF IInv

\* Marking as synced a lead of which a push was answered.
LEMMA MarkSynced ==
    ASSUME IInv, NEW l \in Leads, ga[l].answered, lead' = [lead EXCEPT ![l].synced = TRUE],
           UNCHANGED <<ga, won>>
    PROVE  /\ lead' \in [Leads -> Inquiry]
           /\ \A m \in Leads : lead'[m].status = lead[m].status /\ lead'[m].client = lead[m].client
           /\ \A m \in Leads : LeadKnown(m)'
           /\ \A m \in Leads : LeadAlone(m) => LeadAlone(m)'
  <1>1. lead \in [Leads -> Inquiry]
    BY DEF IInv, Typed, TypeOK
  <1>2. /\ lead' \in [Leads -> Inquiry]
        /\ \A m \in Leads : lead'[m].status = lead[m].status /\ lead'[m].client = lead[m].client
        /\ \A m \in Leads : m # l => lead'[m].synced = lead[m].synced
    BY <1>1 DEF Inquiry
  <1>3. \A m \in Leads : LeadKnown(m)'
    BY <1>2 DEF IInv, Known, LeadKnown
  <1> QED BY <1>2, <1>3 DEF LeadAlone

\* A request ends: what the others know stays, whatever only marks leads synced.
LEMMA StaffEnds ==
    ASSUME IInv, NEW a \in Staff, staff' = [staff EXCEPT ![a] = NoRequest],
           UNCHANGED <<retry, click, ga, won, crossed>>,
           lead' \in [Leads -> Inquiry],
           \A m \in Leads : lead'[m].status = lead[m].status,
           \A m \in Leads : LeadKnown(m)',
           \A m \in Leads : LeadAlone(m) => LeadAlone(m)'
    PROVE  IInv'
  <1>1. /\ staff' \in [Staff -> Request]
        /\ staff'[a] = NoRequest
        /\ \A b \in Staff \ {a} : staff'[b] = staff[b]
        /\ \A b \in Staff : staff'[b].pc # "idle" => staff'[b].lead \in Leads
        /\ \A b \in Staff : staff'[b].pc = "idle" => staff'[b].lead = NoLead
        /\ \A b \in Staff : staff'[b].pc = "sending" => staff'[b].client = "known"
        /\ \A b \in Staff : staff'[b].lead \in Leads => staff'[b].lead = staff[b].lead
    BY StaffTurns, Shapes
  <1>2. Typed'
    BY <1>1 DEF IInv, Typed, TypeOK
  <1>3. Known'
    BY <1>1, Shapes DEF IInv, Known, StaffKnows, RetryKnows
  <1>4. Alone'
    <2>1. \A b \in Staff : staff'[b].lead \in Leads \ crossed' => StaffAlone(b)'
      BY <1>1, Shapes DEF IInv, Alone, StaffAlone, Bump
    <2>2. \A m \in Leads \ crossed' : OneHolder(m)'
      BY <1>1 DEF IInv, Alone, OneHolder, IsOpen
    <2> QED BY <2>1, <2>2 DEF IInv, Alone
  <1> QED BY <1>2, <1>3, <1>4 DEF IInv

LEMMA RecordKeeps == ASSUME IInv, NEW a \in Staff, RecordPush(a) PROVE IInv'
  <1>1. staff[a].lead \in Leads /\ ga[staff[a].lead].answered
    BY DEF RecordPush, IInv, Typed, TypeOK, Known, StaffKnows
  <1> QED BY <1>1, MarkSynced, StaffEnds DEF RecordPush

LEMMA AbandonKeeps == ASSUME IInv, NEW a \in Staff, AbandonRequest(a) PROVE IInv'
  <1>1. \A m \in Leads : LeadKnown(m)' /\ (LeadAlone(m) => LeadAlone(m)')
    BY DEF AbandonRequest, IInv, Known, LeadKnown, LeadAlone
  <1>2. lead' \in [Leads -> Inquiry] /\ \A m \in Leads : lead'[m].status = lead[m].status
    BY DEF AbandonRequest, IInv, Typed, TypeOK
  <1> QED BY <1>1, <1>2, StaffEnds DEF AbandonRequest

\* A retry run moves, or marks a lead synced, and nothing else does.
LEMMA RetryTurns ==
    ASSUME IInv, NEW r \in Retriers, NEW run \in RetryRun, retry' = [retry EXCEPT ![r] = run],
           \A l \in run.todo : won[l].times > 0,
           run.sent # NoLead => won[run.sent].times > 0 /\ ga'[run.sent].answered,
           UNCHANGED <<staff, click, won>>,
           crossed \subseteq crossed', crossed' \subseteq Leads,
           lead' \in [Leads -> Inquiry],
           \A m \in Leads : lead'[m].status = lead[m].status,
           ga' \in [Leads -> [pushes : 0..CountCap, heard : BOOLEAN, answered : BOOLEAN]],
           \A m \in Leads : ga'[m].pushes = ga[m].pushes /\ (ga[m].answered => ga'[m].answered),
           \A m \in Leads : LeadKnown(m)',
           \A m \in Leads : LeadAlone(m) => LeadAlone(m)'
    PROVE  IInv'
  <1>1. /\ retry' \in [Retriers -> RetryRun]
        /\ retry'[r] = run
        /\ \A t \in Retriers \ {r} : retry'[t] = retry[t]
    BY DEF IInv, Typed, TypeOK
  <1>2. Typed'
    BY <1>1 DEF IInv, Typed, TypeOK
  <1>3. Known'
    <2>1. \A b \in Staff : StaffKnows(b)'
      BY DEF IInv, Known, StaffKnows, Typed, TypeOK
    <2>2. \A t \in Retriers : RetryKnows(t)'
      <3>1. \A t \in Retriers : retry[t].sent \in Leads \cup {NoLead}
        BY DEF IInv, Typed, TypeOK, RetryRun
      <3> QED BY <1>1, <3>1 DEF IInv, Known, RetryKnows
    <2> QED BY <2>1, <2>2 DEF Known
  <1>4. Alone'
    <2>1. \A b \in Staff : staff'[b].lead \in Leads \ crossed' => StaffAlone(b)'
      BY DEF IInv, Alone, StaffAlone, Bump
    <2>2. \A m \in Leads \ crossed' : OneHolder(m)'
      BY DEF IInv, Alone, OneHolder, IsOpen
    <2> QED BY <2>1, <2>2 DEF IInv, Alone
  <1> QED BY <1>2, <1>3, <1>4 DEF IInv

\* Nothing the tables say changes.
LEMMA TablesStay ==
    ASSUME IInv, UNCHANGED <<lead, ga, won>>
    PROVE  /\ lead' \in [Leads -> Inquiry]
           /\ \A m \in Leads : lead'[m].status = lead[m].status
           /\ ga' \in [Leads -> [pushes : 0..CountCap, heard : BOOLEAN, answered : BOOLEAN]]
           /\ \A m \in Leads : LeadKnown(m)'
           /\ \A m \in Leads : LeadAlone(m) => LeadAlone(m)'
  BY DEF IInv, Typed, TypeOK, Known, LeadKnown, LeadAlone

LEMMA ListKeeps == ASSUME IInv, NEW r \in Retriers, ListPending(r) PROVE IInv'
  <1> DEFINE pending == {l \in Leads : IsPending(l) /\ HasClient(lead[l].client)}
             run == [retry[r] EXCEPT !.todo = pending]
  <1>1. /\ run \in RetryRun /\ run.sent = NoLead /\ run.todo = pending
        /\ retry' = [retry EXCEPT ![r] = run]
    BY Shapes DEF ListPending, NoRun, RetryRun
  <1>2. \A l \in pending : won[l].times > 0
    BY DEF IsPending, IInv, Known, LeadKnown
  <1>3. crossed \subseteq crossed' /\ crossed' \subseteq Leads
    BY DEF ListPending, TakesUp, IInv, Typed
  <1> HIDE DEF run
  <1> QED BY <1>1, <1>2, <1>3, TablesStay, RetryTurns DEF ListPending

LEMMA SendPendingKeeps ==
    ASSUME IInv, NEW r \in Retriers, NEW l \in Leads, NEW reached \in BOOLEAN,
           NEW answered \in BOOLEAN, SendPending(r, l, reached, answered)
    PROVE  IInv'
  <1> DEFINE run == [todo |-> retry[r].todo \ {l},
                     sent |-> IF Accepted(answered) THEN l ELSE NoLead]
  <1>1. retry[r] \in RetryRun /\ Typed
    BY DEF IInv, Typed, TypeOK
  <1>2. /\ run \in RetryRun /\ run.todo \subseteq retry[r].todo
        /\ run.sent = NoLead \/ (run.sent = l /\ answered)
        /\ retry' = [retry EXCEPT ![r] = run]
    BY <1>1 DEF SendPending, RetryRun, Accepted
  <1>3. \A m \in retry[r].todo : won[m].times > 0
    BY DEF IInv, Known, RetryKnows
  <1>4. won[l].times > 0
    BY <1>3 DEF SendPending
  <1>5. /\ ga' \in [Leads -> [pushes : 0..CountCap, heard : BOOLEAN, answered : BOOLEAN]]
        /\ \A m \in Leads \ {l} : ga'[m] = ga[m]
        /\ ga'[l].pushes = ga[l].pushes
        /\ ga'[l].answered = (ga[l].answered \/ answered)
    BY <1>1, PushCounts DEF SendPending
  <1>6. /\ lead' \in [Leads -> Inquiry]
        /\ \A m \in Leads : lead'[m].status = lead[m].status
        /\ crossed \subseteq crossed' /\ crossed' \subseteq Leads
    BY DEF SendPending, IInv, Typed, TypeOK
  <1>7. \A m \in Leads : LeadKnown(m)' /\ (LeadAlone(m) => LeadAlone(m)')
    BY <1>4, <1>5 DEF SendPending, IInv, Known, LeadKnown, LeadAlone
  <1>8. \A m \in Leads : ga'[m].pushes = ga[m].pushes /\ (ga[m].answered => ga'[m].answered)
    BY <1>5
  <1>9. /\ \A m \in run.todo : won[m].times > 0
        /\ run.sent # NoLead => won[run.sent].times > 0 /\ ga'[run.sent].answered
    BY <1>2, <1>3, <1>4, <1>5
  <1>10. UNCHANGED <<staff, click, won>>
    BY DEF SendPending
  <1> HIDE DEF run
  <1> QED BY <1>2, <1>5, <1>6, <1>7, <1>8, <1>9, <1>10, RetryTurns

\* The record of a push is made, or left out.
LEMMA RunGoesOn ==
    ASSUME IInv, NEW r \in Retriers
    PROVE  LET run == [retry[r] EXCEPT !.sent = NoLead]
           IN  /\ run \in RetryRun
               /\ run.sent = NoLead
               /\ \A l \in run.todo : won[l].times > 0
               /\ [retry EXCEPT ![r].sent = NoLead] = [retry EXCEPT ![r] = run]
  <1>1. retry[r] \in RetryRun /\ \A l \in retry[r].todo : won[l].times > 0
    BY DEF IInv, Typed, TypeOK, Known, RetryKnows
  <1> QED BY <1>1 DEF RetryRun

LEMMA RecordPendingKeeps == ASSUME IInv, NEW r \in Retriers, RecordPending(r) PROVE IInv'
  <1> DEFINE run == [retry[r] EXCEPT !.sent = NoLead]
  <1>1. /\ run \in RetryRun /\ run.sent = NoLead /\ \A l \in run.todo : won[l].times > 0
        /\ retry' = [retry EXCEPT ![r] = run]
    BY RunGoesOn DEF RecordPending
  <1>2. retry[r].sent \in Leads /\ ga[retry[r].sent].answered
    BY DEF RecordPending, IInv, Typed, TypeOK, RetryRun, Known, RetryKnows
  <1>3. /\ lead' \in [Leads -> Inquiry]
        /\ \A m \in Leads : lead'[m].status = lead[m].status
        /\ \A m \in Leads : LeadKnown(m)' /\ (LeadAlone(m) => LeadAlone(m)')
    BY <1>2, MarkSynced DEF RecordPending
  <1>4. /\ ga' \in [Leads -> [pushes : 0..CountCap, heard : BOOLEAN, answered : BOOLEAN]]
        /\ crossed \subseteq crossed' /\ crossed' \subseteq Leads
    BY DEF RecordPending, IInv, Typed, TypeOK
  <1> HIDE DEF run
  <1> QED BY <1>1, <1>3, <1>4, RetryTurns DEF RecordPending

LEMMA SkipKeeps ==
    ASSUME IInv, NEW r \in Retriers, SkipRecord(r) \/ StopRetry(r) PROVE IInv'
  <1> DEFINE run == IF SkipRecord(r) THEN [retry[r] EXCEPT !.sent = NoLead] ELSE NoRun
  <1>1. /\ run \in RetryRun /\ run.sent = NoLead /\ \A l \in run.todo : won[l].times > 0
        /\ retry' = [retry EXCEPT ![r] = run]
    BY RunGoesOn, Shapes DEF SkipRecord, StopRetry, NoRun
  <1>2. UNCHANGED <<lead, staff, click, ga, won, crossed>>
    BY DEF SkipRecord, StopRetry
  <1>3. crossed \subseteq crossed' /\ crossed' \subseteq Leads
    BY <1>2 DEF IInv, Typed
  <1> HIDE DEF run
  <1> QED BY <1>1, <1>2, <1>3, TablesStay, RetryTurns

\* A click finds a lead open: nobody else holds it unless it is crossed now.
LEMMA FindKeeps ==
    ASSUME IInv, NEW c \in Clicks, NEW l \in Leads, FindOpenLead(c, l) PROVE IInv'
  <1>1. /\ click' = [click EXCEPT ![c] = l]
        /\ IsOpen(l)
        /\ UNCHANGED <<lead, staff, retry, ga, won>>
        /\ crossed' = crossed \cup {m \in {l} : Held(m)}
    BY DEF FindOpenLead, TakesUp
  <1>2. /\ click' \in [Clicks -> Leads \cup {NoLead}]
        /\ click'[c] = l
        /\ \A d \in Clicks \ {c} : click'[d] = click[d]
    BY <1>1 DEF IInv, Typed, TypeOK
  <1>3. crossed \subseteq crossed' /\ (l \notin crossed' => ~Held(l))
    BY <1>1
  <1>4. Typed'
    BY <1>1, <1>2 DEF IInv, Typed, TypeOK
  <1>5. Known'
    BY <1>1 DEF IInv, Known, LeadKnown, StaffKnows, RetryKnows
  <1>6. Alone'
    <2>1. \A m \in Leads \ crossed' : LeadAlone(m)'
      BY <1>1, <1>3 DEF IInv, Alone, LeadAlone
    <2>2. \A b \in Staff : staff'[b].lead \in Leads \ crossed' => StaffAlone(b)'
      BY <1>1, <1>3 DEF IInv, Alone, StaffAlone, Bump
    <2>3. \A m \in Leads \ crossed' : OneHolder(m)'
      BY <1>1, <1>2, <1>3 DEF IInv, Alone, OneHolder, Held, IsOpen
    <2> QED BY <2>1, <2>2, <2>3 DEF Alone
  <1> QED BY <1>4, <1>5, <1>6 DEF IInv

\* A click ends.  A lead it alone held is still open, so the id it writes
\* is not that of a conversion.
LEMMA ClickEnds ==
    ASSUME IInv, NEW c \in Clicks, click' = [click EXCEPT ![c] = NoLead],
           UNCHANGED <<staff, retry, ga, won, crossed>>,
           lead' \in [Leads -> Inquiry],
           \A m \in Leads : /\ lead'[m].status = lead[m].status
                            /\ lead'[m].synced = lead[m].synced
                            /\ m # click[c] => lead'[m].client = lead[m].client
    PROVE  IInv'
  <1>1. /\ click' \in [Clicks -> Leads \cup {NoLead}]
        /\ click'[c] = NoLead
        /\ \A d \in Clicks \ {c} : click'[d] = click[d]
    BY DEF IInv, Typed, TypeOK
  <1>2. Typed'
    BY <1>1 DEF IInv, Typed, TypeOK
  <1>3. Known'
    BY DEF IInv, Known, LeadKnown, StaffKnows, RetryKnows
  <1>4. Alone'
    <2>1. ASSUME NEW m \in Leads \ crossed' PROVE LeadAlone(m)'
      <3>1. LeadAlone(m) /\ (click[c] = m => lead[m].status # "converted")
        BY <2>1 DEF IInv, Alone, OneHolder, IsOpen
      <3> QED BY <3>1 DEF LeadAlone
    <2>2. \A b \in Staff : staff'[b].lead \in Leads \ crossed' => StaffAlone(b)'
      BY DEF IInv, Alone, StaffAlone, Bump
    <2>3. \A m \in Leads \ crossed' : OneHolder(m)'
      BY <1>1, NoLeadAssumption DEF IInv, Alone, OneHolder, IsOpen
    <2> QED BY <2>1, <2>2, <2>3 DEF Alone
  <1> QED BY <1>2, <1>3, <1>4 DEF IInv

LEMMA RefreshKeeps ==
    ASSUME IInv, NEW c \in Clicks, NEW client \in Clients, RefreshLead(c, client) PROVE IInv'
  <1>1. lead \in [Leads -> Inquiry] /\ lead' = [lead EXCEPT ![click[c]].client = client]
    BY DEF RefreshLead, IInv, Typed, TypeOK
  <1>2. lead' \in [Leads -> Inquiry]
    BY <1>1 DEF Inquiry
  <1>3. \A m \in Leads : /\ lead'[m].status = lead[m].status
                         /\ lead'[m].synced = lead[m].synced
                         /\ m # click[c] => lead'[m].client = lead[m].client
    BY <1>1 DEF Inquiry
  <1> QED BY <1>2, <1>3, ClickEnds DEF RefreshLead

LEMMA DropKeeps == ASSUME IInv, NEW c \in Clicks, DropClick(c) PROVE IInv'
  <1>1. lead' \in [Leads -> Inquiry]
    BY DEF DropClick, IInv, Typed, TypeOK
  <1> QED BY <1>1, ClickEnds DEF DropClick

-----------------------------------------------------------------------------
LEMMA NextKeeps == ASSUME IInv, [Next]_vars PROVE IInv'
  <1>1. CASE UNCHANGED vars
    <2>1. Typed'
      BY <1>1 DEF vars, IInv, Typed, TypeOK
    <2>2. Known'
      BY <1>1 DEF vars, IInv, Known, LeadKnown, StaffKnows, RetryKnows
    <2>3. Alone'
      BY <1>1 DEF vars, IInv, Alone, LeadAlone, StaffAlone, OneHolder, IsOpen, Bump
    <2> QED BY <2>1, <2>2, <2>3 DEF IInv
  <1>2. CASE Begin
    BY <1>2, ReadKeeps, ListKeeps, FindKeeps DEF Begin
  <1>3. CASE Proceed
    BY <1>3, WriteKeeps, SendKeeps, RecordKeeps, SendPendingKeeps, RecordPendingKeeps, SkipKeeps,
       RefreshKeeps DEF Proceed, RetryStep
  <1>4. CASE Break
    BY <1>4, AbandonKeeps, SkipKeeps, DropKeeps DEF Break
  <1> QED BY <1>1, <1>2, <1>3, <1>4 DEF Next

LEMMA InitHolds == Init => IInv
  <1> SUFFICES ASSUME Init PROVE IInv
    OBVIOUS
  <1>1. lead \in [Leads -> Inquiry] /\ \A l \in Leads : ~lead[l].synced /\ lead[l].status = "new"
    BY DEF Init, Inquiry, Statuses
  <1>2. TypeOK
    BY <1>1, Shapes, CapAssumption DEF Init, TypeOK
  <1>3. Typed
    BY <1>2, Shapes DEF Init, Typed
  <1>4. Known
    BY <1>1, Shapes DEF Init, Known, LeadKnown, StaffKnows, RetryKnows, NoRun
  <1>5. Alone
    BY <1>1, Shapes, NoLeadAssumption DEF Init, Alone, LeadAlone, OneHolder
  <1> QED BY <1>3, <1>4, <1>5 DEF IInv

LEMMA Always == Spec => []IInv
  BY InitHolds, NextKeeps, PTL DEF Spec

-----------------------------------------------------------------------------
\* The leads, the requests, the runs and the clicks keep their types, and nobody
\* is about to push for a lead without an id.
THEOREM TypeCorrect == Spec => []TypeOK
  <1>1. IInv => TypeOK
    BY DEF IInv, Typed
  <1> QED BY <1>1, Always, PTL

\* However many requests, runs and clicks overlap or stop half way, a lead is
\* marked synced only after a push of it was answered with 2xx.
THEOREM SyncedOnlyAnswered == Spec => []SyncedWasAnswered
  <1>1. IInv => SyncedWasAnswered
    BY DEF IInv, Known, LeadKnown, SyncedWasAnswered
  <1> QED BY <1>1, Always, PTL

\* GA4 never hears of a lead that was not converted before.
THEOREM PushedOnlyConverted == Spec => []OnlyConversionsPushed
  <1>1. IInv => OnlyConversionsPushed
    BY DEF IInv, Known, LeadKnown, OnlyConversionsPushed
  <1> QED BY <1>1, Always, PTL

\* A lead that nobody held twice is pushed by status requests at most once for
\* each time it turned converted.
THEOREM PushedOncePerTurn == Spec => []PushPerConversion
  <1>1. IInv => PushPerConversion
    BY DEF IInv, Alone, LeadAlone, PushPerConversion
  <1> QED BY <1>1, Always, PTL

\* A conversion with an id whose push was not recorded is found by the retry
\* command, wherever requests, runs and clicks stopped.
THEOREM FailedStaysPending == Spec => []FailedPushRetriable
  <1>1. IInv => FailedPushRetriable
    BY DEF IInv, Alone, LeadAlone, FailedPushRetriable, IsPending
  <1> QED BY <1>1, Always, PTL

-----------------------------------------------------------------------------
(* The clicks themselves: ContactClicks, whose leads are keyed and counted in *)
(* the order they were made.  A lead's trail is what its clicks said, as long *)
(* as its visitor's clicks came one after the other, because a click in       *)
(* flight then still knows the trail, and that there is no open lead.         *)
LeadRow == [status : LeadStatuses, visitor : Visitors \cup {NoVisitor}, trail : Seq(ClickIds)]
ClickRow == [pc : {"unmade", "found", "done"}, visitor : Visitors \cup {NoVisitor},
             found : LeadIds \cup {0}, trail : Seq(ClickIds)]

ClicksTyped ==
    /\ inquiry \in [LeadIds -> LeadRow]
    /\ held \in [ClickIds -> ClickRow]
    /\ stored \in [LeadIds -> Seq(ClickIds)]
    /\ NoVisitor \notin overlapped

\* The lead is new or contacted.
OpenRow(row) == row.status \in {"new", "contacted"}

\* Some key is above those of all leads.
Bounded == \E n \in Nat : \A l \in Created : l <= n

LeadsKept ==
    \A l \in LeadIds :
      /\ Len(inquiry[l].trail) <= MaxInterestHistory
      /\ l \notin Created => inquiry[l] = NoInquiry
      /\ l \in Created => inquiry[l].trail # <<>>
      /\ l \in Created => inquiry[l].trail[Len(inquiry[l].trail)] = stored[l][Len(stored[l])]

ClicksKept ==
    \A c \in ClickIds :
      /\ held[c].pc # "found" => held[c].visitor = NoVisitor /\ held[c].found = 0
      /\ held[c].visitor = NoVisitor => held[c].found = 0
      /\ held[c].found # 0 =>
            held[c].found \in Created /\ inquiry[held[c].found].visitor = held[c].visitor

\* A click of a visitor alone: what it read of the visitor's leads still holds.
AloneKnows ==
    \A c \in ClickIds :
      held[c].pc = "found" /\ held[c].visitor \notin overlapped \cup {NoVisitor} =>
      /\ \A d \in ClickIds : held[d].visitor = held[c].visitor => d = c
      /\ IF held[c].found = 0
         THEN \A m \in Created : inquiry[m].visitor = held[c].visitor => ~OpenRow(inquiry[m])
         ELSE held[c].trail = inquiry[held[c].found].trail

\* With TrailKept, inductive: the trail that a click read is the one it appends to.
ClicksInv == ClicksTyped /\ Bounded /\ LeadsKept /\ ClicksKept /\ AloneKnows /\ TrailKept

-----------------------------------------------------------------------------
\* The newest elements: their number, their last one, and one more of them.
LEMMA LastOfIs ==
    ASSUME NEW S, NEW s \in Seq(S), NEW n \in Nat \ {0}
    PROVE  /\ LastOf(s, n) \in Seq(S)
           /\ Len(LastOf(s, n)) = IF Len(s) <= n THEN Len(s) ELSE n
           /\ \A i \in 1..Len(LastOf(s, n)) :
                LastOf(s, n)[i] = s[i + Len(s) - Len(LastOf(s, n))]
  <1>1. CASE Len(s) <= n
    BY <1>1 DEF LastOf
  <1>2. CASE Len(s) > n
    <2>1. LastOf(s, n) = SubSeq(s, Len(s) - n + 1, Len(s))
      BY <1>2 DEF LastOf
    <2>2. Len(s) \in Nat /\ Len(s) - n + 1 \in 1..Len(s)
      BY <1>2
    <2> QED BY <1>2, <2>1, <2>2
  <1> QED BY <1>1, <1>2

\* Touches dropped once need not be dropped again.
LEMMA AppendLastOf ==
    ASSUME NEW S, NEW s \in Seq(S), NEW n \in Nat \ {0}, NEW x \in S
    PROVE  LastOf(Append(LastOf(s, n), x), n) = LastOf(Append(s, x), n)
  <1> DEFINE a == LastOf(s, n)
             ax == Append(a, x)
             sx == Append(s, x)
             b == LastOf(ax, n)
             d == LastOf(sx, n)
  <1>1. /\ a \in Seq(S) /\ Len(a) = IF Len(s) <= n THEN Len(s) ELSE n
        /\ \A i \in 1..Len(a) : a[i] = s[i + Len(s) - Len(a)]
    BY LastOfIs
  <1>2. /\ ax \in Seq(S) /\ Len(ax) = Len(a) + 1
        /\ \A i \in 1..(Len(a) + 1) : ax[i] = IF i = Len(a) + 1 THEN x ELSE a[i]
    BY <1>1
  <1>3. /\ sx \in Seq(S) /\ Len(sx) = Len(s) + 1
        /\ \A i \in 1..(Len(s) + 1) : sx[i] = IF i = Len(s) + 1 THEN x ELSE s[i]
    OBVIOUS
  <1> HIDE DEF ax, sx
  <1>4. /\ b \in Seq(S) /\ Len(b) = IF Len(ax) <= n THEN Len(ax) ELSE n
        /\ \A i \in 1..Len(b) : b[i] = ax[i + Len(ax) - Len(b)]
    BY <1>2, LastOfIs
  <1>5. /\ d \in Seq(S) /\ Len(d) = IF Len(sx) <= n THEN Len(sx) ELSE n
        /\ \A i \in 1..Len(d) : d[i] = sx[i + Len(sx) - Len(d)]
    BY <1>3, LastOfIs
  <1> HIDE DEF a, b, d
  <1>6. /\ Len(s) \in Nat /\ Len(a) \in Nat /\ Len(b) \in Nat /\ Len(b) = Len(d)
        /\ Len(b) <= Len(a) + 1 /\ Len(b) <= Len(s) + 1
    BY <1>1, <1>2, <1>3, <1>4, <1>5
  <1>7. ASSUME NEW i \in 1..Len(b) PROVE b[i] = d[i]
    <2>1. b[i] = ax[i + Len(a) + 1 - Len(b)] /\ i + Len(a) + 1 - Len(b) \in 1..(Len(a) + 1)
      <3>1. b[i] = ax[i + (Len(a) + 1) - Len(b)]
        BY <1>2, <1>4
      <3> QED BY <1>6, <3>1
    <2>2. d[i] = sx[i + Len(s) + 1 - Len(b)] /\ i + Len(s) + 1 - Len(b) \in 1..(Len(s) + 1)
      <3>1. i \in 1..Len(d)
        BY <1>6
      <3>2. d[i] = sx[i + (Len(s) + 1) - Len(b)]
        BY <1>3, <1>5, <1>6, <3>1
      <3> QED BY <1>6, <3>2
    <2>3. CASE i = Len(b)
      BY <1>2, <1>3, <1>6, <2>1, <2>2, <2>3
    <2>4. CASE i # Len(b)
      <3>1. b[i] = a[i + Len(a) + 1 - Len(b)] /\ i + Len(a) + 1 - Len(b) \in 1..Len(a)
        BY <1>2, <1>6, <2>1, <2>4
      <3>2. d[i] = s[i + Len(s) + 1 - Len(b)]
        BY <1>3, <1>6, <2>2, <2>4
      <3>3. (i + Len(a) + 1 - Len(b)) + Len(s) - Len(a) = i + Len(s) + 1 - Len(b)
        BY <1>6
      <3> QED BY <1>1, <3>1, <3>2, <3>3
    <2> QED BY <2>3, <2>4
  <1>8. b = d
    <2>1. b \in Seq(S) /\ d \in Seq(S) /\ Len(b) = Len(d)
      BY <1>4, <1>5, <1>6
    <2> QED BY <1>7, <2>1, SeqEqual
  <1> QED BY <1>8 DEF a, b, d, ax, sx

\* The touch appended is the last one kept.
LEMMA TouchLast ==
    ASSUME NEW t \in Seq(ClickIds), NEW c \in ClickIds
    PROVE  /\ AppendTouch(t, c) \in Seq(ClickIds) /\ AppendTouch(t, c) # <<>>
           /\ Len(AppendTouch(t, c)) <= MaxInterestHistory
           /\ AppendTouch(t, c)[Len(AppendTouch(t, c))] = c
  <1> DEFINE s == Append(t, c)
             u == LastOf(s, MaxInterestHistory)
  <1>1. s \in Seq(ClickIds) /\ Len(s) = Len(t) + 1 /\ s[Len(s)] = c /\ Len(t) \in Nat
    OBVIOUS
  <1> HIDE DEF s
  <1>2. /\ u \in Seq(ClickIds)
        /\ Len(u) = IF Len(s) <= MaxInterestHistory THEN Len(s) ELSE MaxInterestHistory
        /\ \A i \in 1..Len(u) : u[i] = s[i + Len(s) - Len(u)]
    BY <1>1, HistoryAssumption, LastOfIs
  <1> HIDE DEF u
  <1>3. Len(u) \in Nat \ {0} /\ Len(u) <= MaxInterestHistory
    BY <1>1, <1>2, HistoryAssumption
  <1>4. u[Len(u)] = s[Len(s)]
    <2>1. Len(u) \in 1..Len(u) /\ Len(u) + Len(s) - Len(u) = Len(s)
      BY <1>1, <1>3
    <2> QED BY <1>2, <2>1
  <1>5. u # <<>>
    BY <1>3
  <1> QED BY <1>1, <1>2, <1>3, <1>4, <1>5 DEF AppendTouch, s, u

\* A newest open lead is found, if there is one.
LEMMA FindOpenIs ==
    ASSUME Bounded, NEW v
    PROVE  IF OpenLeads(v) = {} THEN FindOpen(v) = 0 ELSE FindOpen(v) \in OpenLeads(v)
  <1>1. CASE OpenLeads(v) # {}
    <2>1. PICK n \in Nat : \A l \in OpenLeads(v) : l <= n
      BY DEF Bounded, OpenLeads
    <2> DEFINE below == {n - l : l \in OpenLeads(v)}
    <2>2. OpenLeads(v) \subseteq Nat
      BY LeadIdAssumption DEF OpenLeads, Created
    <2>3. below \subseteq Nat /\ below # {}
      BY <1>1, <2>1, <2>2
    <2>4. PICK x \in below : \A y \in below : <<y, x>> \notin OpToRel(<, Nat)
      BY <2>3, WFMin, NatLessThanWellFounded
    <2>5. PICK l \in OpenLeads(v) : x = n - l
      BY <2>4
    <2>6. ASSUME NEW m \in OpenLeads(v) PROVE m <= l
      <3>1. n - m \in below /\ n - m \in Nat /\ n - l \in Nat
        BY <2>3, <2>5
      <3>2. ~(n - m < n - l)
        BY <2>4, <2>5, <3>1 DEF OpToRel
      <3> QED BY <2>2, <3>2
    <2> QED BY <1>1, <2>6 DEF FindOpen
  <1> QED BY <1>1 DEF FindOpen

LEMMA ClicksStart == ClicksInit => ClicksInv
  <1> SUFFICES ASSUME ClicksInit PROVE ClicksInv
    OBVIOUS
  <1>1. Created = {} /\ \A l \in LeadIds : inquiry[l] = NoInquiry /\ stored[l] = <<>>
    BY DEF ClicksInit, Created
  <1>2. ClicksTyped
    BY DEF ClicksInit, ClicksTyped, LeadRow, ClickRow, NoInquiry, Unmade, LeadStatuses
  <1>3. Bounded
    BY <1>1 DEF Bounded
  <1>4. LeadsKept
    <2>1. NoInquiry.trail = <<>> /\ Len(<<>>) = 0
      BY DEF NoInquiry
    <2> QED BY <1>1, <2>1, HistoryAssumption DEF LeadsKept
  <1>5. ClicksKept /\ AloneKnows
    BY DEF ClicksInit, ClicksKept, AloneKnows, Unmade
  <1>6. TrailKept
    BY <1>1, HistoryAssumption DEF TrailKept, NoInquiry, LastOf
  <1> QED BY <1>2, <1>3, <1>4, <1>5, <1>6 DEF ClicksInv

\* A click looks for a lead.
LEMMA FindStep ==
    ASSUME ClicksInv, NEW c \in ClickIds, NEW v \in Visitors \cup {NoVisitor},
           FindLead(c, v)
    PROVE  ClicksInv'
  <1> DEFINE l == IF v = NoVisitor THEN 0 ELSE FindOpen(v)
             h == [pc |-> "found", visitor |-> v, found |-> l,
                   trail |-> IF l = 0 THEN <<>> ELSE inquiry[l].trail]
  <1>1. /\ held[c].pc = "unmade" /\ held' = [held EXCEPT ![c] = h]
        /\ inquiry' = inquiry /\ stored' = stored /\ Crosses(v)
    BY DEF FindLead
  <1>2. l = 0 \/ (v # NoVisitor /\ l \in OpenLeads(v))
    BY FindOpenIs DEF ClicksInv
  <1>3. l = 0 /\ v # NoVisitor =>
          \A m \in Created : inquiry[m].visitor = v => ~OpenRow(inquiry[m])
    <2>1. l \in OpenLeads(v) => l # 0
      BY LeadIdAssumption DEF OpenLeads, Created
    <2>2. l = 0 /\ v # NoVisitor => OpenLeads(v) = {}
      BY <2>1, FindOpenIs DEF ClicksInv
    <2> QED BY <2>2 DEF OpenLeads, OpenRow
  <1>4. l # 0 => l \in Created /\ l \in LeadIds /\ inquiry[l].visitor = v
    BY <1>2 DEF OpenLeads, Created
  <1> HIDE DEF l
  <1>5. /\ h.pc = "found" /\ h.visitor = v /\ h.found = l
        /\ l # 0 => h.trail = inquiry[l].trail
        /\ h \in ClickRow
    <2>1. (IF l = 0 THEN <<>> ELSE inquiry[l].trail) \in Seq(ClickIds)
      BY <1>4 DEF ClicksInv, ClicksTyped, LeadRow
    <2>2. l \in LeadIds \cup {0}
      BY <1>4
    <2> QED BY <2>1, <2>2 DEF ClickRow
  <1> HIDE DEF h
  <1>6. Created' = Created
    BY <1>1 DEF Created
  <1>7. /\ NoVisitor \notin overlapped' /\ overlapped \subseteq overlapped'
        /\ v # NoVisitor /\ InFlight(v) => v \in overlapped'
    BY <1>1 DEF Crosses, ClicksInv, ClicksTyped
  <1>8. /\ held \in [ClickIds -> ClickRow]
        /\ \A d \in ClickIds : held'[d] = IF d = c THEN h ELSE held[d]
    BY <1>1 DEF ClicksInv, ClicksTyped
  <1>9. ClicksTyped' /\ Bounded' /\ LeadsKept'
    BY <1>1, <1>5, <1>6, <1>7, <1>8 DEF ClicksInv, ClicksTyped, Bounded, LeadsKept
  <1>10. ClicksKept'
    BY <1>1, <1>2, <1>4, <1>5, <1>6, <1>8 DEF ClicksInv, ClicksKept
  <1>11. TrailKept'
    BY <1>1, <1>7 DEF ClicksInv, TrailKept
  <1>12. AloneKnows'
    <2> SUFFICES ASSUME NEW e \in ClickIds, held'[e].pc = "found",
                        held'[e].visitor \notin overlapped' \cup {NoVisitor}
                 PROVE  /\ \A d \in ClickIds : held'[d].visitor = held'[e].visitor => d = e
                        /\ IF held'[e].found = 0
                           THEN \A m \in Created' :
                                  inquiry'[m].visitor = held'[e].visitor => ~OpenRow(inquiry'[m])
                           ELSE held'[e].trail = inquiry'[held'[e].found].trail
      BY <1>1 DEF AloneKnows
    <2>1. CASE e = c
      <3>1. held'[e].visitor = v /\ v # NoVisitor /\ ~InFlight(v) /\ held'[e].found = l
        BY <1>5, <1>7, <1>8, <2>1
      <3>2. \A d \in ClickIds \ {c} : held[d].visitor # v
        BY <3>1 DEF InFlight, ClicksInv, ClicksKept
      <3> QED BY <1>1, <1>3, <1>5, <1>6, <1>8, <2>1, <3>1, <3>2
    <2>2. CASE e # c
      <3>1. held'[e] = held[e] /\ held[e].visitor \notin overlapped \cup {NoVisitor}
        BY <1>7, <1>8, <2>2
      <3>2. held[e].visitor # v
        BY <1>7, <1>8, <2>2, <3>1 DEF InFlight
      <3> QED BY <1>1, <1>5, <1>6, <1>8, <2>2, <3>1, <3>2 DEF ClicksInv, AloneKnows
    <2> QED BY <2>1, <2>2
  <1> QED BY <1>9, <1>10, <1>11, <1>12 DEF ClicksInv

\* A click is answered with a lead: what becomes of the lead decides the rest.
LEMMA AnswerStep ==
    ASSUME ClicksInv, NEW c \in ClickIds, NEW l \in LeadIds, NEW row \in LeadRow,
           held[c].pc = "found", Answer(c, l), inquiry' = [inquiry EXCEPT ![l] = row],
           row.visitor = held[c].visitor,
           IF l \in Created
           THEN /\ inquiry[l].visitor = row.visitor /\ row.visitor # NoVisitor
                /\ row.status = inquiry[l].status
           ELSE inquiry[l].trail = <<>>,
           \E t \in Seq(ClickIds) : /\ row.trail = AppendTouch(t, c)
                                    /\ row.visitor \notin overlapped => t = inquiry[l].trail
    PROVE  ClicksInv'
  <1>1. /\ \A m \in LeadIds : inquiry'[m] = IF m = l THEN row ELSE inquiry[m]
        /\ \A m \in LeadIds : stored'[m] = IF m = l THEN Append(stored[l], c) ELSE stored[m]
        /\ overlapped' = overlapped
        /\ \A d \in ClickIds : held'[d] = IF d = c THEN [Unmade EXCEPT !.pc = "done"] ELSE held[d]
    BY DEF ClicksInv, ClicksTyped, Answer
  <1>2. Created' = Created \cup {l}
    <2>1. stored[l] \in Seq(ClickIds)
      BY DEF ClicksInv, ClicksTyped
    <2>2. Append(stored[l], c) # <<>>
      BY <2>1
    <2> QED BY <1>1, <2>2 DEF Created
  <1>3. ClicksTyped'
    <2>1. [Unmade EXCEPT !.pc = "done"]
            = [pc |-> "done", visitor |-> NoVisitor, found |-> 0, trail |-> <<>>]
      BY DEF Unmade
    <2>2. <<>> \in Seq(ClickIds)
      OBVIOUS
    <2>3. [Unmade EXCEPT !.pc = "done"] \in ClickRow
      BY <2>1, <2>2 DEF ClickRow
    <2> QED BY <2>3 DEF ClicksInv, ClicksTyped, Answer
  <1>4. Bounded'
    <2>1. PICK n \in Nat : \A m \in Created : m <= n
      BY DEF ClicksInv, Bounded
    <2>2. Created \subseteq Nat /\ l \in Nat
      BY LeadIdAssumption DEF Created
    <2>3. ASSUME NEW m \in Created' PROVE m <= n + l
      <3>1. (m \in Created /\ m \in Nat /\ m <= n) \/ m = l
        BY <1>2, <2>1, <2>2
      <3> QED BY <2>2, <3>1
    <2> QED BY <2>2, <2>3 DEF Bounded
  <1>5. PICK t \in Seq(ClickIds) : /\ row.trail = AppendTouch(t, c)
                                   /\ row.visitor \notin overlapped => t = inquiry[l].trail
    OBVIOUS
  <1>6. LeadsKept'
    <2>1. /\ row.trail # <<>> /\ Len(row.trail) <= MaxInterestHistory
          /\ row.trail[Len(row.trail)] = c
      BY <1>5, TouchLast
    <2>2. stored[l] \in Seq(ClickIds)
      BY DEF ClicksInv, ClicksTyped
    <2>3. stored'[l][Len(stored'[l])] = c
      <3>1. \A s \in Seq(ClickIds) : Append(s, c)[Len(Append(s, c))] = c
        OBVIOUS
      <3> QED BY <1>1, <2>2, <3>1
    <2>4. /\ inquiry'[l] = row
          /\ \A m \in LeadIds \ {l} : inquiry'[m] = inquiry[m] /\ stored'[m] = stored[m]
      BY <1>1
    <2> QED BY <1>2, <2>1, <2>3, <2>4 DEF ClicksInv, LeadsKept
  <1>7. ClicksKept'
    <2>1. \A d \in ClickIds : held[d].found # 0 => inquiry'[held[d].found].visitor = held[d].visitor
      BY <1>1 DEF ClicksInv, ClicksKept, Created
    <2> QED BY <1>1, <1>2, <2>1 DEF ClicksInv, ClicksKept, Unmade
  <1>8. TrailKept'
    <2>1. CASE row.visitor \in overlapped
      BY <1>1, <2>1 DEF ClicksInv, TrailKept
    <2>2. CASE row.visitor \notin overlapped
      <3>1. inquiry[l].trail = LastOf(stored[l], MaxInterestHistory)
        <4>1. CASE l \in Created
          BY <2>2, <4>1 DEF ClicksInv, TrailKept
        <4>2. CASE l \notin Created
          BY <4>2, HistoryAssumption DEF Created, LastOf
        <4> QED BY <4>1, <4>2
      <3>2. stored[l] \in Seq(ClickIds)
        BY DEF ClicksInv, ClicksTyped
      <3>3. row.trail = LastOf(Append(stored[l], c), MaxInterestHistory)
        <4>1. t = LastOf(stored[l], MaxInterestHistory)
          BY <1>5, <2>2, <3>1
        <4>2. LastOf(Append(t, c), MaxInterestHistory)
                = LastOf(Append(stored[l], c), MaxInterestHistory)
          BY <3>2, <4>1, HistoryAssumption, AppendLastOf
        <4> QED BY <1>5, <4>2 DEF AppendTouch
      <3> QED BY <1>1, <3>3 DEF ClicksInv, TrailKept
    <2> QED BY <2>1, <2>2
  <1>9. AloneKnows'
    <2> SUFFICES ASSUME NEW e \in ClickIds, held'[e].pc = "found",
                        held'[e].visitor \notin overlapped' \cup {NoVisitor}
                 PROVE  /\ \A d \in ClickIds : held'[d].visitor = held'[e].visitor => d = e
                        /\ IF held'[e].found = 0
                           THEN \A m \in Created' :
                                  inquiry'[m].visitor = held'[e].visitor => ~OpenRow(inquiry'[m])
                           ELSE held'[e].trail = inquiry'[held'[e].found].trail
      BY DEF AloneKnows
    <2>1. e # c /\ held'[e] = held[e]
      BY <1>1 DEF Unmade
    <2>2. \A d \in ClickIds : held[d].visitor = held[e].visitor => d = e
      BY <1>1, <2>1 DEF ClicksInv, AloneKnows
    <2>3. held[e].visitor # row.visitor
      BY <2>1, <2>2
    <2>4. \A d \in ClickIds : held'[d].visitor = held'[e].visitor => d = e
      BY <1>1, <2>1, <2>2 DEF Unmade
    <2>5. CASE held[e].found = 0
      <3>1. \A m \in Created : inquiry[m].visitor = held[e].visitor => ~OpenRow(inquiry[m])
        BY <1>1, <2>1, <2>5 DEF ClicksInv, AloneKnows
      <3>2. \A m \in Created' : inquiry'[m].visitor = held[e].visitor => ~OpenRow(inquiry'[m])
        BY <1>1, <1>2, <2>3, <3>1 DEF Created
      <3> QED BY <2>1, <2>4, <2>5, <3>2
    <2>6. CASE held[e].found # 0
      <3>1. /\ held[e].trail = inquiry[held[e].found].trail
            /\ inquiry[held[e].found].visitor = held[e].visitor /\ held[e].found \in Created
        BY <1>1, <2>1, <2>6 DEF ClicksInv, AloneKnows, ClicksKept
      <3>2. held[e].found # l
        BY <2>3, <3>1
      <3> QED BY <1>1, <2>1, <2>4, <2>6, <3>1, <3>2 DEF Created
    <2> QED BY <2>5, <2>6
  <1> QED BY <1>3, <1>4, <1>6, <1>7, <1>8, <1>9 DEF ClicksInv

\* A dropped click holds nothing any more.
LEMMA DropStep ==
    ASSUME ClicksInv, NEW c \in ClickIds, LoseClick(c)
    PROVE  ClicksInv'
  <1>1. /\ inquiry' = inquiry /\ stored' = stored /\ overlapped' = overlapped
        /\ Created' = Created
        /\ \A d \in ClickIds : held'[d] = IF d = c THEN Unmade ELSE held[d]
    BY DEF ClicksInv, ClicksTyped, LoseClick, Created
  <1>2. ClicksTyped'
    <2>1. <<>> \in Seq(ClickIds)
      OBVIOUS
    <2>2. Unmade \in ClickRow
      BY <2>1 DEF Unmade, ClickRow
    <2> QED BY <1>1, <2>2 DEF ClicksInv, ClicksTyped, LoseClick
  <1>3. Bounded' /\ LeadsKept' /\ TrailKept'
    BY <1>1 DEF ClicksInv, Bounded, LeadsKept, TrailKept
  <1>4. ClicksKept'
    BY <1>1 DEF ClicksInv, ClicksKept, Unmade
  <1>5. AloneKnows'
    <2>1. Unmade.pc # "found" /\ Unmade.visitor = NoVisitor
      BY DEF Unmade
    <2> QED BY <1>1, <2>1 DEF ClicksInv, AloneKnows
  <1> QED BY <1>2, <1>3, <1>4, <1>5 DEF ClicksInv

\* Staff reopen or close a lead: its visitor is alone no more if in flight.
LEMMA FollowStep ==
    ASSUME ClicksInv, NEW l \in LeadIds, NEW status \in LeadStatuses,
           SetStatus(l, status)
    PROVE  ClicksInv'
  <1>1. /\ held' = held /\ stored' = stored /\ Created' = Created /\ l \in Created
        /\ \A m \in LeadIds : /\ inquiry'[m].visitor = inquiry[m].visitor
                              /\ inquiry'[m].trail = inquiry[m].trail
                              /\ m # l => inquiry'[m] = inquiry[m]
    BY DEF ClicksInv, ClicksTyped, SetStatus, Created, LeadRow
  <1>2. /\ NoVisitor \notin overlapped' /\ overlapped \subseteq overlapped'
        /\ inquiry[l].visitor # NoVisitor /\ InFlight(inquiry[l].visitor)
              => inquiry[l].visitor \in overlapped'
    BY DEF SetStatus, Crosses, ClicksInv, ClicksTyped
  <1>3. ClicksTyped'
    BY <1>1, <1>2 DEF ClicksInv, ClicksTyped, SetStatus, LeadRow
  <1>4. Bounded' /\ LeadsKept'
    BY <1>1 DEF ClicksInv, Bounded, LeadsKept, Created
  <1>5. ClicksKept'
    BY <1>1 DEF ClicksInv, ClicksKept, Created
  <1>6. TrailKept'
    BY <1>1, <1>2 DEF ClicksInv, TrailKept
  <1>7. AloneKnows'
    <2> SUFFICES ASSUME NEW e \in ClickIds, held[e].pc = "found",
                        held[e].visitor \notin overlapped' \cup {NoVisitor}
                 PROVE  /\ \A d \in ClickIds : held[d].visitor = held[e].visitor => d = e
                        /\ IF held[e].found = 0
                           THEN \A m \in Created' :
                                  inquiry'[m].visitor = held[e].visitor => ~OpenRow(inquiry'[m])
                           ELSE held[e].trail = inquiry'[held[e].found].trail
      BY <1>1 DEF AloneKnows
    <2>1. held[e].visitor # inquiry[l].visitor
      BY <1>2 DEF InFlight
    <2>2. /\ \A d \in ClickIds : held[d].visitor = held[e].visitor => d = e
          /\ IF held[e].found = 0
             THEN \A m \in Created : inquiry[m].visitor = held[e].visitor => ~OpenRow(inquiry[m])
             ELSE held[e].trail = inquiry[held[e].found].trail
      BY <1>2 DEF ClicksInv, AloneKnows
    <2>3. held[e].found # 0 => held[e].found \in LeadIds
      BY DEF ClicksInv, ClicksKept, Created
    <2>4. \A m \in Created : m \in LeadIds
      BY DEF Created
    <2> QED BY <1>1, <2>1, <2>2, <2>3, <2>4
  <1> QED BY <1>3, <1>4, <1>5, <1>6, <1>7 DEF ClicksInv

\* The click that found a lead alone appends to the trail it still has.
LEMMA RefreshStep ==
    ASSUME ClicksInv, NEW c \in ClickIds, UpdateClickContext(c)
    PROVE  ClicksInv'
  <1> DEFINE l == held[c].found
             row == [inquiry[l] EXCEPT !.trail = AppendTouch(held[c].trail, c)]
  <1>1. /\ held[c].pc = "found" /\ Answer(c, l) /\ l \in Created /\ l \in LeadIds
        /\ inquiry[l].visitor = held[c].visitor /\ held[c].visitor # NoVisitor
        /\ held[c].trail \in Seq(ClickIds) /\ inquiry[l] \in LeadRow
    BY DEF UpdateClickContext, ClicksInv, ClicksTyped, ClicksKept, Created, ClickRow
  <1>2. AppendTouch(held[c].trail, c) \in Seq(ClickIds)
    BY <1>1, TouchLast
  <1>3. /\ row \in LeadRow /\ row.visitor = inquiry[l].visitor /\ row.status = inquiry[l].status
        /\ row.trail = AppendTouch(held[c].trail, c)
    BY <1>1, <1>2 DEF LeadRow
  <1>4. inquiry' = [inquiry EXCEPT ![l] = row]
    BY <1>1 DEF UpdateClickContext, ClicksInv, ClicksTyped
  <1>5. held[c].visitor \notin overlapped => held[c].trail = inquiry[l].trail
    BY <1>1 DEF ClicksInv, AloneKnows, UpdateClickContext
  <1> HIDE DEF l, row
  <1> QED BY <1>1, <1>3, <1>4, <1>5, AnswerStep

\* A new lead takes the least key that is free.
LEMMA CreateStep ==
    ASSUME ClicksInv, NEW c \in ClickIds, CreateLead(c)
    PROVE  ClicksInv'
  <1>1. PICK l \in LeadIds \ Created :
          /\ inquiry' = [inquiry EXCEPT ![l] = [status |-> "new", visitor |-> held[c].visitor,
                                          trail |-> AppendTouch(<<>>, c)]]
          /\ Answer(c, l)
    BY DEF CreateLead
  <1> DEFINE row == [status |-> "new", visitor |-> held[c].visitor,
                     trail |-> AppendTouch(<<>>, c)]
  <1>2. held[c].pc = "found" /\ held[c].visitor \in Visitors \cup {NoVisitor}
    BY DEF CreateLead, ClicksInv, ClicksTyped, ClickRow
  <1>3. <<>> \in Seq(ClickIds) /\ AppendTouch(<<>>, c) \in Seq(ClickIds)
    <2>1. <<>> \in Seq(ClickIds)
      OBVIOUS
    <2> QED BY <2>1, TouchLast
  <1>4. row \in LeadRow /\ row.visitor = held[c].visitor /\ row.trail = AppendTouch(<<>>, c)
    BY <1>2, <1>3 DEF LeadRow, LeadStatuses
  <1>5. inquiry[l].trail = <<>>
    BY <1>1 DEF ClicksInv, LeadsKept, NoInquiry
  <1>6. inquiry' = [inquiry EXCEPT ![l] = row]
    BY <1>1
  <1> HIDE DEF row
  <1> QED BY <1>1, <1>2, <1>3, <1>4, <1>5, <1>6, AnswerStep

LEMMA ClicksKeep == ClicksInv /\ [ClicksNext]_clickVars => ClicksInv'
  <1> SUFFICES ASSUME ClicksInv, [ClicksNext]_clickVars PROVE ClicksInv'
    OBVIOUS
  <1>1. CASE Find
    BY <1>1, FindStep DEF Find
  <1>2. CASE Finish
    BY <1>2, RefreshStep, CreateStep, DropStep DEF Finish
  <1>3. CASE Follow
    BY <1>3, FollowStep DEF Follow
  <1>4. CASE UNCHANGED clickVars
    BY <1>4 DEF clickVars, ClicksInv, ClicksTyped, Bounded, LeadsKept, ClicksKept, AloneKnows,
                TrailKept, Created
  <1> QED BY <1>1, <1>2, <1>3, <1>4 DEF ClicksNext

LEMMA ClicksAlways == ClicksSpec => []ClicksInv
  BY ClicksStart, ClicksKeep, PTL DEF ClicksSpec

\* Leads, clicks and histories stay typed, and no history outgrows its cap.
THEOREM ClicksTypeCorrect == ClicksSpec => []ClicksTypeOK
  <1>1. ClicksInv => ClicksTypeOK
    <2> SUFFICES ASSUME ClicksInv PROVE ClicksTypeOK
      OBVIOUS
    <2>1. ASSUME NEW l \in LeadIds
          PROVE  /\ DOMAIN inquiry[l] = {"status", "visitor", "trail"}
                 /\ inquiry[l].status \in LeadStatuses
                 /\ inquiry[l].visitor \in Visitors \cup {NoVisitor}
                 /\ Len(inquiry[l].trail) <= MaxInterestHistory
                 /\ l \notin Created => inquiry[l] = NoInquiry
      <3>1. inquiry[l] \in LeadRow
        BY DEF ClicksInv, ClicksTyped
      <3> QED BY <3>1 DEF ClicksInv, LeadsKept, LeadRow
    <2>2. ASSUME NEW c \in ClickIds
          PROVE  /\ held[c].pc \in {"unmade", "found", "done"}
                 /\ held[c].found \in Created \cup {0}
      BY DEF ClicksInv, ClicksTyped, ClicksKept, ClickRow
    <2> QED BY <2>1, <2>2 DEF ClicksTypeOK
  <1> QED BY <1>1, ClicksAlways, PTL

\* However late a click writes, the newest touch of its lead is that click.
THEOREM LatestStays == ClicksSpec => []LatestTouchLast
  <1>1. ClicksInv => LatestTouchLast
    BY DEF ClicksInv, LeadsKept, LatestTouchLast, Created
  <1> QED BY <1>1, ClicksAlways, PTL

\* For any cap, the browsing trail of a visitor whose clicks came one after the
\* other survives repeat clicks (domain/types.go:312-313).
THEOREM TrailSurvives == ClicksSpec => []TrailKept
  <1>1. ClicksInv => TrailKept
    BY DEF ClicksInv
  <1> QED BY <1>1, ClicksAlways, PTL

\* One row is created, by a click that found no open lead and whose visitor
\* nobody served since.
LEMMA NoneOpen ==
    ASSUME ClicksInv, ClicksNext, NEW l \in LeadIds,
           stored[l] = <<>>, stored'[l] # <<>>,
           inquiry'[l].visitor \notin overlapped \cup {NoVisitor}
    PROVE  ~HasOpenLead(inquiry'[l].visitor)
  <1>1. PICK c \in ClickIds : UpdateClickContext(c) \/ CreateLead(c)
    BY DEF ClicksNext, Find, Finish, Follow, FindLead, LoseClick, SetStatus
  <1>2. ~UpdateClickContext(c)
    <2> SUFFICES ASSUME UpdateClickContext(c) PROVE FALSE
      OBVIOUS
    <2>1. held[c].found \in Created /\ Answer(c, held[c].found)
      BY DEF UpdateClickContext, ClicksInv, ClicksKept
    <2> QED BY <2>1 DEF Answer, Created, ClicksInv, ClicksTyped
  <1>3. PICK m \in LeadIds \ Created :
          /\ inquiry' = [inquiry EXCEPT ![m] = [status |-> "new", visitor |-> held[c].visitor,
                                          trail |-> AppendTouch(<<>>, c)]]
          /\ Answer(c, m)
    BY <1>1, <1>2 DEF CreateLead
  <1>4. l = m
    BY <1>3 DEF Answer, ClicksInv, ClicksTyped
  <1>5. inquiry'[l].visitor = held[c].visitor
    BY <1>3, <1>4 DEF ClicksInv, ClicksTyped
  <1>6. held[c].pc = "found" /\ held[c].found = 0
    BY <1>1, <1>2 DEF CreateLead
  <1>7. \A k \in Created : inquiry[k].visitor = held[c].visitor => ~OpenRow(inquiry[k])
    BY <1>5, <1>6 DEF ClicksInv, AloneKnows
  <1> QED BY <1>5, <1>7 DEF HasOpenLead, OpenRow

\* A click of such a visitor makes no second open lead
\* (record_contact_click.go:13-17).
THEOREM NoDuplicates == ClicksSpec => NoDuplicateLead
  <1> DEFINE Duplicates ==
        \A l \in LeadIds :
          LET v == inquiry'[l].visitor
          IN  stored[l] = <<>> /\ stored'[l] # <<>> /\ v # NoVisitor /\ v \notin overlapped
                 => ~HasOpenLead(v)
  <1>1. ClicksInv /\ [ClicksNext]_clickVars => [Duplicates]_clickVars
    <2> SUFFICES ASSUME ClicksInv, ClicksNext PROVE Duplicates
      OBVIOUS
    <2> QED BY NoneOpen
  <1> HIDE DEF Duplicates
  <1>2. ClicksSpec => [][Duplicates]_clickVars
    BY <1>1, ClicksAlways, PTL DEF ClicksSpec
  <1> QED BY <1>2 DEF NoDuplicateLead, Duplicates
=============================================================================
