------------------------------ MODULE MetaPoll ------------------------------
(***************************************************************************)
(* How the import of a Meta source keeps its place: a source connected     *)
(* with its history walks the forms one at a time, newest lead first, by a *)
(* cursor; afterwards, or without history, each poll asks for what is newer *)
(* than the watermark.  A walk stops at the cap on leads, in the middle of *)
(* a page if need be, but the cursor it leaves is that of the page's end.  *)
(* Leads arrive at any time, webhooks bring some of them in, single leads  *)
(* fail and a poll may die between two awaits.                             *)
(*                                                                         *)
(* Leads are numbered by the moment they arrive; no two share a moment or  *)
(* the second after one, so that the nudge of the watermark is no part of  *)
(* the model.  What importLead does with a lead is LeadIntake's subject.   *)
(***************************************************************************)
EXTENDS Integers, FiniteSets

CONSTANTS
    Forms,       \* forms of the source
    FirstForm,   \* the first of them in Meta's list
    History,     \* leads there before the source was connected
    Limit,       \* bound on the leads, by number
    Cap,         \* leads a poll fetches at most: LEAD_IMPORT_MAX_ROWS_PER_TICK
    PageSize,    \* leads asked for with a page at most: META_GRAPH_PAGE_SIZE
    MaxPages,    \* pages of a form a poll walks: META_GRAPH_MAX_PAGES_PER_TICK
    Backfill,    \* the source was connected with its history
    MaxMisses    \* bound on failed leads and polls that die

VARIABLES
    form,      \* the form of each lead that has arrived, oldest first
    source,    \* the progress stored on the source
    ledger,    \* leads with a submission row
    poll,      \* what the running poll holds
    whole,     \* Meta gives as many leads as are asked for while it has them
    looked,    \* history: leads a poll or webhook carried to an outcome
    skipped,   \* history: leads cut off a page whose end is stored as read
    misses

vars == <<form, source, ledger, poll, whole, looked, skipped, misses>>

PollAssumption ==
    /\ FirstForm \in Forms /\ IsFiniteSet(Forms)
    /\ History \in Nat /\ Limit \in Nat /\ History <= Limit
    /\ Cap \in Nat \ {0} /\ PageSize \in Nat \ {0} /\ MaxPages \in Nat \ {0}
    /\ Backfill \in BOOLEAN /\ MaxMisses \in Nat

Unset == 0   \* no watermark, no cursor, nothing seen
Leads == 1 .. Limit
Quiet == [stage |-> "idle"]
Arrived == DOMAIN form
NewestOf(S) == IF S = {} THEN Unset ELSE CHOOSE l \in S : \A q \in S : q <= l

Init ==
    /\ form \in [1 .. History -> Forms]
    /\ source = [watermark |-> Unset, complete |-> FALSE, cursor |-> Unset,
                 seen |-> Unset, done |-> {}]
    /\ ledger = {} /\ looked = {} /\ skipped = {}
    /\ poll = Quiet /\ misses = 0
    /\ whole \in BOOLEAN

\* Someone fills in a form.
Arrives(f) ==
    /\ Cardinality(Arrived) < Limit
    /\ form' = [l \in 1 .. Cardinality(Arrived) + 1 |-> IF l \in Arrived THEN form[l] ELSE f]
    /\ UNCHANGED <<source, ledger, poll, whole, looked, skipped, misses>>

\* handleLeadgenEvent, for a lead it can fetch
WebhookImports(l) ==
    /\ l \in Arrived \ ledger
    /\ ledger' = ledger \cup {l} /\ looked' = looked \cup {l}
    /\ UNCHANGED <<form, source, poll, whole, skipped, misses>>

-----------------------------------------------------------------------------
\* resolveMetaBackfillState
Backfilling(src) == Backfill /\ ~src.complete

\* Meta's list of forms has an order, the same in every poll.
FirstOf(S) == IF FirstForm \in S THEN FirstForm ELSE CHOOSE f \in S : TRUE

\* One form at a time while history is read, in Meta's order.
ToWalk(src) == Forms \ src.done
NextForm(src) == IF ToWalk(src) = {} THEN {} ELSE {FirstOf(ToWalk(src))}

\* The limit a walk asks for with each of its pages, from the room it starts with.
PageLimit(room) == IF room < PageSize THEN room ELSE PageSize

\* The poll reads its source and the list of forms.
Starts ==
    /\ poll = Quiet
    /\ poll' = [stage |-> "fetch", src |-> source, leads |-> {}, truncated |-> FALSE,
                forms |-> IF Backfilling(source) THEN NextForm(source) ELSE Forms,
                walking |-> IF Backfilling(source) THEN NextForm(source) ELSE {},
                at |-> IF Backfilling(source) THEN source.cursor ELSE Unset,
                pages |-> 0, limit |-> PageLimit(Cap), cut |-> {}]
    /\ UNCHANGED <<form, source, ledger, whole, looked, skipped, misses>>

\* What Meta has for a form past the place of the walk: everything, or what is
\* newer than the watermark (or the connection, for a source without history).
Since(src) == IF src.watermark # Unset THEN src.watermark ELSE IF Backfill THEN 0 ELSE History
OnOffer(f) ==
    {l \in Arrived : /\ form[l] = f
                     /\ poll.at = Unset \/ l < poll.at
                     /\ Backfilling(poll.src) \/ l > Since(poll.src)}

\* The n newest of a set of leads.
Newest(S, n) == {l \in S : Cardinality({q \in S : q > l}) < n}

\* Where the walk goes on: the end of the page, however much of it was kept.
EndOf(page) == IF page = {} THEN poll.at ELSE CHOOSE l \in page : \A q \in page : l <= q

\* The poll once it has read a page of a form.  The form ends when Meta has no
\* more of it, or at one of the caps, and is truncated in Meta's terms only.
AfterPage(f, page, kept) ==
    LET got == poll.leads \cup kept
        more == page # OnOffer(f)
        over == ~more \/ Cardinality(got) >= Cap \/ poll.pages + 1 >= MaxPages
        cut == poll.cut \cup (page \ kept)
    IN  IF over
        THEN [poll EXCEPT !.leads = got, !.cut = cut, !.forms = @ \ {f},
                          !.truncated = @ \/ more, !.pages = 0,
                          !.at = IF Backfilling(poll.src) THEN EndOf(page) ELSE Unset,
                          !.limit = PageLimit(Cap - Cardinality(got))]
        ELSE [poll EXCEPT !.leads = got, !.cut = cut, !.at = EndOf(page), !.pages = @ + 1]

\* fetchMetaFormLeads, a page at a time: there is a next one exactly when Meta
\* has more leads, and what is over the cap is dropped.
FetchesPage ==
    /\ poll.stage = "fetch" /\ poll.forms # {} /\ Cardinality(poll.leads) < Cap
    /\ \E size \in 1 .. poll.limit :
           /\ whole => size = poll.limit
           /\ LET f == FirstOf(poll.forms)
                  page == Newest(OnOffer(f), size)
              IN  poll' = AfterPage(f, page, Newest(page, Cap - Cardinality(poll.leads)))
    /\ UNCHANGED <<form, source, ledger, whole, looked, skipped, misses>>

\* The cap is reached with forms still unread.
StopsAtCap ==
    /\ poll.stage = "fetch" /\ poll.forms # {} /\ Cardinality(poll.leads) >= Cap
    /\ poll' = [poll EXCEPT !.forms = {}, !.truncated = TRUE]
    /\ UNCHANGED <<form, source, ledger, whole, looked, skipped, misses>>

\* importLeads: those without a row; one that fails does not stop the others.
Imports ==
    /\ poll.stage = "fetch" /\ poll.forms = {}
    /\ \E failed \in SUBSET (poll.leads \ ledger) :
           /\ misses + Cardinality(failed) <= MaxMisses
           /\ misses' = misses + Cardinality(failed)
           /\ LET done == (poll.leads \ ledger) \ failed
              IN  /\ ledger' = ledger \cup done /\ looked' = looked \cup (poll.leads \ failed)
                  /\ poll' = [stage |-> "record", src |-> poll.src, truncated |-> poll.truncated,
                              at |-> poll.at, walking |-> poll.walking, cut |-> poll.cut,
                              newest |-> NewestOf(done), clean |-> failed = {}]
    /\ UNCHANGED <<form, source, whole, skipped>>

\* Nothing is recorded after a failed lead.
Clean == poll.clean

RecordsNothing ==
    /\ poll.stage = "record" /\ ~Clean
    /\ poll' = Quiet
    /\ UNCHANGED <<form, source, ledger, whole, looked, skipped, misses>>

SeenSoFar == NewestOf({poll.src.seen, poll.newest})

\* Mutant: a walk that was cut short counts as the end of the form.
CutShortIsTheEnd == FALSE

CutShort == poll.truncated

\* advanceBackfill, its first write
RecordsCursor ==
    /\ poll.stage = "record" /\ Clean /\ Backfilling(poll.src) /\ CutShort
    /\ source' = [source EXCEPT !.cursor = poll.at, !.seen = SeenSoFar]
    /\ skipped' = skipped \cup poll.cut
    /\ poll' = Quiet
    /\ UNCHANGED <<form, ledger, whole, looked, misses>>

Finished == poll.src.done \cup poll.walking

RecordsFormDone ==
    /\ poll.stage = "record" /\ Clean /\ Backfilling(poll.src) /\ ~CutShort
    /\ LET complete == Forms \subseteq Finished
       IN  /\ source' = [source EXCEPT !.cursor = Unset, !.complete = @ \/ complete,
                                       !.seen = SeenSoFar, !.done = Finished]
           /\ poll' = IF complete /\ SeenSoFar # Unset
                      THEN [stage |-> "watermark", at |-> SeenSoFar] ELSE Quiet
    /\ skipped' = skipped \cup poll.cut
    /\ UNCHANGED <<form, ledger, whole, looked, misses>>

\* An incremental poll
RecordsNewest ==
    /\ poll.stage = "record" /\ Clean /\ ~Backfilling(poll.src)
    /\ poll' = IF poll.newest = Unset THEN Quiet ELSE [stage |-> "watermark", at |-> poll.newest]
    /\ UNCHANGED <<form, source, ledger, whole, looked, skipped, misses>>

\* recordMetaLeadWatermark only ever moves it forward.
MovesWatermark ==
    /\ poll.stage = "watermark"
    /\ source' = [source EXCEPT !.watermark = NewestOf({@, poll.at})]
    /\ poll' = Quiet
    /\ UNCHANGED <<form, ledger, whole, looked, skipped, misses>>

\* Meta or a write fails, or the process dies.
Dies ==
    /\ poll # Quiet /\ misses < MaxMisses
    /\ misses' = misses + 1 /\ poll' = Quiet
    /\ UNCHANGED <<form, source, ledger, whole, looked, skipped>>

Polls ==
    \/ Starts \/ FetchesPage \/ StopsAtCap \/ Imports \/ RecordsNothing \/ RecordsCursor
    \/ RecordsFormDone \/ RecordsNewest \/ MovesWatermark
Next == \/ Polls \/ Dies
        \/ \E f \in Forms : Arrives(f)
        \/ \E l \in Leads : WebhookImports(l)

Spec == Init /\ [][Next]_vars

\* The runner polls every ten minutes.
FairSpec == Spec /\ WF_vars(Polls)

-----------------------------------------------------------------------------
(* Properties. *)

\* Types of the stored progress and of the running poll.
TypeOK ==
    /\ Arrived = 1 .. Cardinality(Arrived) /\ form \in [Arrived -> Forms]
    /\ source \in [watermark : 0 .. Limit, complete : BOOLEAN, cursor : 0 .. Limit,
                   seen : 0 .. Limit, done : SUBSET Forms]
    /\ ledger \subseteq looked /\ looked \subseteq Arrived
    /\ skipped \subseteq Arrived /\ whole \in BOOLEAN
    /\ poll.stage \in {"idle", "fetch", "record", "watermark"}
    /\ misses \in 0 .. MaxMisses

\* No page is cut: Meta fills them, and they add up to the cap on leads.
PagesFit == whole /\ \E n \in 1 .. Cap : Cap = n * PageLimit(Cap)

\* The leads a walk has been past.
Passed == IF PagesFit THEN looked ELSE looked \cup skipped

\* The promise of HistoryIsRead as far as it goes: by the time the history counts
\* as complete, or a watermark is stored, every lead there was at the connection
\* has been looked at, whatever failed, died or was cut short on the way; if the
\* pages do not fit the cap, all but those cut off in the middle of a page.
HistoryFirst ==
    Backfill /\ (source.complete \/ source.watermark # Unset) => 1 .. History \subseteq Passed

\* A source connected with its history, with leads that no walk has been past.
HistoryUnread == Backfill /\ ~(1 .. History \subseteq Passed)

-----------------------------------------------------------------------------
(* What comments say of the poll and the code does not do. *)

\* "The forward watermark is not touched while history remains": by then every
\* lead there was at the connection has been looked at.
HistoryIsRead ==
    Backfill /\ source.watermark # Unset => 1 .. History \subseteq looked

\* "Treated as truncated so the watermark is withheld": no lead is overtaken by
\* the watermark before it was looked at.
NothingOvertaken ==
    \A l \in Arrived : ~Backfill /\ History < l /\ l <= source.watermark => l \in looked
=============================================================================
