------------------------- MODULE LeadServicesProofs -------------------------
(***************************************************************************)
(* The inductive invariants of the background services that work on leads: *)
(* the import from Meta, what an import does about its lead, the chase of  *)
(* calls, the calls to the owner and the hint of the next follow-up.       *)
(* Each has its XStarts, XStep and XPromises: the invariant holds at the   *)
(* start, every step of the service keeps it, and it gives the types and   *)
(* the property.  BackgroundProofs draws the theorems from them.           *)
(***************************************************************************)
EXTENDS Background, FiniteSetTheorems, WellFoundedInduction, TLAPS

\* A set of numbers has a least one.
LEMMA LeastOf ==
    ASSUME NEW S \in SUBSET Nat, S # {}
    PROVE  \E x \in S : \A y \in S : x <= y
<1> DEFINE R == OpToRel(<, Nat)
<1>1. IsWellFoundedOn(R, Nat) BY NatLessThanWellFounded
<1>2. \A x, y \in Nat : <<x, y>> \in R <=> x < y BY DEF OpToRel
<1> HIDE DEF R
<1>3. PICK x \in S : \A y \in S : <<y, x>> \notin R BY <1>1, WFMin
<1>4. ASSUME NEW y \in S PROVE x <= y
  <2>1. x \in Nat /\ y \in Nat OBVIOUS
  <2>2. ~(y < x) BY <1>2, <1>3, <2>1
  <2> QED BY <2>1, <2>2
<1> QED BY <1>3, <1>4

\* A bounded one has a greatest.
LEMMA GreatestOf ==
    ASSUME NEW n \in Nat, NEW S \in SUBSET (0 .. n), S # {}
    PROVE  \E x \in S : \A y \in S : y <= x
<1> DEFINE T == {y \in 0 .. n : n - y \in S}
<1>1. T \in SUBSET Nat OBVIOUS
<1>2. T # {}
  <2>1. PICK y \in S : TRUE OBVIOUS
  <2>2. n - y \in 0 .. n /\ n - (n - y) = y OBVIOUS
  <2> QED BY <2>1, <2>2
<1> HIDE DEF T
<1>3. PICK t \in T : \A u \in T : t <= u BY <1>1, <1>2, LeastOf
<1> USE DEF T
<1>4. n - t \in S /\ t \in 0 .. n OBVIOUS
<1>5. ASSUME NEW y \in S PROVE y <= n - t
  <2>1. y \in 0 .. n OBVIOUS
  <2>2. n - y \in 0 .. n /\ n - (n - y) = y BY <2>1
  <2>3. n - y \in T BY <2>2
  <2>4. t <= n - y BY <1>3, <2>3
  <2> QED BY <1>4, <2>1, <2>4
<1> QED BY <1>4, <1>5

-----------------------------------------------------------------------------
(* MetaPoll. *)

\* The module's own finite sets are these.
LEMMA PollCardinality == \A S : MP!Cardinality(S) = Cardinality(S)
  BY DEF MP!Cardinality, Cardinality

Progress ==
    [watermark : 0 .. Limit, complete : BOOLEAN, cursor : 0 .. Limit,
     seen : 0 .. Limit, done : SUBSET Forms]
Fetching ==
    [stage : {"fetch"}, src : Progress, leads : SUBSET MP!Leads, truncated : BOOLEAN,
     forms : SUBSET Forms, walking : SUBSET Forms, at : 0 .. Limit,
     pages : Nat, limit : Int, cut : SUBSET MP!Leads]
TakingLeads ==
    [stage : {"record"}, src : Progress, truncated : BOOLEAN, at : 0 .. Limit,
     walking : SUBSET Forms, cut : SUBSET MP!Leads, newest : 0 .. Limit, clean : BOOLEAN]
Marking == [stage : {"watermark"}, at : 0 .. Limit]
Historic == 1 .. History
Seen == looked \cup skipped

PollTypes ==
    /\ MP!Arrived = 1 .. Cardinality(MP!Arrived) /\ form \in [MP!Arrived -> Forms]
    /\ Cardinality(MP!Arrived) \in History .. Limit
    /\ source \in Progress
    /\ ledger \subseteq looked /\ looked \subseteq MP!Arrived
    /\ skipped \subseteq MP!Arrived /\ whole \in BOOLEAN
    /\ poll \in {MP!Quiet} \cup Fetching \cup TakingLeads \cup Marking
    /\ poll.stage = "fetch" => poll.leads \subseteq MP!Arrived
    /\ poll.stage \in {"fetch", "record"} => poll.cut \subseteq MP!Arrived
    /\ misses \in 0 .. MaxMisses

\* What the source says was passed of its history: the forms it is done with, and
\* the leads of the form being walked from the cursor on.
ReadSoFar ==
    \A l \in Historic :
        /\ form[l] \in source.done => l \in Seen
        /\ form[l] \in MP!NextForm(source) /\ source.cursor # 0 /\ source.cursor <= l
             => l \in Seen

\* The leads of the walk's form that its poll is to read.
Ahead(l) == form[l] \in poll.walking /\ (source.cursor = 0 \/ l < source.cursor)

\* The leads past the place of the walk.
Older(l) == poll.at = 0 \/ l < poll.at

\* A walk of the history has fetched, or cut off, all it has been past, and
\* nothing that is still past its place.
WalkInv ==
    /\ poll.walking = MP!NextForm(source)
    /\ poll.stage = "fetch" =>
           /\ poll.forms \subseteq poll.walking
           /\ \A l \in poll.leads : ~Older(l)
           /\ \A l \in Historic : Ahead(l) =>
                  \/ l \in poll.leads \cup poll.cut
                  \/ (poll.forms # {} \/ poll.truncated) /\ Older(l)
    /\ poll.stage = "record" /\ poll.clean =>
           \A l \in Historic : Ahead(l) =>
               l \in looked \cup poll.cut \/ (poll.truncated /\ Older(l))

\* Where pages fit the cap, a walk holds a whole number of them, so that the next
\* one fits too and nothing is ever cut off.
FitInv ==
    MP!PagesFit =>
        /\ skipped = {}
        /\ MP!Backfilling(source) =>
               /\ poll.stage \in {"fetch", "record"} => poll.cut = {}
               /\ poll.stage = "fetch" /\ poll.forms # {} =>
                      /\ poll.limit = MP!PageLimit(Cap)
                      /\ \E k \in Nat : Cardinality(poll.leads) = k * MP!PageLimit(Cap)

PollInv ==
    /\ PollTypes
    /\ poll.stage \in {"fetch", "record"} => poll.src = source
    /\ Backfill => /\ ReadSoFar
                   /\ source.complete => Historic \subseteq Seen
                   /\ source.watermark # 0 => source.complete
                   /\ poll.stage = "watermark" => source.complete
    /\ MP!Backfilling(source) /\ poll.stage \in {"fetch", "record"} => WalkInv
    /\ FitInv

LEMMA HistoricArrived ==
    ASSUME PollTypes, MP!PollAssumption
    PROVE  Historic \subseteq MP!Arrived /\ MP!Arrived \subseteq MP!Leads
           /\ IsFiniteSet(MP!Arrived) /\ MP!Arrived \subseteq 0 .. Limit
<1>1. Cardinality(MP!Arrived) \in Int /\ 1 \in Int
  BY DEF PollTypes, MP!PollAssumption
<1>2. IsFiniteSet(1 .. Cardinality(MP!Arrived)) BY <1>1, FS_Interval
<1>3. \A l \in 1 .. Cardinality(MP!Arrived) : l \in MP!Leads /\ l \in 0 .. Limit
  BY DEF PollTypes, MP!PollAssumption, MP!Leads
<1>4. \A l \in Historic : l \in 1 .. Cardinality(MP!Arrived)
  BY DEF PollTypes, MP!PollAssumption, Historic
<1> QED BY <1>2, <1>3, <1>4 DEF PollTypes

LEMMA PollStarts == MP!Init /\ MP!PollAssumption => PollInv
<1> SUFFICES ASSUME MP!Init, MP!PollAssumption PROVE PollInv OBVIOUS
<1>1. MP!Arrived = 1 .. History BY DEF MP!Init, MP!Arrived
<1>2. History \in Int /\ 1 \in Int BY DEF MP!PollAssumption
<1>3. Cardinality(1 .. History) = History BY <1>2, FS_Interval DEF MP!PollAssumption
<1>4. PollTypes
  BY <1>1, <1>3 DEF MP!Init, MP!PollAssumption, PollTypes, Progress, MP!Unset, MP!Quiet
<1> QED BY <1>4 DEF MP!Init, PollInv, ReadSoFar, FitInv, MP!Quiet, MP!Unset

LEMMA PollPromises == PollInv => MP!TypeOK /\ MP!HistoryFirst
<1> SUFFICES ASSUME PollInv PROVE MP!TypeOK /\ MP!HistoryFirst OBVIOUS
<1>1. MP!TypeOK
  BY PollCardinality DEF PollInv, PollTypes, MP!TypeOK, Progress, Fetching, TakingLeads, Marking, MP!Quiet
<1>2. MP!HistoryFirst
  BY DEF PollInv, FitInv, Seen, MP!HistoryFirst, MP!Passed, Historic, MP!Unset
<1> QED BY <1>1, <1>2

LEMMA NewestType ==
    ASSUME MP!PollAssumption, NEW S \in SUBSET (0 .. Limit)
    PROVE  MP!NewestOf(S) \in 0 .. Limit
<1>1. CASE S = {} BY <1>1 DEF MP!NewestOf, MP!Unset, MP!PollAssumption
<1>2. CASE S # {}
  <2>1. \E l \in S : \A q \in S : q <= l BY <1>2, GreatestOf DEF MP!PollAssumption
  <2> QED BY <1>2, <2>1 DEF MP!NewestOf
<1> QED BY <1>1, <1>2

LEMMA FirstOfIs ==
    ASSUME NEW S, S # {}
    PROVE  MP!FirstOf(S) \in S
  BY DEF MP!FirstOf

LEMMA NextFormIs ==
    ASSUME MP!PollAssumption, NEW src
    PROVE  /\ MP!NextForm(src) \in SUBSET Forms
           /\ \A f, g \in MP!NextForm(src) : f = g
<1>1. MP!ToWalk(src) \subseteq Forms BY DEF MP!ToWalk
<1> QED BY <1>1, FirstOfIs DEF MP!NextForm

\* The n newest of a set are above the others, at most n, and n unless they are
\* the whole set.
LEMMA NewestIs ==
    ASSUME NEW top \in Nat, NEW S \in SUBSET (0 .. top), IsFiniteSet(S), NEW n \in Nat \ {0}
    PROVE  LET N == MP!Newest(S, n)
           IN  /\ N \subseteq S /\ IsFiniteSet(N) /\ Cardinality(N) \in Nat
               /\ \A l \in S \ N : \A p \in N : l < p
               /\ Cardinality(N) <= n /\ (N # S => N # {} /\ Cardinality(N) = n)
               /\ Cardinality(S) <= n => N = S
<1> DEFINE N == MP!Newest(S, n)
           Above(l) == {q \in S : q > l}
<1>1. N = {l \in S : Cardinality(Above(l)) < n} BY PollCardinality DEF MP!Newest
<1> HIDE DEF N
<1>2. \A l \in S : l \in Int OBVIOUS
<1>3. N \subseteq S /\ IsFiniteSet(N) /\ Cardinality(N) \in Nat
  BY <1>1, FS_Subset, FS_CardinalityType
<1>4. \A l \in S : IsFiniteSet(Above(l)) /\ Cardinality(Above(l)) \in Nat
  BY FS_Subset, FS_CardinalityType
<1>5. ASSUME NEW l \in S \ N, NEW p \in N PROVE l < p
  <2>1. l \in S /\ p \in S /\ l \in Int /\ p \in Int BY <1>2, <1>3
  <2>2. SUFFICES ASSUME l >= p PROVE FALSE BY <2>1
  <2>3. Above(l) \subseteq Above(p)
    <3> SUFFICES ASSUME NEW q \in S, q > l PROVE q > p OBVIOUS
    <3> QED BY <1>2, <2>1, <2>2
  <2>4. Cardinality(Above(l)) <= Cardinality(Above(p)) BY <1>4, <2>1, <2>3, FS_Subset
  <2>5. Cardinality(Above(p)) < n /\ ~(Cardinality(Above(l)) < n) BY <1>1
  <2> QED BY <1>4, <2>1, <2>4, <2>5
<1>6. Cardinality(N) <= n
  <2>0. SUFFICES ASSUME N # {} PROVE Cardinality(N) <= n BY FS_EmptySet
  <2>1. \A l \in N : l \in Nat BY <1>3
  <2>2. PICK m \in N : \A y \in N : m <= y BY <2>0, <2>1, LeastOf
  <2>3. m \in S /\ Cardinality(Above(m)) < n BY <1>1
  <2>4. N \subseteq Above(m) \cup {m}
    <3> SUFFICES ASSUME NEW q \in N, q # m PROVE q > m BY <1>3
    <3> QED BY <2>1, <2>2
  <2>5. m \notin Above(m) BY <1>2, <2>3
  <2>6. IsFiniteSet(Above(m) \cup {m}) /\ Cardinality(Above(m) \cup {m}) = Cardinality(Above(m)) + 1
    BY <1>4, <2>3, <2>5, FS_AddElement
  <2>7. Cardinality(N) <= Cardinality(Above(m) \cup {m}) BY <2>4, <2>6, FS_Subset
  <2> QED BY <1>3, <1>4, <2>3, <2>6, <2>7
<1>7. ASSUME N # S PROVE N # {} /\ Cardinality(N) = n
  <2>1. S \ N # {} /\ S \ N \in SUBSET (0 .. top) BY <1>3, <1>7
  <2>2. PICK g \in S \ N : \A y \in S \ N : y <= g BY <2>1, GreatestOf
  <2>3. Above(g) \subseteq N
    <3> SUFFICES ASSUME NEW q \in S, q > g, q \notin N PROVE FALSE OBVIOUS
    <3> QED BY <1>2, <2>2
  <2>4. Cardinality(Above(g)) <= Cardinality(N) BY <1>3, <2>3, FS_Subset
  <2>5. ~(Cardinality(Above(g)) < n) BY <1>1
  <2>6. Cardinality(N) >= n BY <1>3, <1>4, <2>4, <2>5
  <2>7. N # {} BY <1>3, <2>6, FS_EmptySet
  <2> QED BY <1>3, <1>6, <2>6, <2>7
<1>8. ASSUME Cardinality(S) <= n PROVE N = S
  <2>1. SUFFICES ASSUME NEW l \in S PROVE Cardinality(Above(l)) < n BY <1>1
  <2>2. l \notin Above(l) /\ Above(l) \subseteq S BY <1>2
  <2>3. Cardinality(Above(l)) < Cardinality(S)
    <3>1. Cardinality(S \ {l}) = Cardinality(S) - 1 /\ IsFiniteSet(S \ {l})
      BY <2>1, FS_RemoveElement
    <3>2. Above(l) \subseteq S \ {l} BY <2>2
    <3>3. Cardinality(Above(l)) <= Cardinality(S \ {l}) BY <3>1, <3>2, FS_Subset
    <3>4. Cardinality(S) \in Nat BY FS_CardinalityType
    <3> QED BY <1>4, <2>1, <3>1, <3>3, <3>4
  <2>4. Cardinality(S) \in Nat BY FS_CardinalityType
  <2> QED BY <1>4, <1>8, <2>1, <2>3, <2>4
<1> QED BY <1>3, <1>5, <1>6, <1>7, <1>8 DEF N

\* What one page does: it is the newest end of what is on offer, and the walk
\* goes on below it.
LEMMA PageIs ==
    ASSUME PollTypes, MP!PollAssumption, poll \in Fetching, NEW f \in Forms, NEW size \in Nat \ {0}
    PROVE  LET page == MP!Newest(MP!OnOffer(f), size)
           IN  /\ page \subseteq MP!OnOffer(f) /\ MP!OnOffer(f) \subseteq MP!Arrived
               /\ IsFiniteSet(MP!OnOffer(f)) /\ IsFiniteSet(page) /\ Cardinality(page) \in Nat
               /\ MP!EndOf(page) \in 0 .. Limit
               /\ page = {} => MP!EndOf(page) = poll.at
               /\ page # {} => MP!EndOf(page) \in page /\ \A q \in page : MP!EndOf(page) <= q
               /\ \A l \in MP!OnOffer(f) \ page : page # {} /\ l < MP!EndOf(page)
               /\ Cardinality(page) <= size
               /\ page # MP!OnOffer(f) => Cardinality(page) = size
<1> DEFINE S == MP!OnOffer(f)
           page == MP!Newest(S, size)
<1>1. /\ S \subseteq MP!Arrived /\ MP!Arrived \subseteq 0 .. Limit /\ IsFiniteSet(MP!Arrived)
      /\ Limit \in Nat
  BY HistoricArrived DEF MP!OnOffer, MP!PollAssumption
<1>2. S \in SUBSET (0 .. Limit) /\ IsFiniteSet(S) BY <1>1, FS_Subset
<1>3. poll.at \in 0 .. Limit BY DEF Fetching
<1> HIDE DEF S
<1>4. /\ page \subseteq S /\ IsFiniteSet(page) /\ Cardinality(page) \in Nat
      /\ \A l \in S \ page : \A p \in page : l < p
      /\ Cardinality(page) <= size /\ (page # S => page # {} /\ Cardinality(page) = size)
  BY <1>1, <1>2, NewestIs
<1> HIDE DEF page
<1>5. page # {} => MP!EndOf(page) \in page /\ \A q \in page : MP!EndOf(page) <= q
  <2>1. page \in SUBSET Nat BY <1>1, <1>2, <1>4
  <2>2. page # {} => \E l \in page : \A q \in page : l <= q BY <2>1, LeastOf
  <2> QED BY <2>2 DEF MP!EndOf
<1>6. page = {} => MP!EndOf(page) = poll.at BY DEF MP!EndOf
<1>7. MP!EndOf(page) \in 0 .. Limit BY <1>2, <1>3, <1>4, <1>5, <1>6
<1>8. \A l \in S \ page : page # {} /\ l < MP!EndOf(page) BY <1>4, <1>5
<1> QED BY <1>1, <1>2, <1>4, <1>5, <1>6, <1>7, <1>8 DEF S, page

LEMMA OneMorePage ==
    ASSUME NEW k \in Nat, NEW size \in Nat
    PROVE  (k + 1) * size = k * size + size /\ k + 1 \in Nat
  OBVIOUS

\* A whole number of pages short of another is short of it by a page.
LEMMA WholePages ==
    ASSUME NEW k \in Nat, NEW n \in Nat, NEW size \in Nat, k * size < n * size
    PROVE  size <= n * size - k * size
<1>1. k < n
  <2>1. SUFFICES ASSUME k >= n PROVE FALSE OBVIOUS
  <2>2. (k - n) \in Nat BY <2>1
  <2>3. (k - n) * size \in Nat BY <2>2
  <2>4. (k - n) * size = k * size - n * size OBVIOUS
  <2>5. k * size \in Nat /\ n * size \in Nat OBVIOUS
  <2> QED BY <2>3, <2>4, <2>5
<1>2. (n - k - 1) * size \in Nat
  <2>1. (n - k - 1) \in Nat BY <1>1
  <2> QED BY <2>1
<1>3. (n - k - 1) * size = n * size - k * size - size OBVIOUS
<1>4. k * size \in Nat /\ n * size \in Nat OBVIOUS
<1> QED BY <1>2, <1>3, <1>4

\* More was looked at, more came in, or the poll was left: what holds of the
\* stored progress goes on holding.
LEMMA PollLeft ==
    ASSUME PollInv, MP!PollAssumption, PollTypes', UNCHANGED <<source, form, whole, skipped>>,
           looked \subseteq looked', poll'.stage \notin {"fetch", "record"},
           poll'.stage = "watermark" /\ Backfill => source.complete
    PROVE  PollInv'
<1>1. ReadSoFar => ReadSoFar' BY DEF ReadSoFar, Seen, MP!NextForm, MP!ToWalk
<1>2. FitInv' BY DEF PollInv, FitInv, MP!PagesFit
<1> QED BY <1>1, <1>2 DEF PollInv, Seen

LEMMA QuietType ==
    ASSUME PollTypes, form' = form, source' \in Progress, ledger' \subseteq looked',
           looked' \subseteq MP!Arrived, skipped' \subseteq MP!Arrived, whole' = whole,
           poll' \in {MP!Quiet} \cup Marking, misses' \in 0 .. MaxMisses
    PROVE  PollTypes' /\ poll'.stage \in {"idle", "watermark"}
  BY DEF PollTypes, MP!Arrived, MP!Quiet, Marking

LEMMA PollArrives ==
    ASSUME PollInv, MP!PollAssumption, NEW f \in Forms, MP!Arrives(f)
    PROVE  PollInv'
<1> DEFINE n == Cardinality(MP!Arrived)
<1>1. /\ PollTypes /\ n \in History .. Limit /\ n < Limit
      /\ UNCHANGED <<source, ledger, poll, whole, looked, skipped, misses>>
      /\ form' = [l \in 1 .. n + 1 |-> IF l \in MP!Arrived THEN form[l] ELSE f]
      /\ MP!Arrived = 1 .. n
  BY PollCardinality DEF PollInv, PollTypes, MP!Arrives
<1>2. n \in Nat /\ n + 1 \in History .. Limit BY <1>1 DEF MP!PollAssumption
<1> HIDE DEF n
<1>3. MP!Arrived' = 1 .. n + 1 BY <1>1 DEF MP!Arrived
<1>4. Cardinality(1 .. n + 1) = n + 1 BY <1>2, FS_Interval
<1>5. MP!Arrived \subseteq MP!Arrived' /\ \A l \in MP!Arrived : form'[l] = form[l]
  BY <1>1, <1>2, <1>3
<1>6. form' \in [1 .. n + 1 -> Forms] BY <1>1, <1>2 DEF PollTypes
<1>7. PollTypes' BY <1>1, <1>2, <1>3, <1>4, <1>5, <1>6 DEF PollTypes
<1>8. \A l \in Historic : form'[l] = form[l] BY <1>1, <1>5, HistoricArrived
<1>9. FitInv' BY <1>1 DEF PollInv, FitInv, MP!PagesFit, MP!Backfilling
<1> QED BY <1>1, <1>7, <1>8, <1>9
        DEF PollInv, ReadSoFar, Seen, WalkInv, Ahead, Older, MP!NextForm, MP!ToWalk, MP!Backfilling

LEMMA PollHears ==
    ASSUME PollInv, MP!PollAssumption, NEW l, MP!WebhookImports(l)
    PROVE  PollInv'
<1>1. /\ PollTypes' /\ looked \subseteq looked'
      /\ UNCHANGED <<form, source, poll, whole, skipped, misses>>
  BY DEF PollInv, PollTypes, MP!WebhookImports, MP!Arrived
<1>2. FitInv' BY <1>1 DEF PollInv, FitInv, MP!PagesFit, MP!Backfilling
<1> QED BY <1>1, <1>2
        DEF PollInv, ReadSoFar, Seen, WalkInv, Ahead, Older, MP!NextForm, MP!ToWalk, MP!Backfilling

LEMMA PollBegins ==
    ASSUME PollInv, MP!PollAssumption, MP!Starts
    PROVE  PollInv'
<1> DEFINE p == [stage |-> "fetch", src |-> source, leads |-> {}, truncated |-> FALSE,
                 forms |-> IF MP!Backfilling(source) THEN MP!NextForm(source) ELSE Forms,
                 walking |-> IF MP!Backfilling(source) THEN MP!NextForm(source) ELSE {},
                 at |-> IF MP!Backfilling(source) THEN source.cursor ELSE 0,
                 pages |-> 0, limit |-> MP!PageLimit(Cap), cut |-> {}]
<1>1. poll' = p /\ UNCHANGED <<form, source, ledger, whole, looked, skipped, misses>>
  BY DEF MP!Starts, MP!Unset
<1>2. MP!PageLimit(Cap) \in Int BY DEF MP!PageLimit, MP!PollAssumption
<1>3. /\ p \in Fetching /\ p.stage = "fetch" /\ p.src = source /\ p.leads = {} /\ p.cut = {}
      /\ p.limit = MP!PageLimit(Cap)
      /\ MP!Backfilling(source) =>
             /\ p.forms = p.walking /\ p.walking = MP!NextForm(source) /\ p.at = source.cursor
  BY <1>2, NextFormIs DEF Fetching, PollInv, PollTypes, Progress, MP!PollAssumption
<1> HIDE DEF p
<1>4. PollTypes' BY <1>1, <1>3 DEF PollInv, PollTypes, MP!Arrived
<1>5. MP!Backfilling(source') <=> MP!Backfilling(source) BY <1>1 DEF MP!Backfilling
<1>6. MP!NextForm(source') = MP!NextForm(source) BY <1>1
<1>7. ASSUME MP!Backfilling(source) PROVE WalkInv'
  <2>1. ASSUME NEW l \in Historic, Ahead(l)' PROVE p.forms # {} /\ Older(l)'
    BY <1>1, <1>3, <1>7, <2>1 DEF Ahead, Older
  <2> QED BY <1>1, <1>3, <1>6, <1>7, <2>1 DEF WalkInv
<1>8. FitInv'
  <2>1. Cardinality({}) = 0 * MP!PageLimit(Cap) /\ 0 \in Nat BY <1>2, FS_EmptySet
  <2> QED BY <1>1, <1>3, <2>1 DEF PollInv, FitInv, MP!PagesFit, MP!PageLimit
<1>9. ReadSoFar => ReadSoFar' BY <1>1, <1>6 DEF ReadSoFar, Seen
<1> QED BY <1>1, <1>3, <1>4, <1>5, <1>7, <1>8, <1>9 DEF PollInv, Seen

\* What a step of the walk does to the poll, in terms of its page.
PageRead(f, page, kept) ==
    LET more == page # MP!OnOffer(f)
    IN  /\ poll' \in Fetching /\ poll'.stage = "fetch"
        /\ poll'.src = poll.src /\ poll'.walking = poll.walking
        /\ poll'.leads = poll.leads \cup kept /\ poll'.cut = poll.cut \cup (page \ kept)
        /\ MP!Backfilling(poll.src) => poll'.at = MP!EndOf(page)
        /\ \/ /\ poll'.forms = poll.forms \ {f}
              /\ poll'.truncated <=> poll.truncated \/ more
           \/ /\ more /\ poll'.forms = poll.forms /\ poll'.truncated = poll.truncated
              /\ poll'.limit = poll.limit

LEMMA AfterPageIs ==
    ASSUME PollTypes, MP!PollAssumption, poll \in Fetching, NEW f \in poll.forms,
           NEW page \in SUBSET MP!Arrived, MP!EndOf(page) \in 0 .. Limit,
           NEW kept \in SUBSET page, poll' = MP!AfterPage(f, page, kept)
    PROVE  PageRead(f, page, kept)
<1> DEFINE got == poll.leads \cup kept
           more == page # MP!OnOffer(f)
           over == ~more \/ Cardinality(got) >= Cap \/ poll.pages + 1 >= MaxPages
           cut == poll.cut \cup (page \ kept)
           limit == MP!PageLimit(Cap - Cardinality(got))
<1>1. poll.leads \subseteq MP!Arrived /\ IsFiniteSet(MP!Arrived) /\ MP!Arrived \subseteq MP!Leads
  BY HistoricArrived DEF PollTypes, Fetching
<1>2. IsFiniteSet(got) BY <1>1, FS_Subset
<1>3. Cardinality(got) \in Nat BY <1>2, FS_CardinalityType
<1>4. limit \in Int BY <1>3 DEF MP!PageLimit, MP!PollAssumption
<1>5. got \in SUBSET MP!Leads /\ cut \in SUBSET MP!Leads BY <1>1 DEF Fetching
<1>6. poll' = IF over
              THEN [poll EXCEPT !.leads = got, !.cut = cut, !.forms = @ \ {f},
                                !.truncated = @ \/ more, !.pages = 0,
                                !.at = IF MP!Backfilling(poll.src) THEN MP!EndOf(page) ELSE 0,
                                !.limit = limit]
              ELSE [poll EXCEPT !.leads = got, !.cut = cut, !.at = MP!EndOf(page),
                                !.pages = @ + 1]
  BY PollCardinality DEF MP!AfterPage, MP!Unset
<1>7. over \/ (~over /\ more) OBVIOUS
<1> HIDE DEF got, cut, limit, more, over
<1>8. CASE over
  <2>1. 0 \in 0 .. Limit BY DEF MP!PollAssumption
  <2>2. poll' \in Fetching /\ poll'.stage = "fetch"
    <3> DEFINE rest == poll.forms \ {f}
               short == poll.truncated \/ more
               place == IF MP!Backfilling(poll.src) THEN MP!EndOf(page) ELSE 0
    <3>1. rest \in SUBSET Forms /\ short \in BOOLEAN /\ place \in 0 .. Limit
      BY <2>1 DEF Fetching
    <3> DEFINE read == [poll EXCEPT !.leads = got, !.cut = cut, !.pages = 0]
    <3>2. poll' = [read EXCEPT !.forms = rest, !.truncated = short, !.at = place,
                               !.limit = limit]
      BY <1>6, <1>8 DEF Fetching
    <3> HIDE DEF rest, short, place
    <3>3. read \in Fetching BY <1>5 DEF Fetching
    <3> HIDE DEF read
    <3> QED BY <1>4, <3>1, <3>2, <3>3 DEF Fetching
  <2> QED BY <1>6, <1>8, <2>2 DEF PageRead, Fetching, more, got, cut
<1>9. CASE ~over
  <2>1. poll.pages + 1 \in Nat BY DEF Fetching
  <2>2. poll' \in Fetching /\ poll'.stage = "fetch"
    BY <1>5, <1>6, <1>9, <2>1 DEF Fetching
  <2> QED BY <1>6, <1>7, <1>9, <2>2 DEF PageRead, Fetching, more, got, cut
<1> QED BY <1>8, <1>9

LEMMA FetchesPage ==
    ASSUME PollInv, MP!PollAssumption, MP!FetchesPage
    PROVE  /\ poll.stage = "fetch" /\ poll \in Fetching /\ PollTypes
           /\ UNCHANGED <<form, source, ledger, whole, looked, skipped, misses>>
           /\ Cardinality(poll.leads) \in Nat /\ Cardinality(poll.leads) < Cap
           /\ \E f \in poll.forms, size \in Nat \ {0} :
                  /\ whole => size = poll.limit
                  /\ LET page == MP!Newest(MP!OnOffer(f), size)
                         kept == MP!Newest(page, Cap - Cardinality(poll.leads))
                     IN  kept \subseteq page /\ PageRead(f, page, kept)
<1>1. /\ poll.stage = "fetch" /\ poll.forms # {} /\ Cardinality(poll.leads) < Cap
      /\ UNCHANGED <<form, source, ledger, whole, looked, skipped, misses>>
  BY PollCardinality DEF MP!FetchesPage
<1>2. PollTypes /\ poll \in Fetching
  BY <1>1 DEF PollInv, PollTypes, TakingLeads, Marking, MP!Quiet
<1>3. Cardinality(poll.leads) \in Nat /\ Cap - Cardinality(poll.leads) \in Nat \ {0}
  <2>1. IsFiniteSet(poll.leads) BY <1>1, <1>2, HistoricArrived, FS_Subset DEF PollTypes
  <2>2. Cardinality(poll.leads) \in Nat BY <2>1, FS_CardinalityType
  <2> QED BY <1>1, <2>2 DEF MP!PollAssumption
<1>4. PICK f : f = MP!FirstOf(poll.forms) OBVIOUS
<1>5. f \in poll.forms /\ f \in Forms BY <1>1, <1>2, <1>4, FirstOfIs DEF Fetching
<1>6. PICK room : room = Cap - Cardinality(poll.leads) OBVIOUS
<1>7. PICK size \in 1 .. poll.limit :
        /\ whole => size = poll.limit
        /\ LET page == MP!Newest(MP!OnOffer(f), size)
           IN  poll' = MP!AfterPage(f, page, MP!Newest(page, room))
  BY <1>4, <1>6, PollCardinality DEF MP!FetchesPage
<1>8. size \in Nat \ {0} BY <1>2 DEF Fetching
<1>9. PICK page : page = MP!Newest(MP!OnOffer(f), size) OBVIOUS
<1>10. PICK kept : kept = MP!Newest(page, room) OBVIOUS
<1>11. page \in SUBSET MP!Arrived /\ IsFiniteSet(page) /\ MP!EndOf(page) \in 0 .. Limit
  <2>1. /\ page \subseteq MP!OnOffer(f) /\ MP!OnOffer(f) \subseteq MP!Arrived
        /\ IsFiniteSet(page) /\ MP!EndOf(page) \in 0 .. Limit
    BY <1>2, <1>5, <1>8, <1>9, PageIs
  <2> QED BY <2>1
<1>12. kept \subseteq page
  <2>1. page \in SUBSET (0 .. Limit) /\ Limit \in Nat /\ room \in Nat \ {0}
    BY <1>2, <1>3, <1>6, <1>11, HistoricArrived DEF MP!PollAssumption
  <2> QED BY <1>10, <1>11, <2>1, NewestIs
<1>13. PageRead(f, page, kept)
  BY <1>2, <1>5, <1>7, <1>9, <1>10, <1>11, <1>12, AfterPageIs
<1> QED BY <1>1, <1>2, <1>3, <1>5, <1>6, <1>7, <1>8, <1>9, <1>10, <1>12, <1>13

\* A page of a walk whose pages fit is kept whole, and full unless it is the last.
LEMMA FullPage ==
    ASSUME PollInv, MP!PollAssumption, poll \in Fetching, poll.stage = "fetch", MP!PagesFit,
           MP!Backfilling(source), NEW f \in poll.forms,
           Cardinality(poll.leads) \in Nat, Cardinality(poll.leads) < Cap,
           NEW size \in Nat \ {0}, size = poll.limit
    PROVE  LET page == MP!Newest(MP!OnOffer(f), size)
           IN  /\ MP!Newest(page, Cap - Cardinality(poll.leads)) = page
               /\ page # MP!OnOffer(f) =>
                      \E k \in Nat : Cardinality(poll.leads \cup page) = k * size
<1> DEFINE page == MP!Newest(MP!OnOffer(f), size)
           room == Cap - Cardinality(poll.leads)
<1>1. PollTypes /\ WalkInv /\ poll.src = source BY DEF PollInv
<1>2. size = MP!PageLimit(Cap) /\ \E k \in Nat : Cardinality(poll.leads) = k * size
  BY DEF PollInv, FitInv
<1>3. PICK k \in Nat : Cardinality(poll.leads) = k * size BY <1>2
<1>4. PICK n \in Nat : Cap = n * size BY <1>2 DEF MP!PagesFit, MP!PollAssumption
<1>5. size <= room /\ room \in Nat \ {0}
  <2>1. k * size < n * size BY <1>3, <1>4
  <2>2. size <= n * size - k * size BY <2>1, WholePages
  <2>3. size <= room BY <1>3, <1>4, <2>2
  <2> QED BY <2>3 DEF MP!PollAssumption
<1>6. /\ page \subseteq MP!OnOffer(f) /\ MP!OnOffer(f) \subseteq MP!Arrived
      /\ IsFiniteSet(MP!OnOffer(f)) /\ IsFiniteSet(page) /\ Cardinality(page) \in Nat
      /\ Cardinality(page) <= size /\ (page # MP!OnOffer(f) => Cardinality(page) = size)
  BY <1>1, PageIs DEF Fetching
<1>7. MP!Arrived \subseteq 0 .. Limit /\ Limit \in Nat /\ IsFiniteSet(MP!Arrived)
  BY <1>1, HistoricArrived DEF MP!PollAssumption
<1>8. MP!OnOffer(f) \in SUBSET (0 .. Limit) /\ page \in SUBSET (0 .. Limit) BY <1>6, <1>7
<1>9. Cardinality(page) <= room BY <1>5, <1>6
<1> HIDE DEF room
<1>10. MP!Newest(page, room) = page
  <2> HIDE DEF page
  <2> QED BY <1>5, <1>6, <1>7, <1>8, <1>9, NewestIs
<1>11. ASSUME page # MP!OnOffer(f) PROVE \E j \in Nat : Cardinality(poll.leads \cup page) = j * size
  <2>1. poll.leads \cap page = {}
    <3>1. \A l \in poll.leads : ~Older(l) BY <1>1 DEF WalkInv
    <3>2. \A l \in MP!OnOffer(f) : Older(l) BY DEF MP!OnOffer, MP!Unset, Older
    <3> QED BY <1>6, <3>1, <3>2
  <2>2. IsFiniteSet(poll.leads) BY <1>1, <1>7, FS_Subset DEF PollTypes
  <2> HIDE DEF page
  <2>3. Cardinality(poll.leads \cup page)
          = Cardinality(poll.leads) + Cardinality(page) - Cardinality(poll.leads \cap page)
    BY <1>6, <2>2, FS_Union
  <2>4. Cardinality(poll.leads \cup page) = Cardinality(poll.leads) + size
    <3>1. Cardinality(page) = size BY <1>6, <1>11
    <3>2. Cardinality(poll.leads \cap page) = 0 BY <2>1, FS_EmptySet
    <3> QED BY <2>3, <3>1, <3>2
  <2>5. (k + 1) * size = k * size + size /\ k + 1 \in Nat BY OneMorePage
  <2> QED BY <1>3, <2>4, <2>5
<1> QED BY <1>10, <1>11 DEF room

LEMMA PollFetches ==
    ASSUME PollInv, MP!PollAssumption, MP!FetchesPage
    PROVE  PollInv'
<1>1. /\ poll.stage = "fetch" /\ poll \in Fetching /\ PollTypes
      /\ UNCHANGED <<form, source, ledger, whole, looked, skipped, misses>>
      /\ Cardinality(poll.leads) \in Nat /\ Cardinality(poll.leads) < Cap
  BY FetchesPage
<1>2. PICK f \in poll.forms, size \in Nat \ {0} :
        /\ whole => size = poll.limit
        /\ LET page == MP!Newest(MP!OnOffer(f), size)
               kept == MP!Newest(page, Cap - Cardinality(poll.leads))
           IN  kept \subseteq page /\ PageRead(f, page, kept)
  BY FetchesPage
<1>3. PICK page : page = MP!Newest(MP!OnOffer(f), size) OBVIOUS
<1>4. PICK kept : kept = MP!Newest(page, Cap - Cardinality(poll.leads)) OBVIOUS
<1>5. kept \subseteq page /\ PageRead(f, page, kept) BY <1>2, <1>3, <1>4
<1>6. f \in Forms /\ poll.src = source BY <1>1 DEF Fetching, PollInv
<1>7. /\ page \subseteq MP!OnOffer(f) /\ MP!OnOffer(f) \subseteq MP!Arrived
      /\ IsFiniteSet(page) /\ MP!EndOf(page) \in 0 .. Limit
      /\ page = {} => MP!EndOf(page) = poll.at
      /\ page # {} => MP!EndOf(page) \in page /\ \A q \in page : MP!EndOf(page) <= q
      /\ \A l \in MP!OnOffer(f) \ page : page # {} /\ l < MP!EndOf(page)
  BY <1>1, <1>3, <1>6, PageIs
<1>8. PollTypes'
  BY <1>1, <1>5, <1>7 DEF PageRead, PollTypes, MP!Arrived
<1>9. MP!NextForm(source') = MP!NextForm(source) /\ source' = source BY <1>1
<1>10. ASSUME MP!Backfilling(source) PROVE WalkInv'
  <2>1. /\ poll.walking = MP!NextForm(source) /\ poll.forms \subseteq poll.walking
        /\ \A l \in poll.leads : ~Older(l)
        /\ \A l \in Historic : Ahead(l) =>
               \/ l \in poll.leads \cup poll.cut
               \/ (poll.forms # {} \/ poll.truncated) /\ Older(l)
    <3>1. WalkInv BY <1>1, <1>10 DEF PollInv
    <3> QED BY <1>1, <3>1 DEF WalkInv
  <2>2. \A g \in poll.walking : g = f BY <2>1, NextFormIs
  <2>3. poll'.at = MP!EndOf(page) BY <1>5, <1>6, <1>10 DEF PageRead
  <2>4. \A l \in MP!OnOffer(f) : Older(l) /\ l \in Nat \ {0}
    BY <1>1, <1>7, HistoricArrived DEF MP!OnOffer, MP!Unset, MP!Leads, MP!PollAssumption, Older
  <2>5. ASSUME NEW l \in poll.leads \cup kept PROVE ~Older(l)'
    <3>1. l \in Nat BY <1>1, <1>5, <1>7, <2>4, HistoricArrived DEF PollTypes, MP!Leads, MP!PollAssumption
    <3>2. CASE l \in kept BY <1>5, <1>7, <2>3, <2>4, <3>1, <3>2 DEF Older
    <3>3. CASE l \in poll.leads
      <4>1. poll.at # 0 /\ ~(l < poll.at) BY <2>1, <3>3 DEF Older
      <4>2. CASE page = {} BY <1>7, <2>3, <4>1, <4>2 DEF Older
      <4>3. CASE page # {}
        <5>1. MP!EndOf(page) < poll.at /\ MP!EndOf(page) \in Nat \ {0}
          BY <1>7, <2>4, <4>1, <4>3 DEF Older
        <5>2. poll.at \in Nat BY <1>1 DEF Fetching, MP!PollAssumption
        <5> QED BY <2>3, <3>1, <4>1, <5>1, <5>2 DEF Older
      <4> QED BY <4>2, <4>3
    <3> QED BY <3>2, <3>3
  <2>6. ASSUME NEW l \in Historic, Ahead(l)'
        PROVE  \/ l \in poll'.leads \cup poll'.cut
               \/ (poll'.forms # {} \/ poll'.truncated) /\ Older(l)'
    <3>1. Ahead(l) /\ form[l] = f BY <1>1, <1>5, <2>2, <2>6 DEF Ahead, PageRead
    <3>2. CASE l \in poll.leads \cup poll.cut BY <1>5, <3>2 DEF PageRead
    <3>3. CASE l \notin poll.leads \cup poll.cut
      <4>1. Older(l) BY <2>1, <3>1, <3>3
      <4>2. l \in MP!OnOffer(f)
        BY <1>1, <1>6, <1>10, <3>1, <4>1, HistoricArrived DEF MP!OnOffer, MP!Unset, Older
      <4>3. CASE l \in page BY <1>5, <4>3 DEF PageRead
      <4>4. CASE l \notin page
        <5>1. page # MP!OnOffer(f) /\ l < MP!EndOf(page) BY <1>7, <4>2, <4>4
        <5>2. poll'.truncated \/ poll'.forms # {} BY <1>5, <5>1 DEF PageRead
        <5> QED BY <2>3, <5>1, <5>2 DEF Older
      <4> QED BY <4>3, <4>4
    <3> QED BY <3>2, <3>3
  <2>7. poll'.forms \subseteq poll'.walking /\ poll'.walking = MP!NextForm(source')
        /\ poll'.leads = poll.leads \cup kept /\ poll'.stage = "fetch"
    BY <1>5, <1>9, <2>1 DEF PageRead
  <2> QED BY <2>5, <2>6, <2>7 DEF WalkInv
<1>11. FitInv'
  <2> SUFFICES ASSUME MP!PagesFit' PROVE
          /\ skipped' = {}
          /\ MP!Backfilling(source') =>
               /\ poll'.cut = {}
               /\ poll'.forms # {} =>
                    /\ poll'.limit = MP!PageLimit(Cap)
                    /\ \E k \in Nat : Cardinality(poll'.leads) = k * MP!PageLimit(Cap)
    BY DEF FitInv, MP!PageLimit
  <2>1. MP!PagesFit /\ whole BY <1>1 DEF MP!PagesFit
  <2>2. skipped' = {} BY <1>1, <2>1 DEF PollInv, FitInv
  <2>3. ASSUME MP!Backfilling(source) PROVE
           /\ poll'.cut = {}
           /\ poll'.forms # {} =>
                /\ poll'.limit = MP!PageLimit(Cap)
                /\ \E k \in Nat : Cardinality(poll'.leads) = k * MP!PageLimit(Cap)
    <3>1. size = poll.limit /\ poll.limit = MP!PageLimit(Cap) /\ poll.cut = {}
      BY <1>1, <1>2, <2>1, <2>3 DEF PollInv, FitInv
    <3>2. /\ kept = page
          /\ page # MP!OnOffer(f) => \E k \in Nat : Cardinality(poll.leads \cup page) = k * size
      BY <1>1, <1>3, <1>4, <2>1, <2>3, <3>1, FullPage
    <3>3. poll'.cut = {} /\ poll'.leads = poll.leads \cup page
      BY <1>5, <3>1, <3>2 DEF PageRead
    <3>4. ASSUME poll'.forms # {} PROVE page # MP!OnOffer(f) /\ poll'.limit = poll.limit
      <4>1. \A g \in poll.forms : g = f BY <1>1, <1>6, <2>3, NextFormIs DEF PollInv, WalkInv
      <4>2. poll.forms \ {f} = {} BY <4>1
      <4> QED BY <1>5, <3>4, <4>2 DEF PageRead
    <3> QED BY <3>1, <3>2, <3>3, <3>4
  <2> QED BY <1>1, <2>2, <2>3
<1>12. ReadSoFar => ReadSoFar' BY <1>1, <1>9 DEF ReadSoFar, Seen
<1>13. MP!Backfilling(source)' => MP!Backfilling(source) BY <1>1 DEF MP!Backfilling
<1>14. poll'.stage = "fetch" /\ poll'.src = source' BY <1>1, <1>5, <1>6 DEF PageRead
<1> QED BY <1>1, <1>8, <1>10, <1>11, <1>12, <1>13, <1>14 DEF PollInv, Seen

LEMMA PollStopsAtCap ==
    ASSUME PollInv, MP!PollAssumption, MP!StopsAtCap
    PROVE  PollInv'
<1> DEFINE p == [poll EXCEPT !.forms = {}, !.truncated = TRUE]
<1>1. /\ poll.stage = "fetch"
      /\ poll' = p /\ UNCHANGED <<form, source, ledger, whole, looked, skipped, misses>>
  BY DEF MP!StopsAtCap
<1>2. PollTypes /\ poll \in Fetching
  BY <1>1 DEF PollInv, PollTypes, TakingLeads, Marking, MP!Quiet
<1>3. /\ p \in Fetching /\ p.stage = "fetch" /\ p.src = poll.src /\ p.leads = poll.leads
      /\ p.forms = {} /\ p.truncated /\ p.walking = poll.walking /\ p.at = poll.at
      /\ p.cut = poll.cut
  BY <1>2 DEF Fetching
<1> HIDE DEF p
<1>4. PollTypes' BY <1>1, <1>2, <1>3 DEF PollTypes, MP!Arrived
<1>5. ReadSoFar => ReadSoFar' BY <1>1 DEF ReadSoFar, Seen, MP!NextForm, MP!ToWalk
<1>6. MP!Backfilling(source)' => WalkInv'
  <2>1. MP!Backfilling(source)' => WalkInv BY <1>1 DEF PollInv, MP!Backfilling
  <2>2. MP!NextForm(source') = MP!NextForm(source) BY <1>1
  <2> QED BY <1>1, <1>3, <2>1, <2>2 DEF WalkInv, Ahead, Older
<1>7. FitInv' BY <1>1, <1>3 DEF PollInv, FitInv, MP!PagesFit, MP!Backfilling
<1> QED BY <1>1, <1>3, <1>4, <1>5, <1>6, <1>7 DEF PollInv, Seen

LEMMA PollImports ==
    ASSUME PollInv, MP!PollAssumption, MP!Imports
    PROVE  PollInv'
<1>1. PICK failed \in SUBSET (poll.leads \ ledger) :
        /\ misses + Cardinality(failed) <= MaxMisses /\ misses' = misses + Cardinality(failed)
        /\ ledger' = ledger \cup ((poll.leads \ ledger) \ failed)
        /\ looked' = looked \cup (poll.leads \ failed)
        /\ poll' = [stage |-> "record", src |-> poll.src, truncated |-> poll.truncated,
                    at |-> poll.at, walking |-> poll.walking, cut |-> poll.cut,
                    newest |-> MP!NewestOf((poll.leads \ ledger) \ failed), clean |-> failed = {}]
  BY PollCardinality DEF MP!Imports
<1>2. poll.stage = "fetch" /\ poll.forms = {} /\ UNCHANGED <<form, source, whole, skipped>>
  BY DEF MP!Imports
<1>3. PollTypes /\ poll \in Fetching /\ poll.leads \subseteq MP!Arrived
  BY <1>2 DEF PollInv, PollTypes, TakingLeads, Marking, MP!Quiet
<1>4. MP!Arrived \subseteq 0 .. Limit /\ IsFiniteSet(MP!Arrived) BY <1>3, HistoricArrived
<1>5. MP!NewestOf((poll.leads \ ledger) \ failed) \in 0 .. Limit
  <2> DEFINE S == (poll.leads \ ledger) \ failed
  <2>1. S \in SUBSET (0 .. Limit) BY <1>3, <1>4
  <2> QED BY <2>1, NewestType
<1>6. misses' \in 0 .. MaxMisses
  <2>1. Cardinality(failed) \in Nat BY <1>3, <1>4, FS_Subset, FS_CardinalityType
  <2> QED BY <1>1, <1>3, <2>1 DEF PollTypes, MP!PollAssumption
<1>7. /\ poll' \in TakingLeads /\ poll'.stage = "record" /\ poll'.src = poll.src
      /\ poll'.truncated = poll.truncated /\ poll'.at = poll.at /\ poll'.cut = poll.cut
      /\ poll'.walking = poll.walking /\ (poll'.clean <=> failed = {})
  BY <1>1, <1>3, <1>5 DEF Fetching, TakingLeads
<1>8. ledger' \subseteq looked' /\ looked' \subseteq MP!Arrived /\ looked \subseteq looked'
  BY <1>1, <1>3 DEF PollTypes
<1>9. PollTypes' BY <1>2, <1>3, <1>6, <1>7, <1>8 DEF PollTypes, MP!Arrived
<1>10. ASSUME MP!Backfilling(source) PROVE WalkInv'
  <2>1. WalkInv BY <1>2, <1>10 DEF PollInv
  <2>2. \A l \in Historic : Ahead(l)' <=> Ahead(l) BY <1>2, <1>7 DEF Ahead
  <2>3. \A l \in Historic : Ahead(l) =>
            l \in poll.leads \cup poll.cut \/ (poll.truncated /\ Older(l))
    BY <1>2, <2>1 DEF WalkInv
  <2>4. MP!NextForm(source') = MP!NextForm(source) BY <1>2
  <2>5. poll'.clean => poll.leads \subseteq looked' BY <1>1, <1>7
  <2>6. \A l : Older(l)' <=> Older(l) BY <1>7 DEF Older
  <2> QED BY <1>7, <2>1, <2>2, <2>3, <2>4, <2>5, <2>6 DEF WalkInv
<1>11. ReadSoFar => ReadSoFar' BY <1>2, <1>8 DEF ReadSoFar, Seen, MP!NextForm, MP!ToWalk
<1>12. MP!Backfilling(source)' => MP!Backfilling(source) BY <1>2 DEF MP!Backfilling
<1>13. FitInv' BY <1>2, <1>7 DEF PollInv, FitInv, MP!PagesFit, MP!Backfilling
<1> QED BY <1>2, <1>7, <1>8, <1>9, <1>10, <1>11, <1>12, <1>13 DEF PollInv, Seen

\* The two writes that end a poll of the history.
LEMMA PollRecords ==
    ASSUME PollInv, MP!PollAssumption, MP!RecordsCursor \/ MP!RecordsFormDone
    PROVE  PollInv'
<1>1. /\ poll.stage = "record" /\ poll.clean /\ MP!Backfilling(poll.src)
      /\ UNCHANGED <<form, ledger, whole, looked, misses>> /\ skipped' = skipped \cup poll.cut
  BY DEF MP!RecordsCursor, MP!RecordsFormDone, MP!Clean
<1>2. PollTypes /\ poll \in TakingLeads /\ source \in Progress /\ poll.src = source
  BY <1>1 DEF PollInv, PollTypes, Fetching, Marking, MP!Quiet
<1>3. /\ Backfill /\ ~source.complete /\ ReadSoFar /\ WalkInv
      /\ poll.walking = MP!NextForm(source)
      /\ \A l \in Historic : Ahead(l) =>
             l \in looked \cup poll.cut \/ (poll.truncated /\ Older(l))
      /\ source.watermark = 0
  BY <1>1, <1>2 DEF PollInv, MP!Backfilling, WalkInv
<1>4. MP!SeenSoFar \in 0 .. Limit
  <2>1. {poll.src.seen, poll.newest} \in SUBSET (0 .. Limit) BY <1>2 DEF TakingLeads, Progress
  <2> QED BY <2>1, NewestType DEF MP!SeenSoFar
<1>5. \A l \in Historic : form[l] \in Forms BY <1>2, HistoricArrived DEF PollTypes
<1>8. Seen' = Seen \cup poll.cut /\ skipped' \subseteq MP!Arrived
  BY <1>1, <1>2 DEF Seen, PollTypes
<1>9. MP!PagesFit' => skipped' = {} BY <1>1, <1>2 DEF PollInv, FitInv, MP!PagesFit
<1>6. CASE MP!RecordsCursor
  <2> DEFINE s == [source EXCEPT !.cursor = poll.at, !.seen = MP!SeenSoFar]
  <2>1. source' = s /\ poll' = MP!Quiet BY <1>6 DEF MP!RecordsCursor
  <2>2. /\ s \in Progress /\ s.cursor = poll.at /\ s.done = source.done
        /\ s.complete = source.complete /\ s.watermark = source.watermark
    BY <1>2, <1>4 DEF Progress, TakingLeads
  <2> HIDE DEF s
  <2>3. PollTypes' /\ poll'.stage = "idle"
    BY <1>1, <1>2, <1>8, <2>1, <2>2, QuietType DEF PollTypes, MP!Quiet
  <2>4. MP!NextForm(source') = MP!NextForm(source) BY <2>1, <2>2 DEF MP!NextForm, MP!ToWalk
  <2>5. ASSUME NEW l \in Historic, form[l] \in MP!NextForm(source), poll.at # 0, poll.at <= l
        PROVE  l \in Seen'
    <3>1. CASE source.cursor # 0 /\ source.cursor <= l BY <1>3, <1>8, <2>5, <3>1 DEF ReadSoFar
    <3>2. CASE source.cursor = 0 \/ l < source.cursor
      <4>1. ~Older(l) BY <1>2, <2>5 DEF TakingLeads, Historic, Older, MP!PollAssumption
      <4> QED BY <1>3, <1>8, <2>5, <3>2, <4>1 DEF Ahead, Seen
    <3>3. source.cursor \in Int /\ l \in Int BY <1>2 DEF Progress, Historic, MP!PollAssumption
    <3> QED BY <3>1, <3>2, <3>3
  <2>6. ReadSoFar' BY <1>1, <1>3, <1>8, <2>1, <2>2, <2>4, <2>5 DEF ReadSoFar
  <2>7. FitInv' BY <1>9, <2>3 DEF FitInv
  <2> QED BY <1>3, <2>1, <2>2, <2>3, <2>6, <2>7 DEF PollInv
<1>7. CASE MP!RecordsFormDone
  <2> DEFINE complete == Forms \subseteq MP!Finished
             s == [source EXCEPT !.cursor = 0, !.complete = (source.complete \/ complete),
                                 !.seen = MP!SeenSoFar, !.done = MP!Finished]
  <2>1. /\ source' = s /\ ~poll.truncated
        /\ poll' = IF complete /\ MP!SeenSoFar # 0
                   THEN [stage |-> "watermark", at |-> MP!SeenSoFar] ELSE MP!Quiet
    BY <1>7 DEF MP!RecordsFormDone, MP!CutShort, MP!Unset
  <2>2. MP!Finished = source.done \cup MP!NextForm(source) /\ MP!Finished \in SUBSET Forms
    BY <1>2, <1>3, NextFormIs DEF MP!Finished, Progress
  <2>3. /\ s \in Progress /\ s.cursor = 0 /\ s.done = MP!Finished
        /\ (s.complete <=> complete) /\ s.watermark = source.watermark
    BY <1>2, <1>3, <1>4, <2>2 DEF Progress
  <2>4. [stage |-> "watermark", at |-> MP!SeenSoFar] \in Marking BY <1>4 DEF Marking
  <2> HIDE DEF s
  <2>5. PollTypes' /\ poll'.stage \in {"idle", "watermark"} /\ (poll'.stage = "watermark" => complete)
    BY <1>1, <1>2, <1>8, <2>1, <2>3, <2>4, QuietType DEF PollTypes, MP!Quiet
  <2>6. ASSUME NEW l \in Historic, form[l] \in MP!Finished PROVE l \in Seen'
    <3>1. CASE form[l] \in source.done BY <1>3, <1>8, <3>1 DEF ReadSoFar
    <3>2. CASE form[l] \in MP!NextForm(source)
      <4>1. CASE source.cursor # 0 /\ source.cursor <= l BY <1>3, <1>8, <3>2, <4>1 DEF ReadSoFar
      <4>2. CASE source.cursor = 0 \/ l < source.cursor
        BY <1>3, <1>8, <2>1, <3>2, <4>2 DEF Ahead, Seen
      <4>3. source.cursor \in Int /\ l \in Int BY <1>2 DEF Progress, Historic, MP!PollAssumption
      <4> QED BY <4>1, <4>2, <4>3
    <3> QED BY <2>2, <2>6, <3>1, <3>2
  <2>7. complete => Historic \subseteq Seen' BY <1>5, <2>6
  <2>8. ReadSoFar' BY <1>1, <2>1, <2>3, <2>6 DEF ReadSoFar
  <2>9. FitInv' BY <1>9, <2>5 DEF FitInv
  <2> HIDE DEF complete
  <2> QED BY <1>1, <1>3, <2>1, <2>3, <2>5, <2>7, <2>8, <2>9 DEF PollInv
<1> QED BY <1>6, <1>7

LEMMA PollEnds ==
    ASSUME PollInv, MP!PollAssumption,
           MP!RecordsNothing \/ MP!RecordsNewest \/ MP!MovesWatermark \/ MP!Dies
    PROVE  PollInv'
<1>1. PollTypes /\ source \in Progress BY DEF PollInv, PollTypes
<1>2. CASE MP!RecordsNothing \/ MP!Dies
  <2>1. /\ poll' = MP!Quiet /\ UNCHANGED <<form, source, ledger, whole, looked, skipped>>
        /\ misses' \in 0 .. MaxMisses
    BY <1>1, <1>2 DEF MP!RecordsNothing, MP!Dies, PollTypes, MP!PollAssumption
  <2>2. PollTypes' /\ poll'.stage = "idle" BY <1>1, <2>1, QuietType DEF PollTypes, MP!Quiet
  <2> QED BY <2>1, <2>2, PollLeft
<1>3. CASE MP!RecordsNewest
  <2>1. /\ poll.stage = "record" /\ ~MP!Backfilling(poll.src)
        /\ UNCHANGED <<form, source, ledger, whole, looked, skipped, misses>>
        /\ poll' = IF poll.newest = 0 THEN MP!Quiet ELSE [stage |-> "watermark", at |-> poll.newest]
    BY <1>3 DEF MP!RecordsNewest, MP!Unset
  <2>2. poll \in TakingLeads BY <1>1, <2>1 DEF PollTypes, Fetching, Marking, MP!Quiet
  <2>3. poll' \in {MP!Quiet} \cup Marking BY <2>1, <2>2 DEF TakingLeads, Marking
  <2>4. PollTypes' /\ poll'.stage \in {"idle", "watermark"}
    BY <1>1, <2>1, <2>3, QuietType DEF PollTypes
  <2>5. Backfill => source.complete BY <1>1, <2>1 DEF PollInv, MP!Backfilling, Progress
  <2> QED BY <2>1, <2>4, <2>5, PollLeft
<1>4. CASE MP!MovesWatermark
  <2> DEFINE n == MP!NewestOf({source.watermark, poll.at})
             s == [source EXCEPT !.watermark = n]
  <2>1. /\ poll.stage = "watermark" /\ source' = s /\ poll' = MP!Quiet
        /\ UNCHANGED <<form, ledger, whole, looked, skipped, misses>>
    BY <1>4 DEF MP!MovesWatermark
  <2>2. poll \in Marking BY <1>1, <2>1 DEF PollTypes, Fetching, TakingLeads, MP!Quiet
  <2>3. {source.watermark, poll.at} \in SUBSET (0 .. Limit) BY <1>1, <2>2 DEF Marking, Progress
  <2>4. n \in 0 .. Limit BY <2>3, NewestType
  <2> HIDE DEF n
  <2>5. /\ s \in Progress /\ s.complete = source.complete /\ s.cursor = source.cursor
        /\ s.done = source.done
    BY <1>1, <2>4 DEF Progress
  <2> HIDE DEF s
  <2>6. PollTypes' /\ poll'.stage = "idle"
    BY <1>1, <2>1, <2>5, QuietType DEF PollTypes, MP!Quiet
  <2>7. ReadSoFar => ReadSoFar' BY <2>1, <2>5 DEF ReadSoFar, Seen, MP!NextForm, MP!ToWalk
  <2>8. FitInv' BY <2>1, <2>6 DEF PollInv, FitInv, MP!PagesFit
  <2> QED BY <2>1, <2>5, <2>6, <2>7, <2>8 DEF PollInv, Seen
<1> QED BY <1>2, <1>3, <1>4

LEMMA PollStep == PollInv /\ MP!PollAssumption /\ [MP!Next]_polling => PollInv'
<1> SUFFICES ASSUME PollInv, MP!PollAssumption, [MP!Next]_polling PROVE PollInv'
  OBVIOUS
<1>1. CASE UNCHANGED polling
  BY <1>1 DEF polling, PollInv, PollTypes, ReadSoFar, Seen, WalkInv, Ahead, Older, FitInv,
              MP!PagesFit, MP!NextForm, MP!ToWalk, MP!Backfilling, MP!Arrived
<1> QED BY <1>1, PollArrives, PollHears, PollBegins, PollFetches, PollStopsAtCap, PollImports,
           PollRecords, PollEnds
        DEF MP!Next, MP!Polls

-----------------------------------------------------------------------------
(* LeadIntake. *)

\* Before the alert is claimed nobody is about to notify; afterwards one import
\* is, or nobody, and then it has been done at most once.
AlertInv ==
    /\ pinged \in 0 .. 1
    /\ ~thread.alerted => pinged = 0 /\ \A d \in Doors : door[d].at # "notify"
    /\ \A d \in Doors : door[d].at = "notify" =>
           pinged = 0 /\ \A e \in Doors : door[e].at = "notify" => e = d

\* While a sweep is about to open, or nobody has the claim, every opening so far
\* was handed back.
OpeningInv ==
    /\ opened <= 1 + undone
    /\ ~thread.greeted => opened <= undone /\ \A o \in Workers : opener[o] # "open"
    /\ \A o \in Workers : opener[o] = "open" =>
           opened <= undone /\ \A p \in Workers : opener[p] = "open" => p = o

IntakeTypes ==
    /\ thread \in [alerted : BOOLEAN, due : BOOLEAN, greeted : BOOLEAN, open : BOOLEAN]
    /\ door \in [Doors -> {LI!Outside}
                   \cup [at : {"ledger", "alert", "notify", "book"}, lead : Clients]]
    /\ opener \in [Workers -> {"idle", "claim", "open"}]
    /\ pinged \in Nat /\ opened \in Nat /\ undone \in Nat

MarksInv == IntakeTypes /\ AlertInv /\ OpeningInv

\* Every greeting handed back is one failure.
IntakeCounts ==
    /\ rows \subseteq Clients /\ may \in BOOLEAN
    /\ blows \in 0 .. MaxBlows /\ undone \in 0 .. blows

IntakeInv == MarksInv /\ IntakeCounts
LEMMA MarksStart == LI!Init => MarksInv
  BY DEF LI!Init, MarksInv, IntakeTypes, AlertInv, OpeningInv, LI!Outside

\* An import at a stage is one of a form.
LEMMA DoorType ==
    ASSUME IntakeTypes, NEW d \in Doors, door[d] # LI!Outside
    PROVE  door[d] \in [at : {"ledger", "alert", "notify", "book"}, lead : Clients]
  BY DEF IntakeTypes

LEMMA GoesType ==
    ASSUME IntakeTypes, NEW d \in Doors, door[d].at \in {"ledger", "alert", "notify", "book"},
           NEW stage \in {"ledger", "alert", "notify", "book"}, LI!DoorGoes(d, stage)
    PROVE  /\ door' \in [Doors -> {LI!Outside}
                \cup [at : {"ledger", "alert", "notify", "book"}, lead : Clients]]
           /\ door'[d].at = stage
           /\ \A e \in Doors : e # d => door'[e] = door[e]
<1>1. door[d] # LI!Outside BY DEF LI!Outside
<1>2. door[d] \in [at : {"ledger", "alert", "notify", "book"}, lead : Clients]
  BY <1>1, DoorType
<1>3. /\ [door[d] EXCEPT !.at = stage]
             \in [at : {"ledger", "alert", "notify", "book"}, lead : Clients]
      /\ [door[d] EXCEPT !.at = stage].at = stage
  BY <1>2
<1>4. door' = [door EXCEPT ![d] = [door[d] EXCEPT !.at = stage]] BY DEF LI!DoorGoes
<1> DEFINE v == [door[d] EXCEPT !.at = stage]
<1> HIDE DEF v
<1> QED BY <1>3, <1>4 DEF IntakeTypes, v

LEMMA ClosesType ==
    ASSUME IntakeTypes, NEW d \in Doors, LI!DoorCloses(d)
    PROVE  /\ door' \in [Doors -> {LI!Outside}
                \cup [at : {"ledger", "alert", "notify", "book"}, lead : Clients]]
           /\ door'[d].at = "idle"
           /\ \A e \in Doors : e # d => door'[e] = door[e]
  BY DEF IntakeTypes, LI!DoorCloses, LI!Outside

\* An import that moves on without notifying.
LEMMA AlertKept ==
    ASSUME IntakeTypes, AlertInv, NEW d \in Doors, door'[d].at # "notify",
           \A e \in Doors : e # d => door'[e] = door[e],
           UNCHANGED pinged, UNCHANGED thread.alerted
    PROVE  AlertInv'
  BY DEF AlertInv

LEMMA OpeningKept ==
    ASSUME OpeningInv, UNCHANGED opener, UNCHANGED opened, UNCHANGED undone,
           UNCHANGED thread.greeted
    PROVE  OpeningInv'
  BY DEF OpeningInv

LEMMA DoorStep ==
    ASSUME MarksInv, NEW d \in Doors,
           \/ LI!Importing(d) \/ LI!CannotNotify(d) \/ LI!Breaks(d)
           \/ \E l \in Clients : LI!Enters(d, l)
    PROVE  MarksInv'
<1> USE DEF MarksInv
<1>0. /\ thread.alerted \in BOOLEAN /\ thread.greeted \in BOOLEAN
      /\ thread \in [alerted : BOOLEAN, due : BOOLEAN, greeted : BOOLEAN, open : BOOLEAN]
  BY DEF IntakeTypes
<1>1. ASSUME NEW l \in Clients, LI!Enters(d, l) PROVE MarksInv'
  <2>1. /\ door'[d].at = "ledger" /\ \A e \in Doors : e # d => door'[e] = door[e]
        /\ door' \in [Doors -> {LI!Outside}
                \cup [at : {"ledger", "alert", "notify", "book"}, lead : Clients]]
    BY <1>1 DEF LI!Enters, IntakeTypes
  <2>2. IntakeTypes' BY <1>1, <2>1 DEF LI!Enters, IntakeTypes
  <2>3. AlertInv' BY <1>1, <2>1, AlertKept DEF LI!Enters
  <2> QED BY <1>1, <2>2, <2>3, OpeningKept DEF LI!Enters
<1>2. CASE LI!IsDuplicate(d)
  <2>1. IntakeTypes' BY <1>2, ClosesType DEF LI!IsDuplicate, IntakeTypes
  <2>2. door'[d].at # "notify" /\ \A e \in Doors : e # d => door'[e] = door[e]
    BY <1>2, ClosesType DEF LI!IsDuplicate
  <2>3. AlertInv' BY <1>2, <2>2, AlertKept DEF LI!IsDuplicate
  <2> QED BY <1>2, <2>1, <2>3, OpeningKept DEF LI!IsDuplicate
<1>3. CASE LI!Records(d)
  <2>1. IntakeTypes' BY <1>3, GoesType DEF LI!Records, IntakeTypes
  <2>2. door'[d].at # "notify" /\ \A e \in Doors : e # d => door'[e] = door[e]
    BY <1>3, GoesType DEF LI!Records
  <2>3. AlertInv' BY <1>3, <2>2, AlertKept DEF LI!Records
  <2> QED BY <1>3, <2>1, <2>3, OpeningKept DEF LI!Records
<1>4. CASE LI!TakesAlert(d)
  <2>1. PICK stage \in {"notify", "book"} :
            LI!DoorGoes(d, stage) /\ (stage = "notify" => ~thread.alerted)
    BY <1>4 DEF LI!TakesAlert, LI!NotYetAlerted
  <2>2. /\ door' \in [Doors -> {LI!Outside}
                \cup [at : {"ledger", "alert", "notify", "book"}, lead : Clients]]
        /\ door'[d].at = stage /\ \A e \in Doors : e # d => door'[e] = door[e]
    BY <1>4, <2>1, GoesType DEF LI!TakesAlert
  <2>3. /\ thread'.alerted = TRUE /\ thread'.greeted = thread.greeted
        /\ thread' \in [alerted : BOOLEAN, due : BOOLEAN, greeted : BOOLEAN, open : BOOLEAN]
    BY <1>0, <1>4 DEF LI!TakesAlert
  <2>4. IntakeTypes' BY <1>4, <2>2, <2>3 DEF LI!TakesAlert, IntakeTypes
  <2>5. AlertInv' BY <1>4, <2>1, <2>2, <2>3 DEF LI!TakesAlert, AlertInv
  <2>6. OpeningInv' BY <1>4, <2>3, OpeningKept DEF LI!TakesAlert
  <2> QED BY <2>4, <2>5, <2>6
<1>5. CASE LI!NotifiesOwner(d)
  <2>1. /\ door' \in [Doors -> {LI!Outside}
                \cup [at : {"ledger", "alert", "notify", "book"}, lead : Clients]]
        /\ door'[d].at = "book" /\ \A e \in Doors : e # d => door'[e] = door[e]
    BY <1>5, GoesType DEF LI!NotifiesOwner
  <2>2. IntakeTypes' BY <1>5, <2>1 DEF LI!NotifiesOwner, IntakeTypes
  <2>3. pinged = 0 /\ thread.alerted /\ \A e \in Doors : door[e].at = "notify" => e = d
    BY <1>5 DEF LI!NotifiesOwner, AlertInv
  <2>4. AlertInv' BY <1>5, <2>1, <2>3 DEF LI!NotifiesOwner, AlertInv
  <2> QED BY <1>5, <2>2, <2>4, OpeningKept DEF LI!NotifiesOwner
<1>6. CASE LI!CannotNotify(d)
  <2>1. IntakeTypes' BY <1>6, GoesType DEF LI!CannotNotify, IntakeTypes
  <2>2. door'[d].at # "notify" /\ \A e \in Doors : e # d => door'[e] = door[e]
    BY <1>6, GoesType DEF LI!CannotNotify
  <2>3. AlertInv' BY <1>6, <2>2, AlertKept DEF LI!CannotNotify
  <2> QED BY <1>6, <2>1, <2>3, OpeningKept DEF LI!CannotNotify
<1>7. CASE LI!Books(d)
  <2>1. /\ thread' \in [alerted : BOOLEAN, due : BOOLEAN, greeted : BOOLEAN, open : BOOLEAN]
        /\ thread'.alerted = thread.alerted /\ thread'.greeted = thread.greeted
    BY <1>0, <1>7 DEF LI!Books, LI!Booked
  <2>2. IntakeTypes' BY <1>7, <2>1, ClosesType DEF LI!Books, IntakeTypes
  <2>3. door'[d].at # "notify" /\ \A e \in Doors : e # d => door'[e] = door[e]
    BY <1>7, ClosesType DEF LI!Books
  <2>4. AlertInv' BY <1>7, <2>1, <2>3, AlertKept DEF LI!Books
  <2> QED BY <1>7, <2>1, <2>2, <2>4, OpeningKept DEF LI!Books
<1>8. CASE LI!Breaks(d)
  <2>1. IntakeTypes' BY <1>8, ClosesType DEF LI!Breaks, IntakeTypes
  <2>2. door'[d].at # "notify" /\ \A e \in Doors : e # d => door'[e] = door[e]
    BY <1>8, ClosesType DEF LI!Breaks
  <2>3. AlertInv' BY <1>8, <2>2, AlertKept DEF LI!Breaks
  <2> QED BY <1>8, <2>1, <2>3, OpeningKept DEF LI!Breaks
<1> QED BY <1>1, <1>2, <1>3, <1>4, <1>5, <1>6, <1>7, <1>8 DEF LI!Importing

LEMMA AlertUntouched ==
    ASSUME AlertInv, UNCHANGED door, UNCHANGED pinged, UNCHANGED thread.alerted
    PROVE  AlertInv'
  BY DEF AlertInv

LEMMA OpenerStep ==
    ASSUME MarksInv, NEW o \in Workers, LI!Greeting(o) \/ LI!Fails(o) \/ LI!Dies(o)
    PROVE  MarksInv'
<1> USE DEF MarksInv
<1>0. thread \in [alerted : BOOLEAN, due : BOOLEAN, greeted : BOOLEAN, open : BOOLEAN]
  BY DEF IntakeTypes
<1>a. opener \in [Workers -> {"idle", "claim", "open"}] /\ opened \in Nat /\ undone \in Nat
  BY DEF IntakeTypes
<1>1. CASE LI!Finds(o)
  <2>1. IntakeTypes' /\ AlertInv' BY <1>1, AlertUntouched DEF LI!Finds, IntakeTypes, LI!OpenerGoes
  <2>2. OpeningInv' BY <1>1, <1>a DEF LI!Finds, LI!OpenerGoes, OpeningInv
  <2> QED BY <2>1, <2>2
<1>2. CASE LI!Claims(o)
  <2>1. /\ thread' \in [alerted : BOOLEAN, due : BOOLEAN, greeted : BOOLEAN, open : BOOLEAN]
        /\ thread'.greeted = TRUE /\ thread'.alerted = thread.alerted
    BY <1>0, <1>2 DEF LI!Claims
  <2>2. IntakeTypes' /\ AlertInv' BY <1>2, <2>1, AlertUntouched DEF LI!Claims, IntakeTypes, LI!OpenerGoes
  <2>3. CASE thread.greeted
    <3>1. opener' = [opener EXCEPT ![o] = "idle"] /\ UNCHANGED <<opened, undone>>
      BY <1>2, <2>3 DEF LI!Claims, LI!NotYetGreeted, LI!OpenerGoes
    <3>2. OpeningInv' BY <1>a, <2>1, <3>1 DEF OpeningInv
    <3> QED BY <2>2, <3>2
  <2>4. CASE ~thread.greeted
    <3>1. opened <= undone /\ \A p \in Workers : opener[p] # "open" BY <2>4 DEF OpeningInv
    <3>2. opener' = [opener EXCEPT ![o] = "open"] BY <1>2, <2>4 DEF LI!Claims, LI!NotYetGreeted, LI!OpenerGoes
    <3>3. OpeningInv' BY <1>2, <1>a, <2>1, <3>1, <3>2 DEF LI!Claims, OpeningInv
    <3> QED BY <2>2, <3>3
  <2> QED BY <2>2, <2>3, <2>4
<1>3. CASE LI!HoldsBack(o)
  <2>1. IntakeTypes' /\ AlertInv' BY <1>3, AlertUntouched DEF LI!HoldsBack, IntakeTypes, LI!OpenerGoes
  <2>2. OpeningInv' BY <1>3, <1>a DEF LI!HoldsBack, LI!OpenerGoes, OpeningInv
  <2> QED BY <2>1, <2>2
<1>4. CASE LI!Opens(o)
  <2>1. IntakeTypes' /\ AlertInv' BY <1>4, AlertUntouched DEF LI!Opens, IntakeTypes, LI!OpenerGoes
  <2>2. thread.greeted /\ opened <= undone /\ \A p \in Workers : opener[p] = "open" => p = o
    BY <1>4 DEF LI!Opens, OpeningInv
  <2>3. /\ \A p \in Workers : opener'[p] # "open"
        /\ opened' = opened + 1 /\ undone' = undone /\ thread' = thread
    BY <1>4, <1>a, <2>2 DEF LI!Opens, LI!OpenerGoes
  <2>4. opened' <= 1 + undone' /\ thread'.greeted = TRUE BY <1>0, <1>a, <2>2, <2>3
  <2>5. OpeningInv' BY <2>3, <2>4 DEF OpeningInv
  <2> QED BY <2>1, <2>5
<1>5. CASE LI!Fails(o)
  <2>1. /\ thread' \in [alerted : BOOLEAN, due : BOOLEAN, greeted : BOOLEAN, open : BOOLEAN]
        /\ thread'.greeted = FALSE /\ thread'.alerted = thread.alerted
    BY <1>0, <1>5 DEF LI!Fails
  <2>2. IntakeTypes' /\ AlertInv' BY <1>5, <2>1, AlertUntouched DEF LI!Fails, IntakeTypes, LI!OpenerGoes
  <2>3. opened <= undone /\ \A p \in Workers : opener[p] = "open" => p = o
    BY <1>5 DEF LI!Fails, OpeningInv
  <2>4. \A p \in Workers : opener'[p] # "open" BY <1>5, <1>a, <2>3 DEF LI!Fails, LI!OpenerGoes
  <2>5. opened' <= undone' /\ opened' <= 1 + undone' BY <1>5, <1>a, <2>3 DEF LI!Fails
  <2>6. OpeningInv' BY <2>4, <2>5 DEF OpeningInv
  <2> QED BY <2>2, <2>6
<1>6. CASE LI!Dies(o)
  <2>1. IntakeTypes' /\ AlertInv' BY <1>6, AlertUntouched DEF LI!Dies, IntakeTypes, LI!OpenerGoes
  <2>2. OpeningInv' BY <1>6, <1>a DEF LI!Dies, LI!OpenerGoes, OpeningInv
  <2> QED BY <2>1, <2>2
<1> QED BY <1>1, <1>2, <1>3, <1>4, <1>5, <1>6 DEF LI!Greeting

LEMMA MarksStep == MarksInv /\ [LI!Next]_takingIn => MarksInv'
<1> SUFFICES ASSUME MarksInv, [LI!Next]_takingIn PROVE MarksInv' OBVIOUS
<1>1. CASE LI!OwnerDecides
  BY <1>1 DEF LI!OwnerDecides, MarksInv, IntakeTypes, AlertInv, OpeningInv
<1>2. CASE LI!Closes
  <2>1. /\ thread' \in [alerted : BOOLEAN, due : BOOLEAN, greeted : BOOLEAN, open : BOOLEAN]
        /\ thread'.greeted = thread.greeted /\ thread'.alerted = thread.alerted
    BY <1>2 DEF LI!Closes, MarksInv, IntakeTypes
  <2>2. IntakeTypes' BY <1>2, <2>1 DEF LI!Closes, MarksInv, IntakeTypes
  <2> QED BY <1>2, <2>1, <2>2, AlertUntouched, OpeningKept DEF LI!Closes, MarksInv
<1>3. CASE UNCHANGED takingIn BY <1>3 DEF takingIn, MarksInv, IntakeTypes, AlertInv, OpeningInv
<1> QED BY <1>1, <1>2, <1>3, DoorStep, OpenerStep DEF LI!Next

LEMMA CountsStep ==
    MarksInv /\ IntakeCounts /\ LI!IntakeAssumption /\ [LI!Next]_takingIn => IntakeCounts'
<1> SUFFICES ASSUME MarksInv, IntakeCounts, LI!IntakeAssumption, [LI!Next]_takingIn
             PROVE  IntakeCounts'
  OBVIOUS
<1>1. ASSUME LI!Blow PROVE blows' \in 0 .. MaxBlows /\ blows' = blows + 1
  BY <1>1 DEF LI!Blow, IntakeCounts, LI!IntakeAssumption
<1>2. ASSUME NEW d \in Doors, LI!Importing(d) PROVE IntakeCounts'
  <2>1. CASE LI!Records(d)
    <3>1. door[d] # LI!Outside BY <2>1 DEF LI!Records, LI!Outside
    <3>2. door[d].lead \in Clients BY <3>1, DoorType DEF MarksInv
    <3> QED BY <2>1, <3>2 DEF LI!Records, IntakeCounts
  <2> QED BY <1>2, <2>1 DEF LI!Importing, LI!IsDuplicate, LI!TakesAlert, LI!NotifiesOwner,
                            LI!Books, IntakeCounts
<1>3. ASSUME NEW d \in Doors, LI!CannotNotify(d) \/ LI!Breaks(d) PROVE IntakeCounts'
  <2>1. LI!Blow /\ UNCHANGED <<rows, may, undone>> BY <1>3 DEF LI!CannotNotify, LI!Breaks
  <2> QED BY <1>1, <2>1 DEF IntakeCounts
<1>4. ASSUME NEW d \in Doors, NEW l \in Clients, LI!Enters(d, l) PROVE IntakeCounts'
  BY <1>4 DEF LI!Enters, IntakeCounts
<1>5. ASSUME NEW o \in Workers, LI!Greeting(o) PROVE IntakeCounts'
  BY <1>5 DEF LI!Greeting, LI!Finds, LI!Claims, LI!HoldsBack, LI!Opens, IntakeCounts
<1>6. ASSUME NEW o \in Workers, LI!Fails(o) \/ LI!Dies(o) PROVE IntakeCounts'
  <2>1. LI!Blow /\ UNCHANGED <<rows, may>> /\ undone' \in {undone, undone + 1}
    BY <1>6 DEF LI!Fails, LI!Dies
  <2>2. undone \in Nat /\ blows \in Nat /\ undone <= blows BY DEF IntakeCounts
  <2> QED BY <1>1, <2>1, <2>2 DEF IntakeCounts
<1>7. CASE LI!OwnerDecides BY <1>7 DEF LI!OwnerDecides, IntakeCounts
<1>8. CASE LI!Closes BY <1>8 DEF LI!Closes, IntakeCounts
<1>9. CASE UNCHANGED takingIn BY <1>9 DEF takingIn, IntakeCounts
<1> QED BY <1>2, <1>3, <1>4, <1>5, <1>6, <1>7, <1>8, <1>9 DEF LI!Next

LEMMA IntakeStarts == LI!Init /\ LI!IntakeAssumption => IntakeInv
  BY MarksStart DEF LI!Init, LI!IntakeAssumption, IntakeInv, IntakeCounts

LEMMA IntakePromises == IntakeInv /\ LI!IntakeAssumption => LI!TypeOK /\ LI!OneOpening
<1> SUFFICES ASSUME IntakeInv, LI!IntakeAssumption PROVE LI!TypeOK /\ LI!OneOpening OBVIOUS
<1>1. \A d \in Doors : door[d] = LI!Outside \/
          door[d] \in [at : {"ledger", "alert", "notify", "book"}, lead : Clients]
  BY DEF IntakeInv, MarksInv, IntakeTypes
<1>2. undone \in 0 .. MaxBlows BY DEF IntakeInv, IntakeCounts, LI!IntakeAssumption
<1>3. LI!TypeOK BY <1>1, <1>2 DEF LI!TypeOK, IntakeInv, MarksInv, IntakeTypes, IntakeCounts
<1>4. LI!OneOpening BY DEF LI!OneOpening, IntakeInv, MarksInv, AlertInv, OpeningInv
<1> QED BY <1>3, <1>4

LEMMA IntakeStep == IntakeInv /\ LI!IntakeAssumption /\ [LI!Next]_takingIn => IntakeInv'
  BY MarksStep, CountsStep DEF IntakeInv

-----------------------------------------------------------------------------
(* CallChase. *)

ChaseStages == {"idle", "giveUp", "look", "task", "taskRow", "gate", "send", "sendRow", "done"}
Attempts ==
    [status : {"none", "waiting", "replied", "completed", "failed"},
     lease : {"none", "held", "over"}, token : Nat, attempts : Nat,
     tasked : BOOLEAN, gate : BOOLEAN, sent : BOOLEAN, repliedAt : BOOLEAN]
Chasings == [at : ChaseStages, token : Nat, tasked : BOOLEAN, sent : BOOLEAN]

\* What the attempt's row, or a sweep's copy of it, says was done has been done,
\* and a sweep is past an action only when it has.
ChaseKnows ==
    /\ attempt.tasked => ownerTask
    /\ attempt.sent => chaser
    /\ \A w \in Workers :
           /\ chasing[w].tasked => ownerTask
           /\ chasing[w].sent => chaser
           /\ chasing[w].at \in {"taskRow", "gate", "send", "sendRow", "done"} => ownerTask
           /\ chasing[w].at \in {"sendRow", "done"} => chaser

ChaseShape ==
    /\ attempt \in Attempts /\ chasing \in [Workers -> Chasings]
    /\ attempt.token <= attempt.attempts
    /\ attempt.lease = "none" <=> attempt.token = 0
    /\ \A w \in Workers : chasing[w].token <= attempt.attempts
    /\ chat \in [wrote : BOOLEAN, off : BOOLEAN, gone : BOOLEAN]
    /\ trouble \in 0 .. MaxTrouble

ChaseInv == ChaseShape /\ ChaseKnows /\ CC!CompletedMeansDone

LEMMA ChaseStarts == CC!Init /\ CC!ChaseAssumption => ChaseInv
<1> SUFFICES ASSUME CC!Init, CC!ChaseAssumption PROVE ChaseInv OBVIOUS
<1>1. CC!Idle \in Chasings BY DEF CC!Idle, CC!NoToken, Chasings, ChaseStages
<1>2. ChaseShape
  BY <1>1 DEF CC!Init, CC!ChaseAssumption, ChaseShape, Attempts, CC!Idle, CC!NoToken
<1>3. ChaseKnows BY DEF CC!Init, ChaseKnows, CC!Idle
<1> QED BY <1>2, <1>3 DEF ChaseInv, CC!Init, CC!CompletedMeansDone

LEMMA ChasePromises == ChaseInv => CC!TypeOK /\ CC!CompletedMeansDone
<1> SUFFICES ASSUME ChaseInv PROVE CC!TypeOK /\ CC!CompletedMeansDone OBVIOUS
<1>1. attempt \in Attempts /\ chasing \in [Workers -> Chasings] BY DEF ChaseInv, ChaseShape
<1>2. CC!TypeOK
  BY <1>1 DEF ChaseInv, ChaseShape, CC!TypeOK, Attempts, Chasings, ChaseStages, CC!NoToken
<1> QED BY <1>2 DEF ChaseInv

\* A worker at its next stage, the row as it is or marked by it.
LEMMA ChaseGoes ==
    ASSUME ChaseInv, NEW w \in Workers, NEW stage \in ChaseStages, CC!Goto(w, stage),
           attempt' \in Attempts, attempt'.token = attempt.token,
           attempt'.attempts = attempt.attempts, attempt'.lease = attempt.lease,
           attempt'.status = attempt.status,
           attempt'.tasked => ownerTask', attempt'.sent => chaser',
           ownerTask => ownerTask', chaser => chaser', UNCHANGED <<hour, chat, trouble>>,
           stage \in {"taskRow", "gate", "send", "sendRow", "done"} => ownerTask',
           stage \in {"sendRow", "done"} => chaser'
    PROVE  ChaseInv'
<1>1. /\ chasing'[w] = [chasing[w] EXCEPT !.at = stage] /\ chasing[w] \in Chasings
      /\ \A v \in Workers : v # w => chasing'[v] = chasing[v]
      /\ DOMAIN chasing' = Workers /\ chasing' = [v \in Workers |-> chasing'[v]]
  BY DEF ChaseInv, ChaseShape, CC!Goto
<1>2. /\ chasing'[w] \in Chasings /\ chasing'[w].token = chasing[w].token
      /\ chasing'[w].at = stage
      /\ chasing'[w].tasked = chasing[w].tasked /\ chasing'[w].sent = chasing[w].sent
  BY <1>1 DEF Chasings
<1>3. chasing' \in [Workers -> Chasings] BY <1>1, <1>2 DEF ChaseInv, ChaseShape
<1>4. ChaseShape' BY <1>1, <1>2, <1>3 DEF ChaseInv, ChaseShape
<1>5. ChaseKnows' BY <1>1, <1>2 DEF ChaseInv, ChaseKnows
<1>6. CC!CompletedMeansDone' BY DEF ChaseInv, CC!CompletedMeansDone
<1> QED BY <1>4, <1>5, <1>6 DEF ChaseInv

\* A worker that lets go of the attempt, settled or not.
LEMMA ChaseEnds ==
    ASSUME ChaseInv, NEW w \in Workers, chasing' = [chasing EXCEPT ![w] = CC!Idle],
           attempt' \in Attempts, attempt'.token \in {0, attempt.token},
           attempt'.lease = "none" <=> attempt'.token = 0,
           attempt'.attempts = attempt.attempts,
           attempt'.tasked = attempt.tasked, attempt'.sent = attempt.sent,
           attempt'.status = "completed" =>
               attempt.status = "completed" \/ (ownerTask /\ chaser) \/ chat.off \/ chat.gone,
           UNCHANGED <<hour, chat, ownerTask, chaser>>, trouble' \in 0 .. MaxTrouble
    PROVE  ChaseInv'
<1>1. CC!Idle \in Chasings /\ CC!Idle.token = 0 /\ CC!Idle.at = "idle" /\ ~CC!Idle.tasked /\ ~CC!Idle.sent
  BY DEF Chasings, ChaseStages, CC!Idle, CC!NoToken
<1>2. /\ chasing' \in [Workers -> Chasings] /\ chasing'[w] = CC!Idle
      /\ \A v \in Workers : v # w => chasing'[v] = chasing[v]
  BY <1>1 DEF ChaseInv, ChaseShape
<1>3. attempt.attempts \in Nat BY DEF ChaseInv, ChaseShape, Attempts
<1>4. ChaseShape' BY <1>1, <1>2, <1>3 DEF ChaseInv, ChaseShape
<1>5. ChaseKnows' BY <1>1, <1>2 DEF ChaseInv, ChaseKnows
<1>6. CC!CompletedMeansDone' BY DEF ChaseInv, CC!CompletedMeansDone
<1> QED BY <1>4, <1>5, <1>6 DEF ChaseInv

LEMMA ChaseSettles ==
    ASSUME ChaseInv, NEW w \in Workers,
           NEW status \in {"replied", "completed", "failed"}, CC!Settles(w, status),
           status = "completed" => (ownerTask /\ chaser) \/ chat.off \/ chat.gone
    PROVE  ChaseInv'
<1> DEFINE a == [attempt EXCEPT !.status = status, !.lease = "none", !.token = 0]
<1>1. /\ chasing' = [chasing EXCEPT ![w] = CC!Idle] /\ attempt' \in {a, attempt}
      /\ UNCHANGED <<hour, chat, ownerTask, chaser, trouble>>
  BY DEF CC!Settles, CC!NoToken
<1>2. attempt \in Attempts /\ trouble \in 0 .. MaxTrouble
      /\ (attempt.lease = "none" <=> attempt.token = 0)
  BY DEF ChaseInv, ChaseShape
<1>3. /\ a \in Attempts /\ a.status = status /\ a.lease = "none" /\ a.token = 0
      /\ a.attempts = attempt.attempts /\ a.tasked = attempt.tasked /\ a.sent = attempt.sent
  BY <1>2 DEF Attempts
<1> HIDE DEF a
<1>4. /\ attempt' \in Attempts /\ attempt'.token \in {0, attempt.token}
      /\ attempt'.lease = "none" <=> attempt'.token = 0
      /\ attempt'.attempts = attempt.attempts
      /\ attempt'.tasked = attempt.tasked /\ attempt'.sent = attempt.sent
      /\ attempt'.status \in {status, attempt.status}
  BY <1>1, <1>2, <1>3
<1> QED BY <1>1, <1>2, <1>4, ChaseEnds

LEMMA ChaseSweeps ==
    ASSUME ChaseInv, CC!ChaseAssumption, NEW w \in Workers, CC!Sweeps(w)
    PROVE  ChaseInv'
<1>0. /\ attempt \in Attempts /\ chasing[w] \in Chasings /\ chasing \in [Workers -> Chasings]
      /\ ownerTask => ownerTask
  BY DEF ChaseInv, ChaseShape
<1>a. /\ attempt.tasked => ownerTask
      /\ attempt.sent => chaser
      /\ chasing[w].tasked => ownerTask
      /\ chasing[w].sent => chaser
      /\ chasing[w].at \in {"taskRow", "gate", "send", "sendRow", "done"} => ownerTask
      /\ chasing[w].at \in {"sendRow", "done"} => chaser
  BY DEF ChaseInv, ChaseKnows
<1>1. CASE CC!Claims(w)
  <2> DEFINE n == attempt.attempts + 1
             a == [attempt EXCEPT !.lease = "held", !.token = n, !.attempts = n]
             c == [at |-> IF n > MaxAttempts THEN "giveUp" ELSE "look",
                   token |-> n, tasked |-> attempt.tasked, sent |-> attempt.sent]
  <2>1. /\ attempt' = a /\ chasing' = [chasing EXCEPT ![w] = c]
        /\ UNCHANGED <<hour, chat, ownerTask, chaser, trouble>>
    BY <1>1 DEF CC!Claims
  <2>2. n \in Nat /\ n > 0 /\ attempt.attempts \in Nat /\ n > attempt.attempts
    BY <1>0 DEF Attempts
  <2> HIDE DEF n
  <2>3. /\ a \in Attempts /\ a.status = attempt.status /\ a.lease = "held" /\ a.token = n
        /\ a.attempts = n /\ a.tasked = attempt.tasked /\ a.sent = attempt.sent
    BY <1>0, <2>2 DEF Attempts
  <2>4. /\ c \in Chasings /\ c.token = n /\ c.at \in {"giveUp", "look"}
        /\ c.tasked = attempt.tasked /\ c.sent = attempt.sent
    BY <1>0, <2>2 DEF Attempts, Chasings, ChaseStages
  <2> HIDE DEF a, c
  <2>5. /\ chasing' \in [Workers -> Chasings] /\ chasing'[w] = c
        /\ \A v \in Workers : v # w => chasing'[v] = chasing[v]
    BY <1>0, <2>1, <2>4
  <2>6. \A v \in Workers : chasing'[v].token <= n
    <3> TAKE v \in Workers
    <3>1. chasing[v] \in Chasings /\ chasing[v].token <= attempt.attempts
      BY DEF ChaseInv, ChaseShape
    <3>2. chasing[v].token \in Nat BY <3>1 DEF Chasings
    <3> QED BY <2>2, <2>4, <2>5, <3>1, <3>2
  <2>7. ChaseShape' BY <2>1, <2>2, <2>3, <2>5, <2>6 DEF ChaseInv, ChaseShape
  <2>8. ChaseKnows' BY <2>1, <2>3, <2>4, <2>5 DEF ChaseInv, ChaseKnows
  <2>9. CC!CompletedMeansDone' BY <2>1, <2>3 DEF ChaseInv, CC!CompletedMeansDone
  <2> QED BY <2>7, <2>8, <2>9 DEF ChaseInv
<1>2. CASE CC!GivesUp(w) BY <1>2, ChaseSettles DEF CC!GivesUp
<1>3. CASE CC!NothingToChase(w) BY <1>3, ChaseSettles DEF CC!NothingToChase
<1>4. CASE CC!FindsReply(w) BY <1>4, ChaseSettles DEF CC!FindsReply
<1>5. CASE CC!StillSilent(w)
  <2>1. PICK stage \in {"task", "gate", "done"} :
            /\ CC!Goto(w, stage) /\ UNCHANGED <<attempt, hour, chat, ownerTask, chaser, trouble>>
            /\ stage # "task" => chasing[w].tasked
            /\ stage = "done" => chasing[w].sent
    BY <1>0, <1>5 DEF CC!StillSilent, Chasings
  <2>2. stage \in ChaseStages BY DEF ChaseStages
  <2> QED BY <1>0, <1>a, <2>1, <2>2, ChaseGoes
<1>6. CASE CC!TellsOwner(w)
  <2>1. /\ CC!Goto(w, "taskRow") /\ ownerTask' = TRUE /\ "taskRow" \in ChaseStages
        /\ UNCHANGED <<attempt, hour, chat, chaser, trouble>>
    BY <1>6 DEF CC!TellsOwner, ChaseStages
  <2> QED BY <1>0, <1>a, <2>1, ChaseGoes
<1>7. CASE CC!RecordsTask(w)
  <2> DEFINE a == [attempt EXCEPT !.tasked = TRUE]
  <2>1. /\ a \in Attempts /\ a.token = attempt.token /\ a.attempts = attempt.attempts
        /\ a.lease = attempt.lease /\ a.status = attempt.status /\ a.sent = attempt.sent
    BY <1>0 DEF Attempts
  <2>2. attempt' \in {a, attempt} /\ UNCHANGED <<hour, chat, ownerTask, chaser, trouble>>
    BY <1>7 DEF CC!RecordsTask
  <2>3. PICK stage \in {"gate", "done"} : CC!Goto(w, stage) /\ (stage = "done" => chasing[w].sent)
    BY <1>7 DEF CC!RecordsTask
  <2>4. ownerTask /\ stage \in ChaseStages BY <1>7, <1>a DEF CC!RecordsTask, ChaseStages
  <2> HIDE DEF a
  <2>5. /\ attempt' \in Attempts /\ attempt'.token = attempt.token
        /\ attempt'.attempts = attempt.attempts /\ attempt'.lease = attempt.lease
        /\ attempt'.status = attempt.status /\ attempt'.sent = attempt.sent
    BY <1>0, <2>1, <2>2
  <2> QED BY <1>a, <2>2, <2>3, <2>4, <2>5, ChaseGoes
<1>8. CASE CC!PassesGate(w)
  <2> DEFINE a == [attempt EXCEPT !.gate = TRUE]
  <2>1. /\ a \in Attempts /\ a.token = attempt.token /\ a.attempts = attempt.attempts
        /\ a.lease = attempt.lease /\ a.status = attempt.status /\ a.sent = attempt.sent
        /\ a.tasked = attempt.tasked
    BY <1>0 DEF Attempts
  <2>2. /\ attempt' = a /\ UNCHANGED <<hour, chat, ownerTask, chaser, trouble>>
        /\ CC!Goto(w, "send") /\ "send" \in ChaseStages
    BY <1>8 DEF CC!PassesGate, ChaseStages
  <2>4. ownerTask BY <1>8, <1>a DEF CC!PassesGate
  <2> HIDE DEF a
  <2> QED BY <1>a, <2>1, <2>2, <2>4, ChaseGoes
<1>9. CASE CC!FindsGateShut(w) BY <1>9, ChaseSettles DEF CC!FindsGateShut, CC!ShutStatus
<1>10. CASE CC!Chases(w)
  <2>1. /\ CC!Goto(w, "sendRow") /\ chaser' = TRUE /\ "sendRow" \in ChaseStages
        /\ UNCHANGED <<attempt, hour, chat, ownerTask, trouble>> /\ ownerTask
    BY <1>10, <1>a DEF CC!Chases, ChaseStages
  <2> QED BY <1>0, <1>a, <2>1, ChaseGoes
<1>11. CASE CC!RecordsChaser(w)
  <2> DEFINE a == [attempt EXCEPT !.sent = TRUE]
  <2>1. /\ a \in Attempts /\ a.token = attempt.token /\ a.attempts = attempt.attempts
        /\ a.lease = attempt.lease /\ a.status = attempt.status /\ a.tasked = attempt.tasked
    BY <1>0 DEF Attempts
  <2>2. /\ attempt' \in {a, attempt} /\ UNCHANGED <<hour, chat, ownerTask, chaser, trouble>>
        /\ CC!Goto(w, "done") /\ "done" \in ChaseStages
    BY <1>11 DEF CC!RecordsChaser, ChaseStages
  <2>4. ownerTask /\ chaser BY <1>11, <1>a DEF CC!RecordsChaser
  <2> HIDE DEF a
  <2>5. /\ attempt' \in Attempts /\ attempt'.token = attempt.token
        /\ attempt'.attempts = attempt.attempts /\ attempt'.lease = attempt.lease
        /\ attempt'.status = attempt.status /\ attempt'.tasked = attempt.tasked
    BY <1>0, <2>1, <2>2
  <2> QED BY <1>a, <2>2, <2>4, <2>5, ChaseGoes
<1>12. CASE CC!Completes(w) BY <1>a, <1>12, ChaseSettles DEF CC!Completes
<1> QED BY <1>1, <1>2, <1>3, <1>4, <1>5, <1>6, <1>7, <1>8, <1>9, <1>10, <1>11, <1>12 DEF CC!Sweeps

\* The row marked by somebody else, workers as they are.
LEMMA ChaseMarked ==
    ASSUME ChaseInv, attempt' \in Attempts, attempt'.token = attempt.token,
           attempt'.attempts = attempt.attempts,
           attempt'.lease = "none" <=> attempt.lease = "none",
           attempt'.status = "completed" => attempt.status = "completed",
           attempt'.tasked = attempt.tasked, attempt'.sent = attempt.sent,
           UNCHANGED <<hour, chat, chasing, ownerTask, chaser>>, trouble' \in 0 .. MaxTrouble
    PROVE  ChaseInv'
  BY DEF ChaseInv, ChaseShape, ChaseKnows, CC!CompletedMeansDone

LEMMA ChaseStep == ChaseInv /\ CC!ChaseAssumption /\ [CC!Next]_callchasing => ChaseInv'
<1> SUFFICES ASSUME ChaseInv, CC!ChaseAssumption, [CC!Next]_callchasing PROVE ChaseInv'
  OBVIOUS
<1>0. /\ attempt \in Attempts /\ trouble \in 0 .. MaxTrouble
      /\ trouble < MaxTrouble => trouble + 1 \in 0 .. MaxTrouble
      /\ attempt.lease = "none" <=> attempt.token = 0
  BY DEF ChaseInv, ChaseShape, CC!ChaseAssumption
<1>1. CASE CC!Registers
  <2> DEFINE a == [attempt EXCEPT !.status = "waiting"]
  <2>1. /\ a \in Attempts /\ a.token = attempt.token /\ a.attempts = attempt.attempts
        /\ a.lease = attempt.lease /\ a.status = "waiting" /\ a.tasked = attempt.tasked
        /\ a.sent = attempt.sent
    BY <1>0 DEF Attempts
  <2>2. attempt' = a /\ UNCHANGED <<hour, chat, chasing, ownerTask, chaser, trouble>>
    BY <1>1 DEF CC!Registers
  <2> HIDE DEF a
  <2> QED BY <1>0, <2>1, <2>2, ChaseMarked
<1>2. CASE CC!DeadlinePasses
  BY <1>2 DEF CC!DeadlinePasses, ChaseInv, ChaseShape, ChaseKnows, CC!CompletedMeansDone
<1>3. CASE CC!LeaseEnds
  <2> DEFINE a == [attempt EXCEPT !.lease = "over"]
  <2>1. /\ a \in Attempts /\ a.token = attempt.token /\ a.attempts = attempt.attempts
        /\ a.lease = "over" /\ a.status = attempt.status /\ a.tasked = attempt.tasked
        /\ a.sent = attempt.sent
    BY <1>0 DEF Attempts
  <2>2. /\ attempt' = a /\ UNCHANGED <<hour, chat, chasing, ownerTask, chaser>>
        /\ attempt.lease = "held" /\ trouble' \in 0 .. MaxTrouble
    BY <1>0, <1>3 DEF CC!LeaseEnds
  <2> HIDE DEF a
  <2> QED BY <1>0, <2>1, <2>2, ChaseMarked
<1>4. CASE CC!LeadWrites
  <2>1. /\ chat' \in [wrote : BOOLEAN, off : BOOLEAN, gone : BOOLEAN]
        /\ chat'.off = chat.off /\ chat'.gone = chat.gone
    BY <1>4 DEF CC!LeadWrites, ChaseInv, ChaseShape
  <2> QED BY <1>4, <2>1 DEF CC!LeadWrites, ChaseInv, ChaseShape, ChaseKnows, CC!CompletedMeansDone
<1>5. CASE CC!MarksReplied
  <2> DEFINE a == [attempt EXCEPT !.status = "replied", !.repliedAt = TRUE]
  <2>1. /\ a \in Attempts /\ a.token = attempt.token /\ a.attempts = attempt.attempts
        /\ a.lease = attempt.lease /\ a.status = "replied" /\ a.tasked = attempt.tasked
        /\ a.sent = attempt.sent
    BY <1>0 DEF Attempts
  <2>2. attempt' = a /\ UNCHANGED <<hour, chat, chasing, ownerTask, chaser, trouble>>
    BY <1>5 DEF CC!MarksReplied
  <2> HIDE DEF a
  <2> QED BY <1>0, <2>1, <2>2, ChaseMarked
<1>6. CASE CC!OwnerSteps
  <2>1. /\ chat' \in [wrote : BOOLEAN, off : BOOLEAN, gone : BOOLEAN]
        /\ chat.off => chat'.off
        /\ chat.gone => chat'.gone
    BY <1>6 DEF CC!OwnerSteps, ChaseInv, ChaseShape
  <2> QED BY <1>6, <2>1 DEF CC!OwnerSteps, ChaseInv, ChaseShape, ChaseKnows, CC!CompletedMeansDone
<1>7. ASSUME NEW w \in Workers, CC!Throws(w) PROVE ChaseInv'
  <2> DEFINE a == [attempt EXCEPT !.gate = FALSE, !.lease = "none", !.token = 0]
  <2>1. /\ a \in Attempts /\ a.token = 0 /\ a.attempts = attempt.attempts
        /\ a.lease = "none" /\ a.status = attempt.status /\ a.tasked = attempt.tasked
        /\ a.sent = attempt.sent
    BY <1>0 DEF Attempts
  <2>2. /\ attempt' \in {a, attempt} /\ chasing' = [chasing EXCEPT ![w] = CC!Idle]
        /\ UNCHANGED <<hour, chat, ownerTask, chaser>> /\ trouble' \in 0 .. MaxTrouble
    BY <1>0, <1>7 DEF CC!Throws, CC!NoToken
  <2> HIDE DEF a
  <2>3. /\ attempt' \in Attempts /\ attempt'.token \in {0, attempt.token}
        /\ attempt'.lease = "none" <=> attempt'.token = 0
        /\ attempt'.attempts = attempt.attempts /\ attempt'.status = attempt.status
        /\ attempt'.tasked = attempt.tasked /\ attempt'.sent = attempt.sent
    BY <1>0, <2>1, <2>2
  <2> QED BY <2>2, <2>3, ChaseEnds
<1>8. ASSUME NEW w \in Workers, CC!Crashes(w) PROVE ChaseInv'
  <2>1. /\ chasing' = [chasing EXCEPT ![w] = CC!Idle] /\ trouble' \in 0 .. MaxTrouble
        /\ UNCHANGED <<attempt, hour, chat, ownerTask, chaser>>
    BY <1>0, <1>8 DEF CC!Crashes
  <2> QED BY <1>0, <2>1, ChaseEnds
<1>9. CASE UNCHANGED callchasing
  BY <1>9 DEF callchasing, ChaseInv, ChaseShape, ChaseKnows, CC!CompletedMeansDone
<1> QED BY <1>1, <1>2, <1>3, <1>4, <1>5, <1>6, <1>7, <1>8, <1>9, ChaseSweeps
        DEF CC!Next, CC!TimePasses

-----------------------------------------------------------------------------
(* OwnerCall. *)

CallLeads ==
    [alertAt : OC!Times \cup {OC!Never}, out : BOOLEAN, gone : BOOLEAN,
     claimed : BOOLEAN, id : BOOLEAN, outcome : BOOLEAN]
Settling == [stage : {"settle"}, ref : OC!Times, todo : SUBSET Clients]
Claiming == [stage : {"claim"}, found : SUBSET Clients, placed : BOOLEAN]
Ringing == [stage : {"dial", "note"}, found : SUBSET Clients, at : Clients, placed : BOOLEAN]
RingStates == {OC!Idle} \cup Settling \cup Claiming \cup Ringing

\* Sweeps that have placed a call and may place another.
Pressing == {w \in Workers : ring[w].stage \in {"claim", "dial"} /\ ring[w].placed}

CallTypes ==
    /\ now \in OC!Times /\ heard \in OC!Times \cup {OC!Never} /\ slips \in 0 .. MaxSlips
    /\ lead \in [Clients -> CallLeads]
    /\ ring \in [Workers -> RingStates]
    /\ line \in [Clients -> {"none", "ringing", "ended"}]
    /\ dials \in [Clients -> Nat] /\ crowded \in Nat /\ botched \in Nat /\ botched <= slips

\* Whoever is about to ring holds the claim alone and nobody has rung before;
\* a sweep that may ring again has a call behind it that it does not know of or
\* did not note, beside the ones it rang again after.
CallInv ==
    /\ CallTypes
    /\ \A l \in Clients : dials[l] <= 1 /\ (~lead[l].claimed => dials[l] = 0)
    /\ \A w \in Workers : ring[w].stage = "dial" =>
           /\ lead[ring[w].at].claimed /\ dials[ring[w].at] = 0
           /\ \A v \in Workers : ring[v].stage = "dial" /\ ring[v].at = ring[w].at => v = w
    /\ IsFiniteSet(Pressing) /\ crowded + Cardinality(Pressing) <= botched

LEMMA CallStarts == OC!Init /\ OC!OwnerCallAssumption => CallInv
<1> SUFFICES ASSUME OC!Init, OC!OwnerCallAssumption PROVE CallInv OBVIOUS
<1>1. CallTypes
  BY DEF OC!Init, OC!OwnerCallAssumption, CallTypes, CallLeads, RingStates, OC!Times, OC!Never
<1>2. Pressing = {} BY DEF Pressing, OC!Init, OC!Idle
<1>3. IsFiniteSet(Pressing) /\ Cardinality(Pressing) = 0 BY <1>2, FS_EmptySet
<1> QED BY <1>1, <1>3 DEF CallInv, OC!Init, OC!Idle

LEMMA CallPromises == CallInv /\ OC!OwnerCallAssumption => OC!TypeOK /\ OC!RingsSparingly
<1> SUFFICES ASSUME CallInv, OC!OwnerCallAssumption PROVE OC!TypeOK /\ OC!RingsSparingly OBVIOUS
<1>1. CallTypes /\ botched \in 0 .. MaxSlips BY DEF CallInv, CallTypes, OC!OwnerCallAssumption
<1>2. OC!TypeOK
  BY <1>1 DEF CallTypes, OC!TypeOK, CallLeads, RingStates, Settling, Claiming, Ringing
<1>3. Cardinality(Pressing) \in Nat BY FS_CardinalityType DEF CallInv
<1>4. crowded \in Nat /\ botched \in Nat BY <1>1 DEF CallTypes
<1> QED BY <1>2, <1>3, <1>4 DEF CallInv, OC!RingsSparingly

LEMMA PressingLess ==
    ASSUME IsFiniteSet(Pressing), Pressing' \subseteq Pressing
    PROVE  IsFiniteSet(Pressing') /\ Cardinality(Pressing') \in Nat
           /\ Cardinality(Pressing) \in Nat /\ Cardinality(Pressing') <= Cardinality(Pressing)
  BY FS_Subset, FS_CardinalityType

LEMMA PressingMore ==
    ASSUME IsFiniteSet(Pressing), NEW w, Pressing' \subseteq Pressing \cup {w}
    PROVE  IsFiniteSet(Pressing') /\ Cardinality(Pressing') \in Nat
           /\ Cardinality(Pressing) \in Nat /\ Cardinality(Pressing') <= Cardinality(Pressing) + 1
<1> DEFINE S == Pressing \cup {w}
<1>1. IsFiniteSet(S) /\ Cardinality(S) <= Cardinality(Pressing) + 1 /\ Cardinality(Pressing) \in Nat
      /\ Cardinality(S) \in Nat
  BY FS_AddElement, FS_CardinalityType
<1>2. Pressing' \subseteq S OBVIOUS
<1> HIDE DEF S
<1>3. IsFiniteSet(Pressing') /\ Cardinality(Pressing') <= Cardinality(S) BY <1>1, <1>2, FS_Subset
<1> QED BY <1>1, <1>3, FS_CardinalityType

LEMMA PressingGone ==
    ASSUME IsFiniteSet(Pressing), NEW w \in Pressing, Pressing' \subseteq Pressing \ {w}
    PROVE  IsFiniteSet(Pressing') /\ Cardinality(Pressing') \in Nat
           /\ Cardinality(Pressing) \in Nat /\ Cardinality(Pressing') + 1 <= Cardinality(Pressing)
<1> DEFINE S == Pressing \ {w}
<1>1. IsFiniteSet(S) /\ Cardinality(S) = Cardinality(Pressing) - 1 /\ Cardinality(Pressing) \in Nat
      /\ Cardinality(S) \in Nat
  BY FS_RemoveElement, FS_CardinalityType
<1>2. Pressing' \subseteq S OBVIOUS
<1> HIDE DEF S
<1>3. IsFiniteSet(Pressing') /\ Cardinality(Pressing') <= Cardinality(S) BY <1>1, <1>2, FS_Subset
<1> QED BY <1>1, <1>3, FS_CardinalityType

\* Who holds which claim, after a step of one worker that rings nobody.
LEMMA CallGoes ==
    ASSUME CallInv, CallTypes', NEW w \in Workers, ring'[w].stage # "dial",
           \A v \in Workers : v # w => ring'[v] = ring[v],
           \A l \in Clients : lead'[l].claimed = lead[l].claimed,
           UNCHANGED <<dials, crowded>>,
           \/ /\ ring'[w].stage = "claim" /\ ring'[w].placed => w \in Pressing
              /\ botched' = botched
           \/ botched' = botched + 1
    PROVE  CallInv'
<1>1. crowded \in Nat /\ botched \in Nat BY DEF CallInv, CallTypes
<1>2. \A v \in Workers : v # w => (v \in Pressing' <=> v \in Pressing) BY DEF Pressing
<1>3. Pressing' \subseteq Pressing \cup {w} BY <1>2 DEF Pressing
<1>4. IsFiniteSet(Pressing') /\ crowded' + Cardinality(Pressing') <= botched'
  <2>1. CASE botched' = botched + 1 BY <1>1, <1>3, <2>1, PressingMore DEF CallInv
  <2>2. CASE /\ ring'[w].stage = "claim" /\ ring'[w].placed => w \in Pressing
             /\ botched' = botched
    <3>1. w \in Pressing' => w \in Pressing BY <2>2 DEF Pressing
    <3>2. Pressing' \subseteq Pressing BY <1>3, <3>1
    <3> QED BY <1>1, <2>2, <3>2, PressingLess DEF CallInv
  <2> QED BY <2>1, <2>2
<1>5. ASSUME NEW u \in Workers, ring'[u].stage = "dial"
      PROVE  /\ lead'[ring'[u].at].claimed /\ dials'[ring'[u].at] = 0
             /\ \A v \in Workers : ring'[v].stage = "dial" /\ ring'[v].at = ring'[u].at => v = u
  <2>1. ring'[u] = ring[u] /\ ring[u].stage = "dial" BY <1>5
  <2>2. ring[u].at \in Clients
    BY <2>1 DEF CallInv, CallTypes, RingStates, Settling, Claiming, Ringing, OC!Idle
  <2>3. \A v \in Workers : ring'[v].stage = "dial" => ring'[v] = ring[v] OBVIOUS
  <2> QED BY <2>1, <2>2, <2>3 DEF CallInv
<1> QED BY <1>4, <1>5 DEF CallInv

\* A step that is no worker's.
LEMMA CallKept ==
    ASSUME CallInv, CallTypes', UNCHANGED <<ring, dials, crowded, botched>>,
           \A l \in Clients : lead'[l].claimed = lead[l].claimed
    PROVE  CallInv'
<1>1. Pressing' = Pressing BY DEF Pressing
<1>2. \A w \in Workers : ring[w].stage = "dial" => ring[w].at \in Clients
  BY DEF CallInv, CallTypes, RingStates, Settling, Claiming, Ringing, OC!Idle
<1> QED BY <1>1, <1>2 DEF CallInv

LEMMA GoesOnRinging ==
    ASSUME CallTypes, NEW w \in Workers, NEW found \in SUBSET Clients, NEW placed \in BOOLEAN,
           OC!GoesOn(w, found, placed)
    PROVE  /\ ring' \in [Workers -> RingStates] /\ ring'[w].stage # "dial"
           /\ \A v \in Workers : v # w => ring'[v] = ring[v]
           /\ ring'[w].stage = "claim" /\ ring'[w].placed => placed
<1> DEFINE s == IF found = {} THEN OC!Idle
                ELSE [stage |-> "claim", found |-> found, placed |-> placed]
<1>1. /\ s \in RingStates /\ s.stage # "dial"
      /\ s.stage = "claim" /\ s.placed => placed
  BY DEF RingStates, Claiming, OC!Idle
<1>2. ring' = [ring EXCEPT ![w] = s] BY DEF OC!GoesOn
<1> HIDE DEF s
<1> QED BY <1>1, <1>2 DEF CallTypes

LEMMA RingType ==
    ASSUME CallTypes, NEW w \in Workers
    PROVE  /\ ring[w].stage = "settle" => ring[w] \in Settling
           /\ ring[w].stage = "claim" => ring[w] \in Claiming
           /\ ring[w].stage \in {"dial", "note"} => ring[w] \in Ringing
  BY DEF CallTypes, RingStates, Settling, Claiming, Ringing, OC!Idle

LEMMA SlipType ==
    ASSUME CallTypes, OC!OwnerCallAssumption, OC!Slip
    PROVE  slips' \in 0 .. MaxSlips /\ slips' = slips + 1 /\ botched <= slips' /\ botched + 1 <= slips'
  BY DEF CallTypes, OC!OwnerCallAssumption, OC!Slip

LEMMA CallClaims ==
    ASSUME CallInv, OC!OwnerCallAssumption, NEW w \in Workers, NEW l \in Clients, OC!Claims(w, l)
    PROVE  CallInv'
<1>1. CallTypes /\ ring[w] \in Claiming /\ ring[w].stage = "claim"
  BY RingType DEF CallInv, OC!Claims
<1>2. /\ ring[w].found \in SUBSET Clients /\ ring[w].placed \in BOOLEAN
      /\ lead \in [Clients -> CallLeads] /\ ring \in [Workers -> RingStates]
      /\ UNCHANGED <<now, heard, line, dials, crowded, botched, slips>>
  BY <1>1 DEF Claiming, CallTypes, OC!Claims, OC!pastCalls
<1> DEFINE rest == ring[w].found \ {l}
<1>3. rest \in SUBSET Clients BY <1>2
<1>4. CASE lead[l].claimed
  <2>1. OC!GoesOn(w, rest, ring[w].placed) /\ UNCHANGED lead BY <1>4 DEF OC!Claims, OC!IsFree
  <2>2. /\ ring' \in [Workers -> RingStates] /\ ring'[w].stage # "dial"
        /\ \A v \in Workers : v # w => ring'[v] = ring[v]
        /\ ring'[w].stage = "claim" /\ ring'[w].placed => ring[w].placed
    BY <1>1, <1>2, <1>3, <2>1, GoesOnRinging
  <2>3. CallTypes' BY <1>1, <1>2, <2>1, <2>2 DEF CallTypes
  <2>4. ring[w].placed => w \in Pressing BY <1>1 DEF Pressing
  <2> QED BY <1>2, <2>1, <2>2, <2>3, <2>4, CallGoes
<1>5. CASE ~lead[l].claimed
  <2> DEFINE s == [stage |-> "dial", found |-> rest, at |-> l, placed |-> ring[w].placed]
             c == [lead[l] EXCEPT !.claimed = TRUE]
  <2>1. lead' = [lead EXCEPT ![l] = c] /\ ring' = [ring EXCEPT ![w] = s]
    BY <1>5 DEF OC!Claims, OC!IsFree
  <2>2. /\ s \in RingStates /\ s.stage = "dial" /\ s.at = l /\ s.placed = ring[w].placed
    BY <1>2, <1>3 DEF RingStates, Ringing
  <2>3. c \in CallLeads /\ c.claimed BY <1>2 DEF CallLeads
  <2> HIDE DEF s, c
  <2>4. /\ ring' \in [Workers -> RingStates] /\ ring'[w] = s
        /\ \A v \in Workers : v # w => ring'[v] = ring[v]
        /\ lead' \in [Clients -> CallLeads] /\ lead'[l] = c
        /\ \A k \in Clients : k # l => lead'[k] = lead[k]
    BY <1>2, <2>1, <2>2, <2>3
  <2>5. CallTypes' BY <1>1, <1>2, <2>4 DEF CallTypes
  <2>6. Pressing' = Pressing BY <1>1, <2>2, <2>4 DEF Pressing
  <2>7. \A v \in Workers : ring[v].stage = "dial" => ring[v].at \in Clients /\ ring[v].at # l
    BY <1>1, <1>5, RingType DEF CallInv, Ringing
  <2>8. dials[l] = 0 BY <1>5 DEF CallInv
  <2>9. ASSUME NEW u \in Workers, ring'[u].stage = "dial"
        PROVE  /\ lead'[ring'[u].at].claimed /\ dials'[ring'[u].at] = 0
               /\ \A v \in Workers : ring'[v].stage = "dial" /\ ring'[v].at = ring'[u].at => v = u
    <3>1. CASE u = w BY <1>2, <2>2, <2>3, <2>4, <2>7, <2>8, <3>1
    <3>2. CASE u # w
      <4>1. ring'[u] = ring[u] /\ ring[u].stage = "dial" BY <2>4, <2>9, <3>2
      <4>2. ring[u].at \in Clients /\ ring[u].at # l BY <2>7, <4>1
      <4>3. \A v \in Workers : ring'[v].stage = "dial" /\ ring'[v].at = ring[u].at => ring'[v] = ring[v]
        BY <2>2, <2>4, <4>2
      <4> QED BY <1>2, <2>4, <4>1, <4>2, <4>3 DEF CallInv
    <3> QED BY <3>1, <3>2
  <2>10. \A k \in Clients : dials[k] <= 1 /\ (~lead'[k].claimed => dials[k] = 0)
    BY <2>3, <2>4 DEF CallInv
  <2> QED BY <1>2, <2>5, <2>6, <2>9, <2>10 DEF CallInv
<1> QED BY <1>4, <1>5

\* The telephony service takes the call, and the worker is no longer about to ring.
LEMMA CallTaken ==
    ASSUME CallInv, CallTypes', NEW w \in Workers, ring[w].stage = "dial", OC!Taken(w),
           ring'[w].stage # "dial", \A v \in Workers : v # w => ring'[v] = ring[v],
           UNCHANGED lead,
           \/ ring'[w].stage = "note" /\ botched' = botched
           \/ botched' = botched + 1
    PROVE  CallInv'
<1> DEFINE l == ring[w].at
<1>0. CallTypes /\ ring[w] \in Ringing BY RingType DEF CallInv
<1>1. /\ l \in Clients /\ dials \in [Clients -> Nat] /\ crowded \in Nat /\ botched \in Nat
      /\ ring[w].placed \in BOOLEAN
  BY <1>0 DEF CallTypes, Ringing
<1>2. /\ dials' = [dials EXCEPT ![l] = @ + 1]
      /\ crowded' = IF ring[w].placed THEN crowded + 1 ELSE crowded
  BY DEF OC!Taken
<1>3. lead[l].claimed /\ dials[l] = 0 /\ \A v \in Workers : ring[v].stage = "dial" /\ ring[v].at = l => v = w
  BY DEF CallInv
<1> HIDE DEF l
<1>4. dials'[l] = 1 /\ \A k \in Clients : k # l => dials'[k] = dials[k] BY <1>1, <1>2, <1>3
<1>5. \A k \in Clients : dials'[k] <= 1 /\ (~lead'[k].claimed => dials'[k] = 0)
  BY <1>3, <1>4 DEF CallInv
<1>6. \A v \in Workers : v # w => (v \in Pressing' <=> v \in Pressing) BY DEF Pressing
<1>7. Pressing' \subseteq Pressing \cup {w} BY <1>6 DEF Pressing
<1>8. w \in Pressing <=> ring[w].placed BY DEF Pressing
<1>9. IsFiniteSet(Pressing') /\ crowded' + Cardinality(Pressing') <= botched'
  <2>1. CASE ring'[w].stage = "note" /\ botched' = botched
    <3>1. w \notin Pressing' BY <2>1 DEF Pressing
    <3>2. Pressing' \subseteq Pressing \ {w} BY <1>7, <3>1
    <3>3. CASE ring[w].placed BY <1>1, <1>2, <1>8, <2>1, <3>2, <3>3, PressingGone DEF CallInv
    <3>4. CASE ~ring[w].placed BY <1>1, <1>2, <2>1, <3>2, <3>4, PressingLess DEF CallInv
    <3> QED BY <3>3, <3>4
  <2>2. CASE botched' = botched + 1
    <3>3. CASE ring[w].placed
      <4>1. Pressing' \subseteq Pressing BY <1>7, <1>8, <3>3
      <4> QED BY <1>1, <1>2, <2>2, <3>3, <4>1, PressingLess DEF CallInv
    <3>4. CASE ~ring[w].placed BY <1>1, <1>2, <1>7, <2>2, <3>4, PressingMore DEF CallInv
    <3> QED BY <3>3, <3>4
  <2> QED BY <2>1, <2>2
<1>10. ASSUME NEW u \in Workers, ring'[u].stage = "dial"
       PROVE  /\ lead'[ring'[u].at].claimed /\ dials'[ring'[u].at] = 0
              /\ \A v \in Workers : ring'[v].stage = "dial" /\ ring'[v].at = ring'[u].at => v = u
  <2>1. u # w /\ ring'[u] = ring[u] /\ ring[u].stage = "dial" BY <1>10
  <2>2. ring[u].at \in Clients /\ ring[u].at # l BY <1>0, <1>3, <2>1, RingType DEF Ringing
  <2>3. \A v \in Workers : ring'[v].stage = "dial" => ring'[v] = ring[v] OBVIOUS
  <2> QED BY <1>4, <2>1, <2>2, <2>3 DEF CallInv
<1> QED BY <1>5, <1>9, <1>10 DEF CallInv

LEMMA CallDials ==
    ASSUME CallInv, OC!OwnerCallAssumption, NEW w \in Workers, OC!Dials(w)
    PROVE  CallInv'
<1>1. CallTypes /\ ring[w] \in Ringing /\ ring[w].stage = "dial" /\ UNCHANGED <<now, lead, heard>>
  BY RingType DEF CallInv, OC!Dials
<1>2. /\ ring[w].found \in SUBSET Clients /\ ring[w].placed \in BOOLEAN /\ ring[w].at \in Clients
      /\ ring \in [Workers -> RingStates] /\ dials \in [Clients -> Nat]
      /\ line \in [Clients -> {"none", "ringing", "ended"}] /\ crowded \in Nat /\ botched \in Nat
  BY <1>1 DEF Ringing, CallTypes
<1>3. OC!Taken(w) => /\ line' \in [Clients -> {"none", "ringing", "ended"}]
                     /\ dials' \in [Clients -> Nat] /\ crowded' \in Nat
  BY <1>2 DEF OC!Taken
<1>4. CASE /\ OC!Taken(w) /\ ring' = [ring EXCEPT ![w].stage = "note", ![w].placed = TRUE]
           /\ UNCHANGED <<botched, slips>>
  <2> DEFINE s == [ring[w] EXCEPT !.stage = "note", !.placed = TRUE]
  <2>1. s \in RingStates /\ s.stage = "note" BY <1>1 DEF RingStates, Ringing
  <2>2. ring' = [ring EXCEPT ![w] = s] BY <1>2, <1>4
  <2> HIDE DEF s
  <2>3. /\ ring' \in [Workers -> RingStates] /\ ring'[w].stage = "note"
        /\ \A v \in Workers : v # w => ring'[v] = ring[v]
    BY <1>2, <2>1, <2>2
  <2>4. CallTypes' BY <1>1, <1>3, <1>4, <2>3 DEF CallTypes
  <2> QED BY <1>1, <1>4, <2>3, <2>4, CallTaken
<1>5. CASE /\ OC!Slip /\ OC!GoesOn(w, ring[w].found, ring[w].placed)
           /\ UNCHANGED <<line, dials, crowded, botched>>
  <2>1. /\ ring' \in [Workers -> RingStates] /\ ring'[w].stage # "dial"
        /\ \A v \in Workers : v # w => ring'[v] = ring[v]
        /\ ring'[w].stage = "claim" /\ ring'[w].placed => ring[w].placed
    BY <1>1, <1>2, <1>5, GoesOnRinging
  <2>2. CallTypes' BY <1>1, <1>5, <2>1, SlipType DEF CallTypes
  <2>3. ring[w].placed => w \in Pressing BY <1>1 DEF Pressing
  <2> QED BY <1>1, <1>5, <2>1, <2>2, <2>3, CallGoes
<1>6. CASE /\ OC!Slip /\ OC!Taken(w) /\ OC!GoesOn(w, ring[w].found, TRUE)
           /\ botched' = botched + 1
  <2>1. /\ ring' \in [Workers -> RingStates] /\ ring'[w].stage # "dial"
        /\ \A v \in Workers : v # w => ring'[v] = ring[v]
    BY <1>1, <1>2, <1>6, GoesOnRinging
  <2>2. CallTypes' BY <1>1, <1>2, <1>3, <1>6, <2>1, SlipType DEF CallTypes
  <2> QED BY <1>1, <1>6, <2>1, <2>2, CallTaken
<1> QED BY <1>4, <1>5, <1>6 DEF OC!Dials, OC!pastCalls

LEMMA CallNotes ==
    ASSUME CallInv, OC!OwnerCallAssumption, NEW w \in Workers, OC!Notes(w)
    PROVE  CallInv'
<1>1. /\ CallTypes /\ ring[w] \in Ringing /\ ring[w].stage = "note"
      /\ UNCHANGED <<now, heard, line, dials, crowded>>
  BY RingType DEF CallInv, OC!Notes
<1>2. /\ ring[w].found \in SUBSET Clients /\ ring[w].at \in Clients /\ botched \in Nat
      /\ ring \in [Workers -> RingStates] /\ lead \in [Clients -> CallLeads]
  BY <1>1 DEF Ringing, CallTypes
<1> DEFINE c == [lead[ring[w].at] EXCEPT !.id = TRUE]
<1>3. c \in CallLeads /\ c.claimed = lead[ring[w].at].claimed BY <1>2 DEF CallLeads
<1>4. lead' = lead \/ lead' = [lead EXCEPT ![ring[w].at] = c] BY <1>2 DEF OC!Notes
<1> HIDE DEF c
<1>5. lead' \in [Clients -> CallLeads] /\ \A l \in Clients : lead'[l].claimed = lead[l].claimed
  BY <1>2, <1>3, <1>4
<1>6. CASE ring' = [ring EXCEPT ![w] = OC!Idle] /\ UNCHANGED <<botched, slips>>
  <2>1. /\ ring' \in [Workers -> RingStates] /\ ring'[w].stage = "idle"
        /\ \A v \in Workers : v # w => ring'[v] = ring[v]
    BY <1>2, <1>6 DEF RingStates, OC!Idle
  <2>2. CallTypes' BY <1>1, <1>5, <1>6, <2>1 DEF CallTypes
  <2> QED BY <1>1, <1>5, <1>6, <2>1, <2>2, CallGoes
<1>7. CASE OC!GoesOn(w, ring[w].found, TRUE) /\ OC!Slip /\ botched' = botched + 1
  <2>1. /\ ring' \in [Workers -> RingStates] /\ ring'[w].stage # "dial"
        /\ \A v \in Workers : v # w => ring'[v] = ring[v]
    BY <1>1, <1>2, <1>7, GoesOnRinging
  <2>2. CallTypes' BY <1>1, <1>2, <1>5, <1>7, <2>1, SlipType DEF CallTypes
  <2> QED BY <1>1, <1>5, <1>7, <2>1, <2>2, CallGoes
<1> QED BY <1>6, <1>7 DEF OC!Notes, OC!OneCallPerTick

\* A worker at the start or the end of its sweep.
LEMMA CallRests ==
    ASSUME CallInv, NEW w \in Workers, NEW s \in {OC!Idle} \cup Settling \cup Claiming,
           ring' = [ring EXCEPT ![w] = s], s.stage = "claim" => ~s.placed,
           UNCHANGED <<now, heard, line, dials, crowded, botched>>,
           lead' \in [Clients -> CallLeads],
           \A l \in Clients : lead'[l].claimed = lead[l].claimed,
           slips' \in slips .. MaxSlips
    PROVE  CallInv'
<1>1. s \in RingStates /\ s.stage # "dial" BY DEF RingStates, Settling, Claiming, OC!Idle
<1>2. /\ ring' \in [Workers -> RingStates] /\ ring'[w] = s
      /\ \A v \in Workers : v # w => ring'[v] = ring[v]
  BY <1>1 DEF CallInv, CallTypes
<1>3. CallTypes'
  <2>1. slips' \in 0 .. MaxSlips /\ botched <= slips' BY DEF CallInv, CallTypes
  <2> QED BY <1>2, <2>1 DEF CallInv, CallTypes
<1> QED BY <1>1, <1>2, <1>3, CallGoes

LEMMA CallStep == CallInv /\ OC!OwnerCallAssumption /\ [OC!Next]_callingOwner => CallInv'
<1> SUFFICES ASSUME CallInv, OC!OwnerCallAssumption, [OC!Next]_callingOwner PROVE CallInv'
  OBVIOUS
<1>0. /\ CallTypes /\ lead \in [Clients -> CallLeads] /\ slips \in slips .. MaxSlips
      /\ OC!Slip => slips' \in slips .. MaxSlips
      /\ now \in OC!Times
  BY SlipType DEF CallInv, CallTypes, OC!Slip, OC!OwnerCallAssumption
<1>a. \A l \in Clients : lead[l] \in CallLeads BY <1>0
<1>1. CASE OC!TimePasses
  <2>1. now' \in OC!Times BY <1>0, <1>1 DEF OC!TimePasses, OC!Times, OC!OwnerCallAssumption
  <2>2. CallTypes' BY <1>0, <1>1, <2>1 DEF OC!TimePasses, CallTypes, OC!pastCalls
  <2> QED BY <1>1, <2>2, CallKept DEF OC!TimePasses, OC!pastCalls
<1>2. CASE OC!OwnerWrites
  <2>1. /\ heard' \in OC!Times \cup {OC!Never} /\ slips' \in 0 .. MaxSlips /\ botched <= slips'
        /\ UNCHANGED <<now, lead, ring, line, dials, crowded, botched>>
    BY <1>0, <1>2, SlipType DEF OC!OwnerWrites, CallTypes, OC!pastCalls
  <2>2. CallTypes' BY <1>0, <2>1 DEF CallTypes
  <2> QED BY <2>1, <2>2, CallKept
<1>3. ASSUME NEW l \in Clients, OC!Alerts(l) PROVE CallInv'
  <2> DEFINE c == [lead[l] EXCEPT !.alertAt = now]
  <2>1. c \in CallLeads /\ c.claimed = lead[l].claimed BY <1>0, <1>a DEF CallLeads
  <2>2. lead' = [lead EXCEPT ![l] = c] /\ UNCHANGED <<now, heard, ring, line, dials, crowded, botched, slips>>
    BY <1>3 DEF OC!Alerts, OC!pastCalls
  <2> HIDE DEF c
  <2>3. lead' \in [Clients -> CallLeads] /\ \A k \in Clients : lead'[k].claimed = lead[k].claimed
    BY <1>0, <2>1, <2>2
  <2>4. CallTypes' BY <1>0, <2>2, <2>3 DEF CallTypes
  <2> QED BY <2>2, <2>3, <2>4, CallKept
<1>4. ASSUME NEW l \in Clients, OC!StepsAside(l) PROVE CallInv'
  <2> DEFINE c == [lead[l] EXCEPT !.out = TRUE]
             d == [lead[l] EXCEPT !.gone = TRUE]
  <2>1. /\ c \in CallLeads /\ c.claimed = lead[l].claimed
        /\ d \in CallLeads /\ d.claimed = lead[l].claimed
    BY <1>a DEF CallLeads
  <2>2. /\ lead' = [lead EXCEPT ![l] = c] \/ lead' = [lead EXCEPT ![l] = d]
        /\ UNCHANGED <<now, heard, ring, line, dials, crowded, botched, slips>>
    BY <1>4 DEF OC!StepsAside, OC!pastCalls
  <2> HIDE DEF c, d
  <2>3. lead' \in [Clients -> CallLeads] /\ \A k \in Clients : lead'[k].claimed = lead[k].claimed
    BY <1>0, <2>1, <2>2
  <2>4. CallTypes' BY <1>0, <2>2, <2>3 DEF CallTypes
  <2> QED BY <2>2, <2>3, <2>4, CallKept
<1>5. ASSUME NEW l \in Clients, OC!CallEnds(l) PROVE CallInv'
  <2>1. /\ line' \in [Clients -> {"none", "ringing", "ended"}]
        /\ UNCHANGED <<now, lead, heard, ring, dials, crowded, botched, slips>>
    BY <1>0, <1>5 DEF OC!CallEnds, OC!pastCalls, CallTypes
  <2>2. CallTypes' BY <1>0, <2>1 DEF CallTypes
  <2> QED BY <2>1, <2>2, CallKept
<1>6. ASSUME NEW w \in Workers, OC!Looks(w) PROVE CallInv'
  <2> DEFINE s == [stage |-> "settle", ref |-> now, todo |-> OC!Awaiting]
  <2>1. s \in Settling /\ s.stage = "settle" BY <1>0 DEF Settling, OC!Awaiting
  <2>2. ring' = [ring EXCEPT ![w] = s]
        /\ UNCHANGED <<now, lead, heard, line, dials, crowded, botched, slips>>
    BY <1>6 DEF OC!Looks, OC!pastCalls
  <2> HIDE DEF s
  <2> QED BY <1>0, <2>1, <2>2, CallRests
<1>7. ASSUME NEW w \in Workers, NEW l \in Clients, OC!ReadsBack(w, l) PROVE CallInv'
  <2> DEFINE s == [ring[w] EXCEPT !.todo = @ \ {l}]
             c == [lead[l] EXCEPT !.outcome = TRUE]
  <2>1. ring[w] \in Settling BY <1>0, <1>7, RingType DEF OC!ReadsBack
  <2>2. s \in Settling /\ s.stage = "settle" BY <2>1 DEF Settling
  <2>3. c \in CallLeads /\ c.claimed = lead[l].claimed BY <1>a DEF CallLeads
  <2>4. /\ ring' = [ring EXCEPT ![w] = s] /\ slips' \in slips .. MaxSlips
        /\ lead' = lead \/ lead' = [lead EXCEPT ![l] = c]
        /\ UNCHANGED <<now, heard, line, dials, crowded, botched>>
    BY <1>0, <1>7 DEF OC!ReadsBack, OC!pastCalls
  <2> HIDE DEF s, c
  <2>5. lead' \in [Clients -> CallLeads] /\ \A k \in Clients : lead'[k].claimed = lead[k].claimed
    BY <1>0, <2>3, <2>4
  <2> QED BY <2>2, <2>4, <2>5, CallRests
<1>8. ASSUME NEW w \in Workers, OC!FindsLeads(w) PROVE CallInv'
  <2> DEFINE s == IF OC!OwnerIsActive(w) \/ OC!Needing(w) = {} THEN OC!Idle
                  ELSE [stage |-> "claim", found |-> OC!Needing(w), placed |-> FALSE]
  <2>1. OC!Needing(w) \in SUBSET Clients BY DEF OC!Needing
  <2>2. /\ s \in {OC!Idle} \cup Settling \cup Claiming
        /\ s.stage = "claim" => ~s.placed
    BY <2>1 DEF Claiming, OC!Idle
  <2>3. ring' = [ring EXCEPT ![w] = s]
        /\ UNCHANGED <<now, lead, heard, line, dials, crowded, botched, slips>>
    BY <1>8 DEF OC!FindsLeads, OC!pastCalls
  <2> HIDE DEF s
  <2> QED BY <1>0, <2>2, <2>3, CallRests
<1>9. ASSUME NEW w \in Workers, OC!FailsToFind(w) \/ OC!Crashes(w) PROVE CallInv'
  <2>1. /\ ring' = [ring EXCEPT ![w] = OC!Idle] /\ slips' \in slips .. MaxSlips
        /\ UNCHANGED <<now, lead, heard, line, dials, crowded, botched>>
    BY <1>0, <1>9 DEF OC!FailsToFind, OC!Crashes, OC!pastCalls
  <2>2. OC!Idle.stage # "claim" BY DEF OC!Idle
  <2> QED BY <1>0, <2>1, <2>2, CallRests
<1>10. CASE UNCHANGED callingOwner
  <2>1. UNCHANGED <<now, lead, heard, ring, line, dials, crowded, botched, slips>>
    BY <1>10 DEF callingOwner
  <2>2. CallTypes' BY <1>0, <2>1 DEF CallTypes
  <2> QED BY <2>1, <2>2, CallKept
<1> QED BY <1>1, <1>2, <1>3, <1>4, <1>5, <1>6, <1>7, <1>8, <1>9, <1>10,
           CallClaims, CallDials, CallNotes
        DEF OC!Next, OC!Sweeps

-----------------------------------------------------------------------------
(* NextFollowUp. *)

HintRequests ==
    [stage : {"idle", "read"}]
      \cup [stage : {"write"}, value : Dues \cup {NF!None}, alone : BOOLEAN]

\* A sync that nothing has disturbed carries what is the earliest due time now,
\* and so does the hint once such a sync has stored it.
HintInv ==
    /\ NF!TypeOK
    /\ \A q \in Workers : request[q].stage = "write" /\ request[q].alone
                             => request[q].value = NF!EarliestPending(due)
    /\ ~stale => hint = NF!EarliestPending(due)

\* The earliest due time is one of a pending task, and none is earlier.
LEMMA EarliestIs ==
    ASSUME NF!HintAssumption, NEW d \in [Tasks -> Dues \cup {NF!None}]
    PROVE  LET pending == {t \in Tasks : d[t] # NF!None}
           IN  /\ NF!EarliestPending(d) \in Dues \cup {NF!None}
               /\ pending = {} => NF!EarliestPending(d) = NF!None
               /\ pending # {} => /\ \E t \in pending : d[t] = NF!EarliestPending(d)
                                  /\ \A t \in pending : NF!EarliestPending(d) <= d[t]
<1> DEFINE S == {d[t] : t \in Tasks} \ {NF!None}
           pending == {t \in Tasks : d[t] # NF!None}
<1>1. S \in SUBSET Dues /\ S \in SUBSET Nat BY DEF NF!HintAssumption
<1>2. pending = {} <=> S = {} OBVIOUS
<1>3. CASE S = {} BY <1>2, <1>3 DEF NF!EarliestPending
<1>4. CASE S # {}
  <2>1. NF!EarliestPending(d) = CHOOSE x \in S : \A y \in S : x <= y
    BY <1>4 DEF NF!EarliestPending
  <2>2. \E x \in S : \A y \in S : x <= y BY <1>1, <1>4, LeastOf
  <2>3. /\ NF!EarliestPending(d) \in S
        /\ \A y \in S : NF!EarliestPending(d) <= y
    <3> HIDE DEF S
    <3> QED BY <2>1, <2>2
  <2> QED BY <1>1, <1>2, <1>4, <2>3
<1> QED BY <1>3, <1>4

LEMMA HintStarts == NF!Init /\ NF!HintAssumption => HintInv
<1> SUFFICES ASSUME NF!Init, NF!HintAssumption PROVE HintInv OBVIOUS
<1>1. NF!TypeOK
  <2>1. NF!Resting \in HintRequests BY DEF NF!Resting, HintRequests
  <2>2. request \in [Workers -> HintRequests] BY <2>1 DEF NF!Init
  <2>3. edits \in 0 .. Edits BY DEF NF!Init, NF!HintAssumption
  <2> QED BY <2>2, <2>3 DEF NF!Init, NF!TypeOK, HintRequests
<1>2. due \in [Tasks -> Dues \cup {NF!None}] /\ {t \in Tasks : due[t] # NF!None} = {}
  BY DEF NF!Init
<1>3. NF!EarliestPending(due) = NF!None BY <1>2, EarliestIs
<1> QED BY <1>1, <1>3 DEF NF!Init, HintInv, NF!Resting

LEMMA HintPromises == HintInv /\ NF!HintAssumption => NF!TypeOK /\ NF!SelfHeals
<1> SUFFICES ASSUME HintInv, NF!HintAssumption PROVE NF!TypeOK /\ NF!SelfHeals OBVIOUS
<1>1. due \in [Tasks -> Dues \cup {NF!None}] BY DEF HintInv, NF!TypeOK
<1>2. NF!SelfHeals BY <1>1, EarliestIs DEF HintInv, NF!SelfHeals
<1> QED BY <1>2 DEF HintInv

\* Disturbed syncs are not alone; the rest of a request stays.
LEMMA DisturbType ==
    ASSUME NF!TypeOK, NEW q \in Workers
    PROVE  /\ NF!Disturb(q) \in [Workers -> HintRequests]
           /\ NF!Disturb(q)[q] = request[q]
           /\ \A p \in Workers : p # q /\ NF!Disturb(q)[p].stage = "write"
                                    => ~NF!Disturb(q)[p].alone
<1>1. request \in [Workers -> HintRequests] BY DEF NF!TypeOK, HintRequests
<1>2. ASSUME NEW p \in Workers
      PROVE  LET r == [request[p] EXCEPT !.alone = FALSE] IN
             request[p].stage = "write" => r \in HintRequests /\ ~r.alone
  <2>1. request[p] \in HintRequests BY <1>1
  <2> QED BY <2>1 DEF HintRequests
<1>3. NF!Disturb(q) = [p \in Workers |-> IF p # q /\ request[p].stage = "write"
                                  THEN [request[p] EXCEPT !.alone = FALSE] ELSE request[p]]
  BY DEF NF!Disturb
<1> QED BY <1>1, <1>2, <1>3

\* A change of the tasks: no sync under way is alone any more.
LEMMA EditKeeps ==
    ASSUME HintInv, NF!HintAssumption, NEW q \in Workers,
           NEW d \in [Tasks -> Dues \cup {NF!None}], NEW s \in {"idle", "read"},
           NF!Edit(q, d, s), known' \subseteq Tasks
    PROVE  HintInv'
<1> DEFINE r == [stage |-> s]
<1>1. r \in HintRequests /\ r.stage # "write" BY DEF HintRequests
<1>2. /\ request' = [NF!Disturb(q) EXCEPT ![q] = r] /\ due' = d /\ stale' = TRUE
      /\ edits' = edits + 1 /\ edits < Edits /\ UNCHANGED hint
  BY DEF NF!Edit
<1> HIDE DEF r
<1>3. /\ request' \in [Workers -> HintRequests]
      /\ \A p \in Workers : request'[p].stage = "write" => ~request'[p].alone
  BY <1>1, <1>2, DisturbType DEF HintInv
<1>4. edits' \in 0 .. Edits BY <1>2 DEF HintInv, NF!TypeOK, NF!HintAssumption
<1>5. NF!TypeOK' BY <1>2, <1>3, <1>4 DEF HintInv, NF!TypeOK, HintRequests
<1> QED BY <1>2, <1>3, <1>5 DEF HintInv

LEMMA HintStep == HintInv /\ NF!HintAssumption /\ [NF!Next]_hinting => HintInv'
<1> SUFFICES ASSUME HintInv, NF!HintAssumption, [NF!Next]_hinting PROVE HintInv'
  OBVIOUS
<1>0. /\ due \in [Tasks -> Dues \cup {NF!None}] /\ known \subseteq Tasks
      /\ request \in [Workers -> HintRequests]
  BY DEF HintInv, NF!TypeOK, HintRequests
<1>1. ASSUME NEW q \in Workers, NEW t \in Tasks, NF!Changes(q, t) PROVE HintInv'
  <2>1. CASE NF!Close(q, t)
    <3>1. [due EXCEPT ![t] = NF!None] \in [Tasks -> Dues \cup {NF!None}] BY <1>0
    <3> QED BY <1>0, <2>1, <3>1, EditKeeps DEF NF!Close
  <2>2. ASSUME NEW x \in Dues, NF!Create(q, t, x) \/ NF!Move(q, t, x) \/ NF!MoveUnsynced(q, t, x)
        PROVE  HintInv'
    <3>1. [due EXCEPT ![t] = x] \in [Tasks -> Dues \cup {NF!None}] BY <1>0
    <3>2. known' \subseteq Tasks
      BY <1>0, <2>2 DEF NF!Create, NF!Move, NF!MoveUnsynced
    <3>3. \E s \in {"idle", "read"} : NF!Edit(q, [due EXCEPT ![t] = x], s)
      BY <2>2 DEF NF!Create, NF!Move, NF!MoveUnsynced
    <3> QED BY <3>1, <3>2, <3>3, EditKeeps
  <2> QED BY <1>1, <2>1, <2>2 DEF NF!Changes
<1>2. ASSUME NEW q \in Workers, NF!Reads(q) PROVE HintInv'
  <2> DEFINE r == [stage |-> "write", value |-> NF!EarliestPending(due), alone |-> TRUE]
  <2>1. r \in HintRequests /\ r.value = NF!EarliestPending(due)
    BY <1>0, EarliestIs DEF HintRequests
  <2>2. request' = [request EXCEPT ![q] = r] /\ UNCHANGED <<due, known, hint, stale, edits>>
    BY <1>2 DEF NF!Reads
  <2> HIDE DEF r
  <2>3. request' \in [Workers -> HintRequests] BY <1>0, <2>1, <2>2
  <2>4. NF!TypeOK' BY <2>2, <2>3 DEF HintInv, NF!TypeOK, HintRequests
  <2>5. NF!EarliestPending(due)' = NF!EarliestPending(due)
    BY <2>2 DEF NF!EarliestPending
  <2> QED BY <1>0, <2>1, <2>2, <2>4, <2>5 DEF HintInv
<1>3. ASSUME NEW q \in Workers, NF!Stores(q) PROVE HintInv'
  <2>1. /\ hint' = request[q].value /\ stale' = ~request[q].alone
        /\ request' = [NF!Disturb(q) EXCEPT ![q] = NF!Resting]
        /\ request[q].stage = "write" /\ UNCHANGED <<due, known, edits>>
    BY <1>3 DEF NF!Stores
  <2>2. request[q].value \in Dues \cup {NF!None} /\ request[q].alone \in BOOLEAN
    BY <1>0, <2>1 DEF HintRequests
  <2>3. NF!Resting \in HintRequests /\ NF!Resting.stage # "write"
    BY DEF HintRequests, NF!Resting
  <2>4. /\ request' \in [Workers -> HintRequests]
        /\ \A p \in Workers : request'[p].stage = "write" => ~request'[p].alone
    BY <2>1, <2>3, DisturbType DEF HintInv
  <2>5. NF!TypeOK' BY <2>1, <2>2, <2>4 DEF HintInv, NF!TypeOK, HintRequests
  <2>6. NF!EarliestPending(due)' = NF!EarliestPending(due)
    BY <2>1 DEF NF!EarliestPending
  <2> QED BY <2>1, <2>4, <2>5, <2>6 DEF HintInv
<1>4. ASSUME NEW q \in Workers, NF!FailsQuietly(q) PROVE HintInv'
  <2>1. NF!Resting \in HintRequests /\ NF!Resting.stage # "write"
    BY DEF HintRequests, NF!Resting
  <2>2. /\ request' = [request EXCEPT ![q] = NF!Resting] /\ stale' = TRUE
        /\ UNCHANGED <<due, known, hint, edits>>
    BY <1>4 DEF NF!FailsQuietly
  <2>3. request' \in [Workers -> HintRequests] BY <1>0, <2>1, <2>2
  <2>4. NF!TypeOK' BY <2>2, <2>3 DEF HintInv, NF!TypeOK, HintRequests
  <2>5. NF!EarliestPending(due)' = NF!EarliestPending(due)
    BY <2>2 DEF NF!EarliestPending
  <2> QED BY <1>0, <2>1, <2>2, <2>4, <2>5 DEF HintInv
<1>5. CASE UNCHANGED hinting
  <2>1. UNCHANGED <<due, known, hint, request, stale, edits>> BY <1>5 DEF hinting
  <2>2. NF!EarliestPending(due)' = NF!EarliestPending(due)
    BY <2>1 DEF NF!EarliestPending
  <2> QED BY <2>1, <2>2 DEF HintInv, NF!TypeOK
<1> QED BY <1>1, <1>2, <1>3, <1>4, <1>5 DEF NF!Next
=============================================================================
