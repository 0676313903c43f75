-------------------------- MODULE DashboardProofs --------------------------
(***************************************************************************)
(* Proofs about the dashboard, for every database, every session and any   *)
(* number of commands in flight.                                           *)
(***************************************************************************)
EXTENDS Dashboard, SequenceTheorems, TLAPS

(***************************************************************************)
(* Commands in flight.  The latest command of a kind is what the screen    *)
(* waits for, as long as answers of a kind arrive in the order of sending. *)
(***************************************************************************)
IsSeq(s) == \E S : s \in Seq(S)

AwaitsOnly(F, tag, args) ==
    \A i \in DOMAIN F :
        (F[i].tag = tag /\ \A j \in DOMAIN F : j > i => F[j].tag # tag) => F[i].args = args

Idle(F, tag) == \A i \in DOMAIN F : F[i].tag # tag

\* G holds what F holds of a kind.
SameKind(F, G, tag) ==
    /\ \A args : AwaitsOnly(F, tag, args) => AwaitsOnly(G, tag, args)
    /\ Idle(G, tag) => Idle(F, tag)

LEMMA Extended ==
    ASSUME NEW F, IsSeq(F), NEW c
    PROVE  /\ IsSeq(F \o <<c>>)
           /\ F \o <<c>> # <<>>
           /\ Len(F \o <<c>>) = Len(F) + 1 /\ Len(F) \in Nat
           /\ DOMAIN F = 1 .. Len(F)
           /\ DOMAIN (F \o <<c>>) = 1 .. Len(F) + 1
           /\ \A i \in 1 .. Len(F) : (F \o <<c>>)[i] = F[i]
           /\ (F \o <<c>>)[Len(F) + 1] = c
<1>1. PICK S : F \in Seq(S)
  BY DEF IsSeq
<1>2. F \in Seq(S \cup {c}) /\ <<c>> \in Seq(S \cup {c})
  BY <1>1
<1>3. F \o <<c>> \in Seq(S \cup {c})
  BY <1>2
<1>. QED
  BY <1>1, <1>2, <1>3 DEF IsSeq

LEMMA SendOther ==
    ASSUME NEW F, IsSeq(F), NEW c, NEW tag, c.tag # tag
    PROVE  SameKind(F, F \o <<c>>, tag)
<1> DEFINE G == F \o <<c>>  n == Len(F)
<1>1. /\ DOMAIN F = 1 .. n /\ DOMAIN G = 1 .. n + 1 /\ n \in Nat
      /\ \A i \in 1 .. n : G[i] = F[i]
      /\ G[n + 1] = c
  BY Extended
<1> HIDE DEF G, n
<1>2. ASSUME NEW args, AwaitsOnly(F, tag, args)
      PROVE  AwaitsOnly(G, tag, args)
  BY <1>1, <1>2 DEF AwaitsOnly
<1>3. Idle(G, tag) => Idle(F, tag)
  BY <1>1 DEF Idle
<1>. QED
  BY <1>2, <1>3 DEF SameKind, G

LEMMA SendSame ==
    ASSUME NEW F, IsSeq(F), NEW c
    PROVE  AwaitsOnly(F \o <<c>>, c.tag, c.args) /\ ~Idle(F \o <<c>>, c.tag)
<1> DEFINE G == F \o <<c>>  n == Len(F)
<1>1. DOMAIN G = 1 .. n + 1 /\ n \in Nat /\ G[n + 1] = c
  BY Extended
<1> HIDE DEF G, n
<1>2. AwaitsOnly(G, c.tag, c.args) /\ ~Idle(G, c.tag)
  BY <1>1 DEF AwaitsOnly, Idle
<1>. QED
  BY <1>2 DEF G

LEMMA Removed ==
    ASSUME NEW F, IsSeq(F), NEW i \in DOMAIN F
    PROVE  /\ IsSeq(RemoveAt(F, i))
           /\ DOMAIN F = 1 .. Len(F) /\ Len(F) \in Nat
           /\ DOMAIN RemoveAt(F, i) = 1 .. Len(F) - 1
           /\ \A k \in 1 .. Len(F) - 1 : RemoveAt(F, i)[k] = F[IF k < i THEN k ELSE k + 1]
<1>1. PICK S : F \in Seq(S)
  BY DEF IsSeq
<1>2. DOMAIN F = 1 .. Len(F) /\ Len(F) \in Nat /\ i \in 1 .. Len(F)
  BY <1>1
<1> DEFINE A == SubSeq(F, 1, i - 1)  B == SubSeq(F, i + 1, Len(F))
<1>3. A \in Seq(S) /\ Len(A) = i - 1 /\ \A k \in 1 .. i - 1 : A[k] = F[k]
  BY <1>1, <1>2
<1>4. B \in Seq(S) /\ Len(B) = Len(F) - i /\ \A k \in 1 .. Len(F) - i : B[k] = F[i + k]
  BY <1>1, <1>2
<1>5. RemoveAt(F, i) = A \o B
  BY DEF RemoveAt
<1> HIDE DEF A, B
<1>6. /\ A \o B \in Seq(S) /\ Len(A \o B) = Len(F) - 1
      /\ \A k \in 1 .. Len(A) + Len(B) :
            (A \o B)[k] = IF k <= Len(A) THEN A[k] ELSE B[k - Len(A)]
  <2>1. /\ A \o B \in Seq(S) /\ Len(A \o B) = Len(A) + Len(B)
        /\ \A k \in 1 .. Len(A) + Len(B) :
              (A \o B)[k] = IF k <= Len(A) THEN A[k] ELSE B[k - Len(A)]
    BY <1>3, <1>4, ConcatProperties
  <2>2. Len(A) + Len(B) = Len(F) - 1
    BY <1>2, <1>3, <1>4
  <2>. QED
    BY <2>1, <2>2
<1>7. DOMAIN (A \o B) = 1 .. Len(F) - 1
  BY <1>6
<1>8. ASSUME NEW k \in 1 .. Len(F) - 1
      PROVE  (A \o B)[k] = F[IF k < i THEN k ELSE k + 1]
  <2> DEFINE n == Len(F)  C == A \o B
  <2>1. n \in Nat /\ i \in 1 .. n /\ k \in 1 .. n - 1
    BY <1>2
  <2>2. C[k] = IF k <= i - 1 THEN A[k] ELSE B[k - (i - 1)]
    BY <1>2, <1>3, <1>4, <1>6
  <2>3. \A j \in 1 .. i - 1 : A[j] = F[j]
    BY <1>3
  <2>4. \A j \in 1 .. n - i : B[j] = F[i + j]
    BY <1>4
  <2> HIDE DEF n, C
  <2>5. CASE k < i
    <3>1. C[k] = A[k] /\ k \in 1 .. i - 1
      BY <2>1, <2>2, <2>5
    <3>. QED
      BY <2>3, <2>5, <3>1 DEF C
  <2>6. CASE ~(k < i)
    <3>1. C[k] = B[k - (i - 1)] /\ k - (i - 1) \in 1 .. n - i /\ i + (k - (i - 1)) = k + 1
      BY <2>1, <2>2, <2>6
    <3>2. B[k - (i - 1)] = F[i + (k - (i - 1))]
      BY <2>4, <3>1
    <3>. QED
      BY <2>6, <3>1, <3>2 DEF C
  <2>. QED
    BY <2>5, <2>6
<1>. QED
  BY <1>2, <1>5, <1>6, <1>7, <1>8 DEF IsSeq

LEMMA RemoveOther ==
    ASSUME NEW F, IsSeq(F), NEW i \in DOMAIN F, NEW tag, F[i].tag # tag
    PROVE  SameKind(F, RemoveAt(F, i), tag)
<1> DEFINE G == RemoveAt(F, i)  n == Len(F)
<1>1. /\ DOMAIN F = 1 .. n /\ n \in Nat /\ DOMAIN G = 1 .. n - 1
      /\ \A k \in 1 .. n - 1 : G[k] = F[IF k < i THEN k ELSE k + 1]
  BY Removed
<1> HIDE DEF G, n
<1>2. ASSUME NEW k \in DOMAIN F, k # i
      PROVE  LET g == IF k < i THEN k ELSE k - 1
             IN  g \in DOMAIN G /\ G[g] = F[k]
  <2>1. CASE k < i
    BY <1>1, <1>2, <2>1
  <2>2. CASE k > i
    BY <1>1, <1>2, <2>2
  <2>. QED
    BY <1>1, <1>2, <2>1, <2>2
<1>3. ASSUME NEW args, AwaitsOnly(F, tag, args), NEW k \in DOMAIN G, G[k].tag = tag,
             \A j \in DOMAIN G : j > k => G[j].tag # tag
      PROVE  G[k].args = args
  <2> DEFINE f == IF k < i THEN k ELSE k + 1
  <2>1. f \in DOMAIN F /\ F[f] = G[k]
    BY <1>1, <1>3
  <2>2. ASSUME NEW j \in DOMAIN F, j > f
        PROVE  F[j].tag # tag
    <3>1. CASE j = i
      BY <3>1
    <3>2. CASE j # i
      <4>1. (IF j < i THEN j ELSE j - 1) > k
        BY <1>1, <2>2, <3>2
      <4>. QED
        BY <1>2, <1>3, <3>2, <4>1
    <3>. QED
      BY <3>1, <3>2
  <2>. QED
    BY <1>3, <2>1, <2>2 DEF AwaitsOnly
<1>4. Idle(G, tag) => Idle(F, tag)
  BY <1>2 DEF Idle
<1>5. ASSUME NEW args, AwaitsOnly(F, tag, args)
      PROVE  AwaitsOnly(G, tag, args)
  BY <1>3, <1>5 DEF AwaitsOnly
<1>. QED
  BY <1>4, <1>5 DEF SameKind, G

\* The oldest answer of its kind: what is awaited stays awaited, and the last
\* one of the kind is the one that was awaited.
LEMMA RemoveOldest ==
    ASSUME NEW F, IsSeq(F), NEW i \in DOMAIN F, NEW args, AwaitsOnly(F, F[i].tag, args),
           \A j \in 1 .. i - 1 : F[j].tag # F[i].tag
    PROVE  /\ AwaitsOnly(RemoveAt(F, i), F[i].tag, args)
           /\ Idle(RemoveAt(F, i), F[i].tag) => F[i].args = args
<1> DEFINE G == RemoveAt(F, i)  n == Len(F)  tag == F[i].tag
<1>1. /\ DOMAIN F = 1 .. n /\ n \in Nat /\ DOMAIN G = 1 .. n - 1
      /\ \A k \in 1 .. n - 1 : G[k] = F[IF k < i THEN k ELSE k + 1]
  BY Removed
<1>2. \A j \in 1 .. i - 1 : F[j].tag # tag
  OBVIOUS
<1>3. AwaitsOnly(F, tag, args)
  OBVIOUS
<1>4. F[i].tag = tag
  OBVIOUS
<1> HIDE DEF G, n, tag
<1>5. \A k \in DOMAIN F : k > i => k - 1 \in DOMAIN G /\ G[k - 1] = F[k]
  BY <1>1
<1>6. ASSUME NEW k \in DOMAIN G, G[k].tag = tag, \A j \in DOMAIN G : j > k => G[j].tag # tag
      PROVE  G[k].args = args
  <2>1. ~(k < i)
    BY <1>1, <1>2, <1>6
  <2>2. k + 1 \in DOMAIN F /\ F[k + 1] = G[k]
    BY <1>1, <1>6, <2>1
  <2>3. ASSUME NEW j \in DOMAIN F, j > k + 1 PROVE F[j].tag # tag
    <3>1. j > i /\ j - 1 > k
      BY <1>1, <2>1, <2>3
    <3>. QED
      BY <1>5, <1>6, <3>1
  <2>. QED
    BY <1>3, <1>6, <2>2, <2>3 DEF AwaitsOnly
<1>7. ASSUME Idle(G, tag) PROVE F[i].args = args
  <2>1. \A j \in DOMAIN F : j > i => F[j].tag # tag
    BY <1>5, <1>7 DEF Idle
  <2>. QED
    BY <1>3, <1>4, <2>1 DEF AwaitsOnly
<1>8. AwaitsOnly(G, tag, args)
  BY <1>6 DEF AwaitsOnly
<1>. QED
  BY <1>7, <1>8 DEF G, tag

(***************************************************************************)
(* The invariant.                                                          *)
(***************************************************************************)
Fields == {"page", "data", "selectedEntityId", "selectedEntityHistory", "entityEditor",
           "entityEditorFormat", "entityAttributeDrafts", "entityDraftId", "entityDraftFacts",
           "entityOriginalFacts", "jsonEdited", "entityTypeScope", "selectedEntityType",
           "entityTypePage", "entityTypeCursor", "entityTypeBackStack", "formFilled",
           "selectedConfigObject", "configEditor", "configDraftObject", "configTargetRef",
           "queryText", "queryResult", "temporalPanelOpen", "basis", "basisDraft", "busy",
           "error", "notice"}

Pages == {"overview", "entities", "forms", "query", "journal", "config"}

\* What a dashboard answer says of the configuration was true when it was read.
DataOK(data, rels) ==
    /\ data.releases \subseteq rels
    /\ DOMAIN data.live \subseteq data.objects /\ data.objects \subseteq ToSet(ConfigObjects)

\* The page is the one the arguments of a read ask for.
PageOf(page, args) ==
    /\ page.entityType = args.entityType
    /\ IF args.cursor = NoCursor THEN args.basis # 0 => page.basis = args.basis
       ELSE page.basis = args.cursor[2]

\* A save changes the facts of edited attributes only.
EditedOnly(args) ==
    \A f \in (args.opened \ args.facts) \cup (args.facts \ args.opened) : f[1] \in args.edited

CommandOK(c, rels, reg) ==
    /\ c = [tag |-> c.tag, args |-> c.args, answered |-> c.answered, ok |-> c.ok,
            answer |-> c.answer]
    /\ c.ok \in BOOLEAN /\ c.answered \in BOOLEAN
    /\ c.tag = "LoadDashboard" /\ c.ok =>
          c.answer.basis = c.args.basis /\ DataOK(c.answer, rels)
    /\ c.tag = "LoadEntityTypePage" /\ c.ok => PageOf(c.answer, c.args)
    /\ c.tag = "SaveEntity" => EditedOnly(c.args)
    /\ c.tag = "SaveConfig" =>
          /\ c.args.object \in ToSet(ConfigObjects)
          /\ c.args.operation # "create" /\ ~reg => c.args.identity = c.args.object
    /\ c.tag = "MoveConfigRef" => c.args.release \in rels

FlightOK ==
    /\ IsSeq(flight)
    /\ \A i \in DOMAIN flight : CommandOK(flight[i], releases, regressed)

TypesOK ==
    /\ DOMAIN model = Fields /\ model.page \in Pages /\ model.busy \in BOOLEAN
    /\ overtaken \in BOOLEAN /\ regressed \in BOOLEAN

\* What the screen shows, or the latest answer it waits for, is of the basis,
\* the type, the cursor and the entity that are selected.
PageWish == [entityType |-> model.selectedEntityType, cursor |-> model.entityTypeCursor,
             basis |-> model.basis]

DataAgrees ==
    /\ AwaitsOnly(flight, "LoadDashboard", [basis |-> model.basis])
    /\ Idle(flight, "LoadDashboard") => model.data.basis = model.basis

PageAgrees ==
    Idle(flight, "LoadDashboard") /\ model.selectedEntityType # Null =>
        /\ AwaitsOnly(flight, "LoadEntityTypePage", PageWish)
        /\ Idle(flight, "LoadEntityTypePage") => PageOf(model.entityTypePage, PageWish)

HistoryAgrees ==
    model.entityTypePage.entities # <<>> =>
        /\ AwaitsOnly(flight, "LoadEntityHistory", [entity |-> model.selectedEntityId])
        /\ Idle(flight, "LoadEntityHistory") =>
              model.selectedEntityHistory = model.selectedEntityId

ScreenInv == ~overtaken => DataAgrees /\ PageAgrees /\ HistoryAgrees

\* The object under the editor is selected and stays listed.
ConfigInv ==
    /\ live \in releases
    /\ \A r \in releases : DOMAIN r \subseteq ToSet(ConfigObjects)
    /\ DataOK(model.data, releases)
    /\ model.configEditor # "closed" => model.configDraftObject \in ToSet(ConfigObjects)
    /\ model.configEditor \notin {"closed", "create"} /\ ~regressed =>
          /\ model.selectedConfigObject = model.configDraftObject
          /\ model.selectedConfigObject \in model.data.objects

\* Unless the JSON was edited, the draft differs from what was opened in
\* touched attributes only, and an untouched attribute that has facts is on the
\* form and not cleared.
DraftOK(D, O, F, json) ==
    /\ \A a \in DOMAIN D :
          /\ D[a] = [value |-> D[a].value, cleared |-> D[a].cleared, touched |-> D[a].touched]
          /\ D[a].cleared \in BOOLEAN /\ D[a].touched \in BOOLEAN
    /\ json \in BOOLEAN
    /\ ~json =>
          /\ \A f \in (O \ F) \cup (F \ O) : f[1] \in DOMAIN D /\ D[f[1]].touched
          /\ \A f \in O : f[1] \in DOMAIN D /\ (D[f[1]].cleared => D[f[1]].touched)

EditInv == DraftOK(model.entityAttributeDrafts, model.entityOriginalFacts,
                   model.entityDraftFacts, model.jsonEdited)

DashboardInv ==
    TypesOK /\ FlightOK /\ BusyMeansWork /\ ScreenInv /\ ConfigInv /\ EditInv
    /\ UntouchedFactsSurvive

LEMMA InvImplies == DashboardInv => ScreenConsistent /\ WritesAreIntended
<1> SUFFICES ASSUME DashboardInv PROVE ScreenConsistent /\ WritesAreIntended
  OBVIOUS
<1>1. ASSUME flight = <<>>, ~overtaken PROVE
        /\ model.data.basis = model.basis
        /\ model.selectedEntityType # Null =>
              /\ model.entityTypePage.entityType = model.selectedEntityType
              /\ IF model.entityTypeCursor = NoCursor
                 THEN model.basis # 0 => model.entityTypePage.basis = model.basis
                 ELSE model.entityTypePage.basis = model.entityTypeCursor[2]
        /\ model.entityTypePage.entities # <<>> =>
              model.selectedEntityHistory = model.selectedEntityId
  <2>1. \A tag : Idle(flight, tag)
    BY <1>1 DEF Idle
  <2>. QED
    BY <1>1, <2>1 DEF DashboardInv, ScreenInv, DataAgrees, PageAgrees, HistoryAgrees, PageOf, PageWish
<1>2. ScreenConsistent
  BY <1>1 DEF DashboardInv, ScreenConsistent, SettledViewAgrees
<1>3. PublishTargetsDraft
  BY DEF DashboardInv, PublishTargetsDraft, FlightOK, CommandOK
<1>. QED
  BY <1>2, <1>3 DEF DashboardInv, WritesAreIntended

LEMMA InitInv == DInit => DashboardInv
<1> SUFFICES ASSUME DInit PROVE DashboardInv
  OBVIOUS
<1> DEFINE c == LoadDashboard(0)
<1>1. flight = <<c>> /\ model = InitialModel /\ releases = {InitialLive} /\ live = InitialLive
      /\ overtaken = FALSE /\ regressed = FALSE
  BY DEF DInit
<1>2. /\ c = [tag |-> "LoadDashboard", args |-> [basis |-> 0], answered |-> FALSE, ok |-> FALSE,
              answer |-> Null]
  BY DEF LoadDashboard, Command
<1> HIDE DEF c
<1>3. TypesOK
  BY <1>1 DEF TypesOK, InitialModel, Fields, Pages
<1>4. IsSeq(flight) /\ flight # <<>> /\ DOMAIN flight = {1} /\ flight[1] = c
  <2>1. flight \in Seq({c})
    BY <1>1
  <2>2. flight # <<>> /\ DOMAIN flight = {1} /\ flight[1] = c
    BY <1>1
  <2>. QED
    BY <2>1, <2>2 DEF IsSeq
<1>5. FlightOK
  <2>1. CommandOK(c, releases, regressed)
    BY <1>2 DEF CommandOK
  <2>. QED
    BY <1>4, <2>1 DEF FlightOK
<1>6. ScreenInv
  BY <1>1, <1>2, <1>4 DEF ScreenInv, DataAgrees, PageAgrees, HistoryAgrees, AwaitsOnly, Idle, InitialModel, NoPage, Null
<1>7. ConfigInv
  BY <1>1, ConfigObjectsAssumption DEF ConfigInv, DataOK, InitialModel, NoData
<1>8. EditInv
  BY <1>1 DEF EditInv, DraftOK, InitialModel
<1>9. UntouchedFactsSurvive
  BY DEF DInit, UntouchedFactsSurvive
<1>. QED
  BY <1>3, <1>4, <1>5, <1>6, <1>7, <1>8, <1>9 DEF DashboardInv, BusyMeansWork

(***************************************************************************)
(* What a step that leaves a part of the model alone keeps.                *)
(***************************************************************************)
SameScreen ==
    /\ model'.data = model.data /\ model'.basis = model.basis
    /\ model'.selectedEntityType = model.selectedEntityType
    /\ model'.entityTypePage = model.entityTypePage
    /\ model'.entityTypeCursor = model.entityTypeCursor
    /\ model'.selectedEntityId = model.selectedEntityId
    /\ model'.selectedEntityHistory = model.selectedEntityHistory

SameConfig ==
    /\ model'.data = model.data /\ model'.configEditor = model.configEditor
    /\ model'.configDraftObject = model.configDraftObject
    /\ model'.selectedConfigObject = model.selectedConfigObject

SameEdit ==
    /\ model'.entityAttributeDrafts = model.entityAttributeDrafts
    /\ model'.entityOriginalFacts = model.entityOriginalFacts
    /\ model'.entityDraftFacts = model.entityDraftFacts
    /\ model'.jsonEdited = model.jsonEdited

KeepsKinds == \A tag \in {"LoadDashboard", "LoadEntityTypePage", "LoadEntityHistory"} :
    SameKind(flight, flight', tag)

Shaped == DOMAIN model' = Fields /\ model'.page \in Pages /\ model'.busy \in BOOLEAN

Elsewhere == UNCHANGED <<releases, live, overtaken, regressed, lastSave>>

LEMMA ScreenKept ==
    ASSUME DashboardInv, SameScreen, KeepsKinds, overtaken' = overtaken
    PROVE  ScreenInv'
<1> SUFFICES ASSUME ~overtaken PROVE DataAgrees' /\ PageAgrees' /\ HistoryAgrees'
  BY DEF ScreenInv
<1>1. DataAgrees /\ PageAgrees /\ HistoryAgrees
  BY DEF DashboardInv, ScreenInv
<1>2. /\ SameKind(flight, flight', "LoadDashboard")
      /\ SameKind(flight, flight', "LoadEntityTypePage")
      /\ SameKind(flight, flight', "LoadEntityHistory")
  BY DEF KeepsKinds
<1>3. DataAgrees'
  BY <1>1, <1>2 DEF DataAgrees, SameKind, SameScreen
<1>4. PageAgrees'
  <2>1. PageWish' = PageWish
    BY DEF PageWish, SameScreen
  <2>. QED
    BY <1>1, <1>2, <2>1 DEF PageAgrees, SameKind, SameScreen
<1>5. HistoryAgrees'
  BY <1>1, <1>2 DEF HistoryAgrees, SameKind, SameScreen
<1>. QED
  BY <1>3, <1>4, <1>5

LEMMA ConfigKept ==
    ASSUME DashboardInv, SameConfig, Elsewhere
    PROVE  ConfigInv'
BY DEF DashboardInv, ConfigInv, SameConfig, Elsewhere

LEMMA EditKept ==
    ASSUME DashboardInv, SameEdit
    PROVE  EditInv'
BY DEF DashboardInv, EditInv, SameEdit

LEMMA SavesKept ==
    ASSUME DashboardInv, lastSave' = lastSave
    PROVE  UntouchedFactsSurvive'
BY DEF DashboardInv, UntouchedFactsSurvive

LEMMA QuietFlight ==
    ASSUME DashboardInv, flight' = flight, Elsewhere
    PROVE  FlightOK' /\ KeepsKinds
<1>1. FlightOK'
  BY DEF DashboardInv, FlightOK, Elsewhere
<1>2. KeepsKinds
  BY DEF KeepsKinds, SameKind
<1>. QED
  BY <1>1, <1>2

\* A queue extended by a sound command is sound.
LEMMA ExtendOK ==
    ASSUME NEW F, IsSeq(F), NEW rels, NEW reg, NEW c, CommandOK(c, rels, reg),
           \A j \in DOMAIN F : CommandOK(F[j], rels, reg)
    PROVE  /\ IsSeq(F \o <<c>>)
           /\ \A j \in DOMAIN (F \o <<c>>) : CommandOK((F \o <<c>>)[j], rels, reg)
<1> DEFINE G == F \o <<c>>  n == Len(F)
<1>1. /\ IsSeq(G) /\ DOMAIN F = 1 .. n /\ DOMAIN G = 1 .. n + 1 /\ n \in Nat
      /\ \A i \in 1 .. n : G[i] = F[i]
      /\ G[n + 1] = c
  BY Extended
<1> HIDE DEF G, n
<1>2. \A j \in DOMAIN G : CommandOK(G[j], rels, reg)
  <2> SUFFICES ASSUME NEW j \in DOMAIN G PROVE CommandOK(G[j], rels, reg)
    OBVIOUS
  <2>1. CASE j = n + 1
    BY <1>1, <2>1
  <2>2. CASE j \in DOMAIN F
    BY <1>1, <2>2
  <2>. QED
    BY <1>1, <2>1, <2>2
<1>. QED
  BY <1>1, <1>2 DEF G

LEMMA SentFlight ==
    ASSUME DashboardInv, Elsewhere, NEW c, flight' = flight \o <<c>>,
           CommandOK(c, releases, regressed)
    PROVE  /\ FlightOK' /\ flight' # <<>>
           /\ \A tag : tag # c.tag => SameKind(flight, flight', tag)
           /\ AwaitsOnly(flight', c.tag, c.args) /\ ~Idle(flight', c.tag)
<1>1. IsSeq(flight) /\ \A i \in DOMAIN flight : CommandOK(flight[i], releases, regressed)
  BY DEF DashboardInv, FlightOK
<1>2. flight' # <<>>
  BY <1>1, Extended
<1>3. IsSeq(flight') /\ \A i \in DOMAIN flight' : CommandOK(flight'[i], releases, regressed)
  BY <1>1, ExtendOK
<1>4. FlightOK'
  BY <1>3 DEF FlightOK, Elsewhere
<1>5. \A tag : tag # c.tag => SameKind(flight, flight', tag)
  BY <1>1, SendOther
<1>6. AwaitsOnly(flight', c.tag, c.args) /\ ~Idle(flight', c.tag)
  BY <1>1, SendSame
<1>. QED
  BY <1>2, <1>4, <1>5, <1>6

\* A message without a command, which leaves the screen's entities alone.
LEMMA QuietStep ==
    ASSUME DashboardInv, Shaped, flight' = flight, model'.busy = model.busy, SameScreen,
           Elsewhere, ConfigInv', EditInv'
    PROVE  DashboardInv'
<1>1. TypesOK'
  BY DEF DashboardInv, TypesOK, Shaped, Elsewhere
<1>2. FlightOK' /\ KeepsKinds
  BY QuietFlight
<1>3. BusyMeansWork'
  BY DEF DashboardInv, BusyMeansWork
<1>4. ScreenInv' /\ UntouchedFactsSurvive'
  BY <1>2, ScreenKept, SavesKept DEF Elsewhere
<1>. QED
  BY <1>1, <1>2, <1>3, <1>4 DEF DashboardInv

\* A message that sends one command.
LEMMA SendStep ==
    ASSUME DashboardInv, Shaped, Elsewhere, NEW c, flight' = flight \o <<c>>,
           CommandOK(c, releases, regressed), ScreenInv', ConfigInv', EditInv'
    PROVE  DashboardInv'
<1>1. TypesOK'
  BY DEF DashboardInv, TypesOK, Shaped, Elsewhere
<1>2. FlightOK' /\ BusyMeansWork'
  BY SentFlight DEF BusyMeansWork
<1>3. UntouchedFactsSurvive'
  BY SavesKept DEF Elsewhere
<1>. QED
  BY <1>1, <1>2, <1>3 DEF DashboardInv

\* The same, when the screen does not wait for the command.
LEMMA SendAside ==
    ASSUME DashboardInv, Shaped, Elsewhere, NEW c, flight' = flight \o <<c>>,
           CommandOK(c, releases, regressed), SameScreen, ConfigInv', EditInv',
           c.tag \notin {"LoadDashboard", "LoadEntityTypePage", "LoadEntityHistory"}
    PROVE  DashboardInv'
<1>1. KeepsKinds
  BY SentFlight DEF KeepsKinds
<1>2. ScreenInv'
  BY <1>1, ScreenKept DEF Elsewhere
<1>. QED
  BY <1>2, SendStep

(***************************************************************************)
(* The user's messages.                                                    *)
(***************************************************************************)
LEMMA UserElsewhere ==
    ASSUME NEW message, User(message)
    PROVE  Elsewhere
BY DEF User, Elsewhere

LEMMA PlainMessages ==
    ASSUME DashboardInv,
           \/ \E p \in Pages : SelectedPage(p)
           \/ ToggledTemporalPanel
           \/ \E b : ChangedTemporalDraft(b)
           \/ \E text : ChangedQueryText(text)
           \/ ChangedFormField \/ RequestedValidateForm \/ ClosedEntityEditor
           \/ \E name : ChangedConfigTargetRef(name)
    PROVE  DashboardInv'
<1>1. DOMAIN model = Fields /\ model.page \in Pages /\ model.busy \in BOOLEAN
  BY DEF DashboardInv, TypesOK
<1>2. flight' = flight /\ Elsewhere
  BY UserElsewhere DEF SelectedPage, ToggledTemporalPanel, ChangedTemporalDraft, ChangedQueryText,
     ChangedFormField, RequestedValidateForm, ClosedEntityEditor, ChangedConfigTargetRef, Quiet
<1>3. Shaped /\ model'.busy = model.busy /\ SameScreen /\ SameConfig /\ SameEdit
  <2>1. CASE \E p \in Pages : SelectedPage(p)
    BY <1>1, <2>1 DEF SelectedPage, Fields, Shaped, SameScreen, SameConfig, SameEdit
  <2>2. CASE ToggledTemporalPanel
    BY <1>1, <2>2 DEF ToggledTemporalPanel, Fields, Shaped, SameScreen, SameConfig, SameEdit
  <2>3. CASE \E b : ChangedTemporalDraft(b)
    <3>1. PICK b : model' = [model EXCEPT !.basisDraft = b, !.notice = Null]
      BY <2>3 DEF ChangedTemporalDraft
    <3>. QED
      BY <1>1, <3>1 DEF Fields, Shaped, SameScreen, SameConfig, SameEdit
  <2>4. CASE \E text : ChangedQueryText(text)
    <3>1. PICK text, none : model' = [model EXCEPT !.queryText = text, !.queryResult = none, !.notice = Null]
      BY <2>4 DEF ChangedQueryText
    <3>. QED
      BY <1>1, <3>1 DEF Fields, Shaped, SameScreen, SameConfig, SameEdit
  <2>5. CASE ChangedFormField
    BY <1>1, <2>5 DEF ChangedFormField, Fields, Shaped, SameScreen, SameConfig, SameEdit
  <2>6. CASE RequestedValidateForm
    BY <1>1, <2>6 DEF RequestedValidateForm, Fields, Shaped, SameScreen, SameConfig, SameEdit
  <2>7. CASE ClosedEntityEditor
    BY <1>1, <2>7 DEF ClosedEntityEditor, Fields, Shaped, SameScreen, SameConfig, SameEdit
  <2>8. CASE \E name : ChangedConfigTargetRef(name)
    BY <1>1, <2>8 DEF ChangedConfigTargetRef, Fields, Shaped, SameScreen, SameConfig, SameEdit
  <2>. QED
    BY <2>1, <2>2, <2>3, <2>4, <2>5, <2>6, <2>7, <2>8
<1>4. ConfigInv' /\ EditInv'
  BY <1>2, <1>3, ConfigKept, EditKept
<1>. QED
  BY <1>2, <1>3, <1>4, QuietStep

LEMMA QueryMessages ==
    ASSUME DashboardInv, RequestedQuery \/ RequestedNextQueryPage
    PROVE  DashboardInv'
<1>1. DOMAIN model = Fields /\ model.page \in Pages /\ model.busy \in BOOLEAN
  BY DEF DashboardInv, TypesOK
<1>2. Elsewhere /\ \E next : flight' = flight \o <<RunQuery(model.queryText, next, model.basis)>>
  BY UserElsewhere DEF RequestedQuery, RequestedNextQueryPage, Send
<1>3. Shaped /\ SameScreen /\ SameConfig /\ SameEdit
  <2>1. CASE RequestedQuery
    BY <1>1, <2>1 DEF RequestedQuery, Fields, Shaped, SameScreen, SameConfig, SameEdit
  <2>2. CASE RequestedNextQueryPage
    BY <1>1, <2>2 DEF RequestedNextQueryPage, Fields, Shaped, SameScreen, SameConfig, SameEdit
  <2>. QED
    BY <2>1, <2>2
<1>4. PICK next : flight' = flight \o <<RunQuery(model.queryText, next, model.basis)>>
  BY <1>2
<1> DEFINE c == RunQuery(model.queryText, next, model.basis)
<1>5. CommandOK(c, releases, regressed) /\ c.tag = "RunQuery"
  BY DEF CommandOK, RunQuery, Command
<1>6. ConfigInv' /\ EditInv'
  BY <1>2, <1>3, ConfigKept, EditKept
<1> HIDE DEF c
<1>7. flight' = flight \o <<c>>
  BY <1>4 DEF c
<1>. QED
  BY <1>2, <1>3, <1>5, <1>6, <1>7, SendAside

LEMMA LoadMessages ==
    ASSUME DashboardInv,
           RequestedRefresh \/ RequestedApplyTemporalBasis \/ RequestedLatestTemporalBasis
    PROVE  DashboardInv'
<1>1. DOMAIN model = Fields /\ model.page \in Pages /\ model.busy \in BOOLEAN
  BY DEF DashboardInv, TypesOK
<1>2. Elsewhere
  BY UserElsewhere DEF RequestedRefresh, RequestedApplyTemporalBasis, RequestedLatestTemporalBasis
<1>3. CASE flight' = flight /\ model' = [model EXCEPT !.error = TRUE, !.notice = Null]
  <2>1. Shaped /\ model'.busy = model.busy /\ SameScreen /\ SameConfig /\ SameEdit
    BY <1>1, <1>3 DEF Fields, Shaped, SameScreen, SameConfig, SameEdit
  <2>2. ConfigInv' /\ EditInv'
    BY <1>2, <2>1, ConfigKept, EditKept
  <2>. QED
    BY <1>2, <1>3, <2>1, <2>2, QuietStep
<1>4. CASE ~(flight' = flight /\ model' = [model EXCEPT !.error = TRUE, !.notice = Null])
  <2>1. /\ Shaped /\ SameConfig /\ SameEdit
        /\ flight' = flight \o <<LoadDashboard(model'.basis)>>
        /\ model'.entityTypePage = model.entityTypePage
        /\ model'.selectedEntityId = model.selectedEntityId
        /\ model'.selectedEntityHistory = model.selectedEntityHistory
    <3>1. CASE RequestedRefresh
      BY <1>1, <3>1 DEF RequestedRefresh, Fields, Shaped, SameConfig, SameEdit, Send
    <3>2. CASE RequestedApplyTemporalBasis
      <4>1. /\ model' = [model EXCEPT !.basis = model.basisDraft, !.queryResult = NoResult,
                                      !.temporalPanelOpen = FALSE, !.busy = TRUE,
                                      !.error = FALSE, !.notice = Null]
            /\ flight' = flight \o <<LoadDashboard(model.basisDraft)>>
        BY <1>4, <3>2 DEF RequestedApplyTemporalBasis, Send, Quiet
      <4>. QED
        BY <1>1, <4>1 DEF Fields, Shaped, SameConfig, SameEdit
    <3>3. CASE RequestedLatestTemporalBasis
      BY <1>1, <3>3 DEF RequestedLatestTemporalBasis, Fields, Shaped, SameConfig, SameEdit, Send
    <3>. QED
      BY <3>1, <3>2, <3>3
  <2> DEFINE c == LoadDashboard(model'.basis)
  <2>2. /\ CommandOK(c, releases, regressed)
        /\ c.tag = "LoadDashboard" /\ c.args = [basis |-> model'.basis]
    BY DEF CommandOK, LoadDashboard, Command
  <2>3. flight' = flight \o <<c>>
    BY <2>1
  <2> HIDE DEF c
  <2>4. /\ SameKind(flight, flight', "LoadEntityHistory")
        /\ AwaitsOnly(flight', "LoadDashboard", [basis |-> model'.basis])
        /\ ~Idle(flight', "LoadDashboard")
    BY <1>2, <2>2, <2>3, SentFlight
  <2>5. ScreenInv'
    <3> SUFFICES ASSUME ~overtaken PROVE DataAgrees' /\ PageAgrees' /\ HistoryAgrees'
      BY <1>2 DEF ScreenInv, Elsewhere
    <3>1. HistoryAgrees
      BY DEF DashboardInv, ScreenInv
    <3>2. HistoryAgrees'
      BY <2>1, <2>4, <3>1 DEF HistoryAgrees, SameKind
    <3>. QED
      BY <2>4, <3>2 DEF DataAgrees, PageAgrees
  <2>6. ConfigInv' /\ EditInv'
    BY <1>2, <2>1, ConfigKept, EditKept
  <2>. QED
    BY <1>2, <2>1, <2>2, <2>3, <2>5, <2>6, SendStep
<1>. QED
  BY <1>3, <1>4

\* A read of a page is sent with the selection it is for; until it is answered
\* the old page stays with its entity, or none is shown.
LEMMA PageRequested ==
    ASSUME DashboardInv, Shaped, Elsewhere, SameConfig, SameEdit, model'.basis = model.basis,
           flight' = flight \o <<LoadEntityTypePage(model'.selectedEntityType,
                                                    model'.entityTypeCursor, model.basis)>>,
           \/ model'.entityTypePage = NoPage
           \/ /\ model'.entityTypePage = model.entityTypePage
              /\ model'.selectedEntityId = model.selectedEntityId
              /\ model'.selectedEntityHistory = model.selectedEntityHistory
    PROVE  DashboardInv'
<1> DEFINE c == LoadEntityTypePage(model'.selectedEntityType, model'.entityTypeCursor, model.basis)
<1>1. /\ CommandOK(c, releases, regressed)
      /\ c.tag = "LoadEntityTypePage" /\ c.args = PageWish'
  BY DEF CommandOK, LoadEntityTypePage, Command, PageWish
<1>2. flight' = flight \o <<c>>
  OBVIOUS
<1> HIDE DEF c
<1>3. /\ SameKind(flight, flight', "LoadEntityHistory") /\ SameKind(flight, flight', "LoadDashboard")
      /\ AwaitsOnly(flight', "LoadEntityTypePage", PageWish')
      /\ ~Idle(flight', "LoadEntityTypePage")
  BY <1>1, <1>2, SentFlight
<1>4. ScreenInv'
  <2> SUFFICES ASSUME ~overtaken PROVE DataAgrees' /\ PageAgrees' /\ HistoryAgrees'
    BY DEF ScreenInv, Elsewhere
  <2>1. DataAgrees /\ HistoryAgrees
    BY DEF DashboardInv, ScreenInv
  <2>2. DataAgrees'
    BY <1>3, <2>1 DEF DataAgrees, SameKind, SameConfig
  <2>3. HistoryAgrees'
    BY <1>3, <2>1 DEF HistoryAgrees, SameKind, NoPage
  <2>. QED
    BY <1>3, <2>2, <2>3 DEF PageAgrees
<1>5. ConfigInv' /\ EditInv'
  BY ConfigKept, EditKept
<1>. QED
  BY <1>1, <1>2, <1>4, <1>5, SendStep

LEMMA TypeMessages ==
    ASSUME DashboardInv,
           (\E t : SelectedEntityType(t)) \/ RequestedNextEntityTypePage
             \/ RequestedPreviousEntityTypePage
    PROVE  DashboardInv'
<1>1. DOMAIN model = Fields /\ model.page \in Pages /\ model.busy \in BOOLEAN
  BY DEF DashboardInv, TypesOK
<1>2. Elsewhere
  BY UserElsewhere DEF SelectedEntityType, RequestedNextEntityTypePage, RequestedPreviousEntityTypePage
<1>3. CASE \E t : SelectedEntityType(t)
  <2>1. PICK t : SelectedEntityType(t)
    BY <1>3
  <2>2. /\ model' = [model EXCEPT !.selectedEntityType = t, !.entityTypePage = NoPage,
                                  !.entityTypeCursor = NoCursor, !.entityTypeBackStack = <<>>,
                                  !.busy = TRUE, !.error = FALSE]
        /\ flight' = flight \o <<LoadEntityTypePage(t, NoCursor, model.basis)>>
    BY <2>1 DEF SelectedEntityType, Send
  <2>3. /\ Shaped /\ SameConfig /\ SameEdit /\ model'.basis = model.basis
        /\ model'.entityTypePage = NoPage
        /\ model'.selectedEntityType = t /\ model'.entityTypeCursor = NoCursor
    BY <1>1, <2>2 DEF Fields, Shaped, SameConfig, SameEdit
  <2>. QED
    BY <1>2, <2>2, <2>3, PageRequested
<1>4. ASSUME RequestedNextEntityTypePage \/ RequestedPreviousEntityTypePage
      PROVE  DashboardInv'
  <2>1. PICK cursor, stack :
          /\ model' = [model EXCEPT !.entityTypeCursor = cursor, !.entityTypeBackStack = stack,
                                    !.busy = TRUE, !.error = FALSE]
          /\ flight' = flight \o <<LoadEntityTypePage(model.selectedEntityType, cursor, model.basis)>>
    BY <1>4 DEF RequestedNextEntityTypePage, RequestedPreviousEntityTypePage, Send
  <2>2. /\ Shaped /\ SameConfig /\ SameEdit /\ model'.basis = model.basis
        /\ model'.entityTypePage = model.entityTypePage
        /\ model'.selectedEntityId = model.selectedEntityId
        /\ model'.selectedEntityHistory = model.selectedEntityHistory
        /\ model'.selectedEntityType = model.selectedEntityType
        /\ model'.entityTypeCursor = cursor
    BY <1>1, <2>1 DEF Fields, Shaped, SameConfig, SameEdit
  <2>. QED
    BY <1>2, <2>1, <2>2, PageRequested
<1>. QED
  BY <1>3, <1>4

LEMMA ScopeMessage ==
    ASSUME DashboardInv, NEW scope, SelectedEntityTypeScope(scope)
    PROVE  DashboardInv'
<1>1. DOMAIN model = Fields /\ model.page \in Pages /\ model.busy \in BOOLEAN
  BY DEF DashboardInv, TypesOK
<1>2. Elsewhere
  BY UserElsewhere DEF SelectedEntityTypeScope
<1>3. PICK t :
        /\ model' = [model EXCEPT !.entityTypeScope = scope, !.selectedEntityType = t,
                                  !.selectedEntityId = Null, !.selectedEntityHistory = Null,
                                  !.entityTypePage = NoPage, !.entityTypeCursor = NoCursor,
                                  !.entityTypeBackStack = <<>>,
                                  !.busy = (t # Null), !.error = FALSE, !.notice = Null]
        /\ flight' = flight \o (IF t = Null THEN <<>>
                                ELSE <<LoadEntityTypePage(t, NoCursor, model.basis)>>)
  BY DEF SelectedEntityTypeScope, Send
<1>4. /\ Shaped /\ SameConfig /\ SameEdit /\ model'.basis = model.basis
      /\ model'.entityTypePage = NoPage
      /\ model'.selectedEntityType = t /\ model'.entityTypeCursor = NoCursor
      /\ model'.busy = (t # Null)
  BY <1>1, <1>3 DEF Fields, Shaped, SameConfig, SameEdit
<1>5. CASE t # Null
  BY <1>2, <1>3, <1>4, <1>5, PageRequested
<1>6. CASE t = Null
  <2>1. IsSeq(flight)
    BY DEF DashboardInv, FlightOK
  <2>2. flight' = flight
    <3>1. PICK S : flight \in Seq(S)
      BY <2>1 DEF IsSeq
    <3>. QED
      BY <1>3, <1>6, <3>1, ConcatEmptySeq
  <2>3. FlightOK' /\ KeepsKinds
    BY <1>2, <2>2, QuietFlight
  <2>4. ScreenInv'
    <3> SUFFICES ASSUME ~overtaken PROVE DataAgrees' /\ PageAgrees' /\ HistoryAgrees'
      BY <1>2 DEF ScreenInv, Elsewhere
    <3>1. DataAgrees'
      BY <1>4, <2>2 DEF DashboardInv, ScreenInv, DataAgrees, SameConfig
    <3>2. PageAgrees' /\ HistoryAgrees'
      BY <1>4, <1>6 DEF PageAgrees, HistoryAgrees, NoPage
    <3>. QED
      BY <3>1, <3>2
  <2>5. ConfigInv' /\ EditInv' /\ UntouchedFactsSurvive'
    BY <1>2, <1>4, ConfigKept, EditKept, SavesKept DEF Elsewhere
  <2>6. TypesOK' /\ BusyMeansWork'
    BY <1>2, <1>4, <1>6 DEF DashboardInv, TypesOK, Shaped, Elsewhere, BusyMeansWork
  <2>. QED
    BY <2>3, <2>4, <2>5, <2>6 DEF DashboardInv
<1>. QED
  BY <1>5, <1>6

\* The history of the entity that is selected is asked for.
LEMMA HistoryRequested ==
    ASSUME DashboardInv, Shaped, Elsewhere, SameConfig, EditInv', model'.basis = model.basis,
           model'.selectedEntityType = model.selectedEntityType,
           model'.entityTypeCursor = model.entityTypeCursor,
           model'.entityTypePage = model.entityTypePage,
           flight' = flight \o <<LoadEntityHistory(model'.selectedEntityId)>>
    PROVE  DashboardInv'
<1> DEFINE c == LoadEntityHistory(model'.selectedEntityId)
<1>1. /\ CommandOK(c, releases, regressed)
      /\ c.tag = "LoadEntityHistory" /\ c.args = [entity |-> model'.selectedEntityId]
  BY DEF CommandOK, LoadEntityHistory, Command
<1>2. flight' = flight \o <<c>>
  OBVIOUS
<1> HIDE DEF c
<1>3. /\ SameKind(flight, flight', "LoadEntityTypePage") /\ SameKind(flight, flight', "LoadDashboard")
      /\ AwaitsOnly(flight', "LoadEntityHistory", [entity |-> model'.selectedEntityId])
      /\ ~Idle(flight', "LoadEntityHistory")
  BY <1>1, <1>2, SentFlight
<1>4. ScreenInv'
  <2> SUFFICES ASSUME ~overtaken PROVE DataAgrees' /\ PageAgrees' /\ HistoryAgrees'
    BY DEF ScreenInv, Elsewhere
  <2>1. DataAgrees /\ PageAgrees
    BY DEF DashboardInv, ScreenInv
  <2>2. DataAgrees'
    BY <1>3, <2>1 DEF DataAgrees, SameKind, SameConfig
  <2>3. PageAgrees'
    <3>1. PageWish' = PageWish
      BY DEF PageWish
    <3>. QED
      BY <1>3, <2>1, <3>1 DEF PageAgrees, SameKind
  <2>. QED
    BY <1>3, <2>2, <2>3 DEF HistoryAgrees
<1>5. ConfigInv'
  BY ConfigKept
<1>. QED
  BY <1>1, <1>2, <1>4, <1>5, SendStep

LEMMA EntityMessage ==
    ASSUME DashboardInv, NEW e, SelectedEntity(e)
    PROVE  DashboardInv'
<1>1. DOMAIN model = Fields /\ model.page \in Pages /\ model.busy \in BOOLEAN
  BY DEF DashboardInv, TypesOK
<1>2. Elsewhere
  BY UserElsewhere DEF SelectedEntity
<1>3. /\ model' = [model EXCEPT !.selectedEntityId = e, !.selectedEntityHistory = Null,
                                !.notice = Null]
      /\ flight' = flight \o <<LoadEntityHistory(e)>>
  BY DEF SelectedEntity, Send
<1>4. /\ Shaped /\ SameConfig /\ SameEdit /\ model'.basis = model.basis
      /\ model'.selectedEntityType = model.selectedEntityType
      /\ model'.entityTypeCursor = model.entityTypeCursor
      /\ model'.entityTypePage = model.entityTypePage
      /\ model'.selectedEntityId = e
  BY <1>1, <1>3 DEF Fields, Shaped, SameConfig, SameEdit
<1>. QED
  BY <1>2, <1>3, <1>4, EditKept, HistoryRequested

(***************************************************************************)
(* The entity editor.                                                      *)
(***************************************************************************)
\* The form that is opened on the facts of an entity.
LEMMA OpenedForm ==
    ASSUME NEW page, NEW facts, NEW D, D = entityAttributeDrafts(page, facts)
    PROVE  /\ \A a \in DOMAIN D :
                 /\ D[a] = [value |-> D[a].value, cleared |-> D[a].cleared, touched |-> D[a].touched]
                 /\ D[a].cleared \in BOOLEAN /\ D[a].touched \in BOOLEAN
           /\ \A f \in facts : f[1] \in DOMAIN D /\ ~D[f[1]].cleared
<1> DEFINE current(a) == {f[2] : f \in {g \in facts : g[1] = a}}
<1>1. /\ DOMAIN D = page.attributes \cup {f[1] : f \in facts}
      /\ \A a \in DOMAIN D :
           D[a] = [value   |-> IF current(a) = {} THEN BadValue ELSE CHOOSE v \in current(a) : TRUE,
                   cleared |-> current(a) = {}, touched |-> FALSE]
  BY DEF entityAttributeDrafts
<1>2. \A f \in facts : f[1] \in DOMAIN D /\ f[2] \in current(f[1])
  BY <1>1
<1> HIDE DEF current
<1>3. ASSUME NEW a \in DOMAIN D
      PROVE  /\ D[a] = [value |-> D[a].value, cleared |-> D[a].cleared, touched |-> D[a].touched]
             /\ D[a].cleared = (current(a) = {}) /\ D[a].touched = FALSE
  <2>1. PICK v, k : D[a] = [value |-> v, cleared |-> k, touched |-> FALSE] /\ k = (current(a) = {})
    BY <1>1
  <2>. QED
    BY <2>1
<1>4. \A f \in facts : f[1] \in DOMAIN D /\ ~(current(f[1]) = {})
  BY <1>2
<1>. QED
  BY <1>3, <1>4

LEMMA OpenMessages ==
    ASSUME DashboardInv,
           (\E e : RequestedCreateEntity(e)) \/ RequestedEditEntity
             \/ (\E e : RequestedEditEntityById(e))
    PROVE  DashboardInv'
<1>1. DOMAIN model = Fields /\ model.page \in Pages /\ model.busy \in BOOLEAN
  BY DEF DashboardInv, TypesOK
<1>2. Elsewhere
  BY UserElsewhere DEF RequestedCreateEntity, RequestedEditEntity, RequestedEditEntityById
<1>3. ASSUME NEW facts,
             model'.entityAttributeDrafts = entityAttributeDrafts(model.entityTypePage, facts),
             model'.entityDraftFacts = facts, model'.entityOriginalFacts = facts,
             model'.jsonEdited = FALSE
      PROVE  EditInv'
  <2>1. PICK D : D = entityAttributeDrafts(model.entityTypePage, facts)
    OBVIOUS
  <2>2. DraftOK(D, facts, facts, FALSE)
    <3>1. /\ \A a \in DOMAIN D :
                /\ D[a] = [value |-> D[a].value, cleared |-> D[a].cleared, touched |-> D[a].touched]
                /\ D[a].cleared \in BOOLEAN /\ D[a].touched \in BOOLEAN
          /\ \A f \in facts : f[1] \in DOMAIN D /\ ~D[f[1]].cleared
      BY <2>1, OpenedForm
    <3>2. (facts \ facts) \cup (facts \ facts) = {}
      OBVIOUS
    <3>. QED
      BY <3>1, <3>2, Zenon DEF DraftOK
  <2>. QED
    BY <1>3, <2>1, <2>2 DEF EditInv
<1>4. CASE (\E e : RequestedCreateEntity(e)) \/ RequestedEditEntity
  <2>1. PICK mode, e, facts : model' = OpenEditor(mode, e, facts) /\ flight' = flight
    BY <1>4 DEF RequestedCreateEntity, RequestedEditEntity, Quiet
  <2>2. /\ Shaped /\ SameScreen /\ SameConfig /\ model'.busy = model.busy
        /\ model'.entityAttributeDrafts = entityAttributeDrafts(model.entityTypePage, facts)
        /\ model'.entityDraftFacts = facts /\ model'.entityOriginalFacts = facts
        /\ model'.jsonEdited = FALSE
    BY <1>1, <2>1 DEF OpenEditor, Fields, Shaped, SameScreen, SameConfig
  <2>. QED
    BY <1>2, <1>3, <2>1, <2>2, ConfigKept, QuietStep
<1>5. CASE \E e : RequestedEditEntityById(e)
  <2>1. PICK e, facts :
          /\ model' = [OpenEditor("edit", e, facts)
                         EXCEPT !.selectedEntityId = e, !.selectedEntityHistory = Null]
          /\ flight' = flight \o <<LoadEntityHistory(e)>>
    BY <1>5 DEF RequestedEditEntityById, Send
  <2>2. /\ Shaped /\ SameConfig /\ model'.basis = model.basis
        /\ model'.selectedEntityType = model.selectedEntityType
        /\ model'.entityTypeCursor = model.entityTypeCursor
        /\ model'.entityTypePage = model.entityTypePage
        /\ model'.selectedEntityId = e
        /\ model'.entityAttributeDrafts = entityAttributeDrafts(model.entityTypePage, facts)
        /\ model'.entityDraftFacts = facts /\ model'.entityOriginalFacts = facts
        /\ model'.jsonEdited = FALSE
    BY <1>1, <2>1 DEF OpenEditor, Fields, Shaped, SameConfig
  <2>. QED
    BY <1>2, <1>3, <2>1, <2>2, HistoryRequested
<1>. QED
  BY <1>4, <1>5

LEMMA DraftTouched ==
    ASSUME NEW D, NEW O, NEW F, NEW json, DraftOK(D, O, F, json), NEW a \in DOMAIN D,
           NEW value, NEW cleared \in BOOLEAN, NEW E,
           E = [D EXCEPT ![a] = [value |-> value, cleared |-> cleared, touched |-> TRUE]]
    PROVE  DraftOK(E, O, F, json)
<1>1. /\ DOMAIN E = DOMAIN D
      /\ E[a] = [value |-> value, cleared |-> cleared, touched |-> TRUE]
      /\ \A b \in DOMAIN D : b # a => E[b] = D[b]
  OBVIOUS
<1>2. /\ E[a].touched = TRUE /\ E[a].cleared = cleared
      /\ E[a] = [value |-> E[a].value, cleared |-> E[a].cleared, touched |-> E[a].touched]
  BY <1>1
<1>3. \A b \in DOMAIN E :
          /\ E[b] = [value |-> E[b].value, cleared |-> E[b].cleared, touched |-> E[b].touched]
          /\ E[b].cleared \in BOOLEAN /\ E[b].touched \in BOOLEAN
  <2> SUFFICES ASSUME NEW b \in DOMAIN E
               PROVE  /\ E[b] = [value |-> E[b].value, cleared |-> E[b].cleared,
                                 touched |-> E[b].touched]
                      /\ E[b].cleared \in BOOLEAN /\ E[b].touched \in BOOLEAN
    OBVIOUS
  <2>1. CASE b = a
    BY <1>2, <2>1, Zenon
  <2>2. CASE b # a
    BY <1>1, <2>2, Zenon DEF DraftOK
  <2>. QED
    BY <2>1, <2>2
<1>4. \A b \in DOMAIN D : D[b].touched => E[b].touched
  BY <1>1, <1>2, Zenon
<1>5. \A b \in DOMAIN D : (D[b].cleared => D[b].touched) => (E[b].cleared => E[b].touched)
  BY <1>1, <1>2, Zenon
<1>. QED
  BY <1>1, <1>3, <1>4, <1>5, Zenon DEF DraftOK

LEMMA DraftMessages ==
    ASSUME DashboardInv,
           (\E facts : ChangedEntityDraftFacts(facts))
             \/ (\E a, v : ChangedEntityAttributeValue(a, v))
             \/ (\E a : ClearedEntityAttribute(a))
    PROVE  DashboardInv'
<1>1. DOMAIN model = Fields /\ model.page \in Pages /\ model.busy \in BOOLEAN
  BY DEF DashboardInv, TypesOK
<1>2. Elsewhere /\ flight' = flight
  BY UserElsewhere DEF ChangedEntityDraftFacts, ChangedEntityAttributeValue, ClearedEntityAttribute, Quiet
<1>3. CASE \E facts : ChangedEntityDraftFacts(facts)
  <2>1. PICK facts : model' = [model EXCEPT !.entityDraftFacts = facts, !.jsonEdited = TRUE]
    BY <1>3 DEF ChangedEntityDraftFacts
  <2>2. /\ Shaped /\ SameScreen /\ SameConfig /\ model'.busy = model.busy
        /\ model'.entityAttributeDrafts = model.entityAttributeDrafts
        /\ model'.entityOriginalFacts = model.entityOriginalFacts /\ model'.jsonEdited = TRUE
    BY <1>1, <2>1 DEF Fields, Shaped, SameScreen, SameConfig
  <2>3. EditInv'
    <3>1. ASSUME NEW D, NEW O, NEW F, NEW G, NEW json, DraftOK(D, O, F, json)
          PROVE  DraftOK(D, O, G, TRUE)
      BY <3>1, Zenon DEF DraftOK
    <3>2. DraftOK(model'.entityAttributeDrafts, model'.entityOriginalFacts, model'.entityDraftFacts, TRUE)
      <4>1. DraftOK(model.entityAttributeDrafts, model.entityOriginalFacts,
                    model.entityDraftFacts, model.jsonEdited)
        BY DEF DashboardInv, EditInv
      <4>2. DraftOK(model.entityAttributeDrafts, model.entityOriginalFacts,
                    model'.entityDraftFacts, TRUE)
        BY <3>1, <4>1, Zenon
      <4>. QED
        BY <2>2, <4>2
    <3>. QED
      BY <2>2, <3>2 DEF EditInv
  <2>. QED
    BY <1>2, <2>2, <2>3, ConfigKept, QuietStep
<1>4. ASSUME NEW a \in DOMAIN model.entityAttributeDrafts, NEW value, NEW cleared \in BOOLEAN,
             NEW error,
             model' = [model EXCEPT !.entityAttributeDrafts =
                          [@ EXCEPT ![a] = [value |-> value, cleared |-> cleared, touched |-> TRUE]],
                                    !.error = error]
      PROVE  DashboardInv'
  <2> DEFINE D == model.entityAttributeDrafts  E == model'.entityAttributeDrafts
  <2>1. /\ Shaped /\ SameScreen /\ SameConfig /\ model'.busy = model.busy
        /\ E = [D EXCEPT ![a] = [value |-> value, cleared |-> cleared, touched |-> TRUE]]
        /\ model'.entityOriginalFacts = model.entityOriginalFacts
        /\ model'.entityDraftFacts = model.entityDraftFacts
        /\ model'.jsonEdited = model.jsonEdited
    BY <1>1, <1>4 DEF Fields, Shaped, SameScreen, SameConfig
  <2>2. EditInv'
    BY <2>1, DraftTouched DEF DashboardInv, EditInv
  <2>. QED
    BY <1>2, <2>1, <2>2, ConfigKept, QuietStep
<1>5. CASE \E a, v : ChangedEntityAttributeValue(a, v)
  <2>1. PICK a, v : ChangedEntityAttributeValue(a, v)
    BY <1>5
  <2>. QED
    BY <1>4, <2>1 DEF ChangedEntityAttributeValue, OnForm
<1>6. CASE \E a : ClearedEntityAttribute(a)
  <2>1. PICK a : ClearedEntityAttribute(a)
    BY <1>6
  <2> DEFINE d == model.entityAttributeDrafts[a]
  <2>2. /\ a \in DOMAIN model.entityAttributeDrafts
        /\ model' = [model EXCEPT !.entityAttributeDrafts =
              [@ EXCEPT ![a] = [value |-> d.value, cleared |-> ~d.cleared, touched |-> TRUE]]]
    BY <2>1 DEF ClearedEntityAttribute, OnForm
  <2>3. PICK k \in BOOLEAN : k = ~d.cleared
    OBVIOUS
  <2>4. model' = [model EXCEPT !.entityAttributeDrafts =
              [@ EXCEPT ![a] = [value |-> d.value, cleared |-> k, touched |-> TRUE]],
                               !.error = model.error]
    BY <1>1, <2>2, <2>3 DEF Fields
  <2>5. a \in DOMAIN model.entityAttributeDrafts
    BY <2>2
  <2> HIDE DEF d
  <2>. QED
    BY <1>4, <2>3, <2>4, <2>5, Zenon
<1>. QED
  BY <1>3, <1>5, <1>6

\* What the form makes of the draft differs from what was opened in touched
\* attributes only.
LEMMA FormDraft ==
    ASSUME DashboardInv, ~model.jsonEdited,
           NEW f \in (model.entityOriginalFacts \ formFactsDraft(model))
                       \cup (formFactsDraft(model) \ model.entityOriginalFacts)
    PROVE  /\ f[1] \in DOMAIN model.entityAttributeDrafts
           /\ model.entityAttributeDrafts[f[1]].touched
<1> DEFINE D == model.entityAttributeDrafts  O == model.entityOriginalFacts  F == model.entityDraftFacts
<1>1. /\ \A a \in DOMAIN D : D[a].cleared \in BOOLEAN /\ D[a].touched \in BOOLEAN
      /\ \A g \in (O \ F) \cup (F \ O) : g[1] \in DOMAIN D /\ D[g[1]].touched
      /\ \A g \in O : g[1] \in DOMAIN D /\ (D[g[1]].cleared => D[g[1]].touched)
  BY Zenon DEF DashboardInv, EditInv, DraftOK
<1>2. \A g : g \in formFactsDraft(model) <=>
        \E a \in DOMAIN D : /\ ~D[a].cleared
                            /\ IF ~D[a].touched THEN g \in F /\ g[1] = a
                               ELSE g = <<a, D[a].value>>
  BY DEF formFactsDraft
<1> HIDE DEF D, O, F
<1>3. CASE f \in formFactsDraft(model)
  <2>1. f \notin O
    BY <1>3 DEF O
  <2>2. PICK a \in DOMAIN D : /\ ~D[a].cleared
                              /\ IF ~D[a].touched THEN f \in F /\ f[1] = a
                                 ELSE f = <<a, D[a].value>>
    BY <1>2, <1>3
  <2>. QED
    BY <1>1, <2>1, <2>2 DEF D
<1>4. CASE f \notin formFactsDraft(model)
  <2>1. f \in O
    BY <1>4 DEF O
  <2>. QED
    BY <1>1, <1>2, <1>4, <2>1 DEF D
<1>. QED
  BY <1>3, <1>4

LEMMA FormatMessage ==
    ASSUME DashboardInv, NEW format, SelectedEntityEditorFormat(format)
    PROVE  DashboardInv'
<1>1. DOMAIN model = Fields /\ model.page \in Pages /\ model.busy \in BOOLEAN
  BY DEF DashboardInv, TypesOK
<1>2. Elsewhere /\ flight' = flight
  BY UserElsewhere DEF SelectedEntityEditorFormat, Quiet
<1>3. \/ model' = [model EXCEPT !.error = TRUE, !.notice = Null]
      \/ model' = [model EXCEPT !.entityEditorFormat = format,
                                !.entityDraftFacts = model.entityDraftFacts, !.error = FALSE]
      \/ model' = [model EXCEPT !.entityEditorFormat = format,
                                !.entityDraftFacts = formFactsDraft(model), !.error = FALSE]
  BY DEF SelectedEntityEditorFormat
<1>4. /\ Shaped /\ SameScreen /\ SameConfig /\ model'.busy = model.busy
      /\ model'.entityAttributeDrafts = model.entityAttributeDrafts
      /\ model'.entityOriginalFacts = model.entityOriginalFacts
      /\ model'.jsonEdited = model.jsonEdited
      /\ model'.entityDraftFacts \in {model.entityDraftFacts, formFactsDraft(model)}
  <2>1. CASE model' = [model EXCEPT !.error = TRUE, !.notice = Null]
    BY <1>1, <2>1 DEF Fields, Shaped, SameScreen, SameConfig
  <2>2. ASSUME NEW facts \in {model.entityDraftFacts, formFactsDraft(model)},
               model' = [model EXCEPT !.entityEditorFormat = format,
                                      !.entityDraftFacts = facts, !.error = FALSE]
        PROVE  /\ Shaped /\ SameScreen /\ SameConfig /\ model'.busy = model.busy
               /\ model'.entityAttributeDrafts = model.entityAttributeDrafts
               /\ model'.entityOriginalFacts = model.entityOriginalFacts
               /\ model'.jsonEdited = model.jsonEdited
               /\ model'.entityDraftFacts = facts
    BY <1>1, <2>2 DEF Fields, Shaped, SameScreen, SameConfig
  <2>. QED
    BY <1>3, <2>1, <2>2
<1>5. EditInv'
  <2>1. CASE model'.entityDraftFacts = model.entityDraftFacts
    BY <1>4, <2>1, EditKept DEF SameEdit
  <2>2. CASE model'.entityDraftFacts = formFactsDraft(model)
    <3>1. DraftOK(model.entityAttributeDrafts, model.entityOriginalFacts, formFactsDraft(model),
                  model.jsonEdited)
      <4>1. DraftOK(model.entityAttributeDrafts, model.entityOriginalFacts,
                    model.entityDraftFacts, model.jsonEdited)
        BY DEF DashboardInv, EditInv
      <4>. QED
        BY <4>1, FormDraft, Zenon DEF DraftOK
    <3>. QED
      BY <1>4, <2>2, <3>1 DEF EditInv
  <2>. QED
    BY <1>4, <2>1, <2>2
<1>. QED
  BY <1>2, <1>4, <1>5, ConfigKept, QuietStep

LEMMA SaveMessage ==
    ASSUME DashboardInv, RequestedSaveEntity
    PROVE  DashboardInv'
<1>1. DOMAIN model = Fields /\ model.page \in Pages /\ model.busy \in BOOLEAN
  BY DEF DashboardInv, TypesOK
<1>2. Elsewhere
  BY UserElsewhere DEF RequestedSaveEntity
<1> DEFINE form == model.entityEditorFormat = "form"
           facts == IF form THEN formFactsDraft(model) ELSE model.entityDraftFacts
           args == [mode   |-> model.entityEditor, entity |-> model.entityDraftId,
                    facts  |-> facts,
                    opened |-> model.entityOriginalFacts,
                    edited |-> IF model.jsonEdited
                               THEN {f[1] : f \in model.entityOriginalFacts \cup facts}
                               ELSE {a \in DOMAIN model.entityAttributeDrafts :
                                        model.entityAttributeDrafts[a].touched}]
           c == Command("SaveEntity", args)
<1>3. \/ model' = [model EXCEPT !.error = TRUE, !.notice = Null] /\ flight' = flight
      \/ /\ model' = [model EXCEPT !.busy = TRUE, !.error = FALSE, !.notice = Null]
         /\ flight' = flight \o <<c>>
  BY DEF RequestedSaveEntity, Send, Quiet
<1>4. Shaped /\ SameScreen /\ SameConfig /\ SameEdit
  <2>1. CASE model' = [model EXCEPT !.error = TRUE, !.notice = Null]
    BY <1>1, <2>1 DEF Fields, Shaped, SameScreen, SameConfig, SameEdit
  <2>2. CASE model' = [model EXCEPT !.busy = TRUE, !.error = FALSE, !.notice = Null]
    BY <1>1, <2>2 DEF Fields, Shaped, SameScreen, SameConfig, SameEdit
  <2>. QED
    BY <1>3, <2>1, <2>2
<1>5. ConfigInv' /\ EditInv'
  BY <1>2, <1>4, ConfigKept, EditKept
<1>6. CASE model' = [model EXCEPT !.error = TRUE, !.notice = Null] /\ flight' = flight
  <2>1. model'.busy = model.busy
    BY <1>1, <1>6 DEF Fields
  <2>. QED
    BY <1>2, <1>4, <1>5, <1>6, <2>1, QuietStep
<1>7. CASE flight' = flight \o <<c>>
  <2>1. EditedOnly(args)
    <3> SUFFICES ASSUME NEW f \in (model.entityOriginalFacts \ facts)
                                    \cup (facts \ model.entityOriginalFacts)
                 PROVE  f[1] \in args.edited
      BY DEF EditedOnly
    <3>1. CASE model.jsonEdited
      BY <3>1
    <3>2. CASE ~model.jsonEdited /\ form
      BY <3>2, FormDraft
    <3>3. CASE ~model.jsonEdited /\ ~form
      BY <3>3 DEF DashboardInv, EditInv, DraftOK
    <3>. QED
      BY <3>1, <3>2, <3>3
  <2> HIDE DEF args
  <2>2. CommandOK(c, releases, regressed) /\ c.tag = "SaveEntity"
    BY <2>1 DEF CommandOK, Command
  <2> HIDE DEF c
  <2>. QED
    BY <1>2, <1>4, <1>5, <1>7, <2>2, SendAside
<1>. QED
  BY <1>3, <1>6, <1>7

(***************************************************************************)
(* The configuration workbench.                                            *)
(***************************************************************************)
\* The save button is on screen while an editor is open only.
LEMMA SaveConfigOffered ==
    ASSUME DashboardInv, "RequestedSaveConfig" \in bodyView(model)
    PROVE  model.configEditor # "closed"
<1>1. model.page \in Pages
  BY DEF DashboardInv, TypesOK
<1>2. "RequestedSaveConfig" \in content(model)
  BY DEF bodyView, toolTabs, temporalPanel, Unless
<1>3. "RequestedSaveConfig" \notin pageHeader(model)
  BY DEF pageHeader, Unless
<1>4. "RequestedSaveConfig" \notin entitiesView(model)
  BY <1>3 DEF entitiesView, entityEditorView, Unless
<1>5. "RequestedSaveConfig" \in configView(model)
  BY <1>1, <1>2, <1>3, <1>4 DEF content, Pages, overviewView, formsView, queryView, journalView, Unless
<1>. QED
  BY <1>3, <1>5 DEF configView, configEditorView, Unless

LEMMA ConfigMessages ==
    ASSUME DashboardInv,
           (\E o \in ToSet(ConfigObjects) : SelectedConfigObject(o) \/ RequestedCreateConfig(o))
             \/ (\E mode \in {"edit", "remove"} : RequestedEditConfig(mode))
             \/ ClosedConfigEditor
    PROVE  DashboardInv'
<1>1. DOMAIN model = Fields /\ model.page \in Pages /\ model.busy \in BOOLEAN
  BY DEF DashboardInv, TypesOK
<1>2. Elsewhere /\ flight' = flight
  BY UserElsewhere DEF SelectedConfigObject, RequestedCreateConfig, RequestedEditConfig,
     ClosedConfigEditor, Quiet
<1>3. /\ live \in releases /\ \A r \in releases : DOMAIN r \subseteq ToSet(ConfigObjects)
      /\ DataOK(model.data, releases)
  BY DEF DashboardInv, ConfigInv
<1>4. /\ Shaped /\ SameScreen /\ SameEdit /\ model'.busy = model.busy
      /\ \/ model'.configEditor = "closed"
         \/ model'.configEditor = "create" /\ model'.configDraftObject \in ToSet(ConfigObjects)
         \/ /\ model'.configDraftObject = model.selectedConfigObject
            /\ model'.selectedConfigObject = model.selectedConfigObject
            /\ model.selectedConfigObject \in DOMAIN model.data.live
  <2>1. CASE \E o \in ToSet(ConfigObjects) : SelectedConfigObject(o)
    <3>1. PICK o : model' = [model EXCEPT !.selectedConfigObject = o, !.configEditor = "closed",
                                          !.notice = Null]
      BY <2>1 DEF SelectedConfigObject
    <3>. QED
      BY <1>1, <3>1 DEF Fields, Shaped, SameScreen, SameEdit
  <2>2. CASE \E o \in ToSet(ConfigObjects) : RequestedCreateConfig(o)
    <3>1. PICK o \in ToSet(ConfigObjects) :
            model' = [model EXCEPT !.configEditor = "create", !.configDraftObject = o,
                                   !.configTargetRef = "none", !.error = FALSE, !.notice = Null]
      BY <2>2 DEF RequestedCreateConfig
    <3>. QED
      BY <1>1, <3>1 DEF Fields, Shaped, SameScreen, SameEdit
  <2>3. CASE \E mode \in {"edit", "remove"} : RequestedEditConfig(mode)
    <3>1. PICK mode, ref :
            /\ model' = [model EXCEPT !.configEditor = mode,
                              !.configDraftObject = model.selectedConfigObject,
                              !.configTargetRef = ref, !.error = FALSE, !.notice = Null]
            /\ model.selectedConfigObject \in DOMAIN model.data.live
      BY <2>3 DEF RequestedEditConfig
    <3>. QED
      BY <1>1, <3>1 DEF Fields, Shaped, SameScreen, SameEdit
  <2>4. CASE ClosedConfigEditor
    BY <1>1, <2>4 DEF ClosedConfigEditor, Fields, Shaped, SameScreen, SameEdit
  <2>. QED
    BY <2>1, <2>2, <2>3, <2>4
<1>5. ConfigInv'
  BY <1>2, <1>3, <1>4 DEF ConfigInv, Elsewhere, DataOK, SameScreen
<1>. QED
  BY <1>2, <1>4, <1>5, EditKept, QuietStep

LEMMA PublishMessages ==
    ASSUME DashboardInv,
           RequestedSaveConfig \/ (\E name, release : RequestedMoveConfigRef(name, release))
    PROVE  DashboardInv'
<1>1. DOMAIN model = Fields /\ model.page \in Pages /\ model.busy \in BOOLEAN
  BY DEF DashboardInv, TypesOK
<1>2. Elsewhere
  BY UserElsewhere DEF RequestedSaveConfig, RequestedMoveConfigRef
<1>3. model' = [model EXCEPT !.busy = TRUE, !.error = FALSE, !.notice = Null]
  BY DEF RequestedSaveConfig, RequestedMoveConfigRef
<1>4. Shaped /\ SameScreen /\ SameConfig /\ SameEdit
  BY <1>1, <1>3 DEF Fields, Shaped, SameScreen, SameConfig, SameEdit
<1>5. ConfigInv' /\ EditInv'
  BY <1>2, <1>4, ConfigKept, EditKept
<1>6. CASE RequestedSaveConfig
  <2> DEFINE args == [operation |-> model.configEditor, identity |-> model.selectedConfigObject,
                      object |-> model.configDraftObject, targetRef |-> model.configTargetRef]
             c == Command("SaveConfig", args)
  <2>1. flight' = flight \o <<c>> /\ "RequestedSaveConfig" \in bodyView(model)
    BY <1>6 DEF RequestedSaveConfig, Send, User
  <2>2. model.configEditor # "closed"
    BY <2>1, SaveConfigOffered
  <2>3. /\ args.object \in ToSet(ConfigObjects)
        /\ args.operation # "create" /\ ~regressed => args.identity = args.object
    BY <2>2 DEF DashboardInv, ConfigInv
  <2> HIDE DEF args
  <2>4. CommandOK(c, releases, regressed) /\ c.tag = "SaveConfig"
    BY <2>3 DEF CommandOK, Command
  <2> HIDE DEF c
  <2>. QED
    BY <1>2, <1>4, <1>5, <2>1, <2>4, SendAside
<1>7. CASE \E name, release : RequestedMoveConfigRef(name, release)
  <2>1. PICK name, release : RequestedMoveConfigRef(name, release)
    BY <1>7
  <2> DEFINE c == Command("MoveConfigRef", [name |-> name, release |-> release])
  <2>2. flight' = flight \o <<c>> /\ release \in releases
    BY <2>1 DEF RequestedMoveConfigRef, Send, DashboardInv, ConfigInv, DataOK
  <2>3. CommandOK(c, releases, regressed) /\ c.tag = "MoveConfigRef"
    BY <2>2 DEF CommandOK, Command
  <2> HIDE DEF c
  <2>. QED
    BY <1>2, <1>4, <1>5, <2>2, <2>3, SendAside
<1>. QED
  BY <1>6, <1>7

LEMMA UserStepInv == DashboardInv /\ UserStep => DashboardInv'
<1> SUFFICES ASSUME DashboardInv, UserStep PROVE DashboardInv'
  OBVIOUS
<1>. QED
  BY PlainMessages, QueryMessages, LoadMessages, TypeMessages, ScopeMessage, EntityMessage,
     OpenMessages, DraftMessages, FormatMessage, SaveMessage, ConfigMessages, PublishMessages
     DEF UserStep, Pages

(***************************************************************************)
(* The database answers.                                                   *)
(***************************************************************************)
LEMMA CommandGrows ==
    ASSUME NEW c, NEW rels, NEW rels2, rels \subseteq rels2, NEW reg, NEW reg2, reg => reg2,
           CommandOK(c, rels, reg)
    PROVE  CommandOK(c, rels2, reg2)
BY DEF CommandOK, DataOK

LEMMA AnsweredFlight ==
    ASSUME DashboardInv, NEW i \in DOMAIN flight, NEW ok \in BOOLEAN, NEW answer,
           Answered(i, ok, answer), releases \subseteq releases', regressed' = regressed,
           CommandOK([tag |-> flight[i].tag, args |-> flight[i].args, answered |-> TRUE, ok |-> ok,
                      answer |-> answer], releases', regressed)
    PROVE  FlightOK' /\ KeepsKinds /\ flight' # <<>>
<1> DEFINE c == [tag |-> flight[i].tag, args |-> flight[i].args, answered |-> TRUE, ok |-> ok,
                 answer |-> answer]
<1>1. /\ IsSeq(flight) /\ \A j \in DOMAIN flight : CommandOK(flight[j], releases, regressed)
  BY DEF DashboardInv, FlightOK
<1>2. flight' = [flight EXCEPT ![i] = c]
  BY DEF Answered
<1>3. c.tag = flight[i].tag /\ c.args = flight[i].args /\ CommandOK(c, releases', regressed)
  OBVIOUS
<1> HIDE DEF c
<1>4. /\ DOMAIN flight' = DOMAIN flight /\ flight'[i] = c
      /\ \A j \in DOMAIN flight : j # i => flight'[j] = flight[j]
  BY <1>2
<1>5. IsSeq(flight')
  <2>1. PICK S : flight \in Seq(S)
    BY <1>1 DEF IsSeq
  <2>2. flight' \in Seq(S \cup {c})
    BY <1>2, <2>1
  <2>. QED
    BY <2>2 DEF IsSeq
<1>6. \A j \in DOMAIN flight' : CommandOK(flight'[j], releases', regressed')
  <2> SUFFICES ASSUME NEW j \in DOMAIN flight' PROVE CommandOK(flight'[j], releases', regressed)
    OBVIOUS
  <2>1. CASE j = i
    BY <1>3, <1>4, <2>1
  <2>2. CASE j # i
    BY <1>1, <1>4, <2>2, CommandGrows
  <2>. QED
    BY <2>1, <2>2
<1>7. \A j \in DOMAIN flight : flight'[j].tag = flight[j].tag /\ flight'[j].args = flight[j].args
  BY <1>3, <1>4
<1>8. KeepsKinds
  <2> SUFFICES ASSUME NEW tag PROVE SameKind(flight, flight', tag)
    BY DEF KeepsKinds
  <2>1. Idle(flight', tag) => Idle(flight, tag)
    BY <1>4, <1>7 DEF Idle
  <2>2. ASSUME NEW args, AwaitsOnly(flight, tag, args) PROVE AwaitsOnly(flight', tag, args)
    BY <1>4, <1>7, <2>2 DEF AwaitsOnly
  <2>. QED
    BY <2>1, <2>2 DEF SameKind
<1>. QED
  BY <1>4, <1>5, <1>6, <1>8 DEF FlightOK

\* A command that is answered changes nothing on the screen.
LEMMA ServerKept ==
    ASSUME DashboardInv, model' = model, overtaken' = overtaken, regressed' = regressed,
           FlightOK', KeepsKinds, flight' # <<>>, UntouchedFactsSurvive', live' \in releases',
           releases \subseteq releases', \A r \in releases' : DOMAIN r \subseteq ToSet(ConfigObjects)
    PROVE  DashboardInv'
<1>1. TypesOK' /\ BusyMeansWork'
  BY DEF DashboardInv, TypesOK, BusyMeansWork
<1>2. ScreenInv'
  BY ScreenKept DEF SameScreen
<1>3. ConfigInv'
  BY DEF DashboardInv, ConfigInv, DataOK
<1>4. EditInv'
  BY EditKept DEF SameEdit
<1>. QED
  BY <1>1, <1>2, <1>3, <1>4 DEF DashboardInv

LEMMA ReadInv ==
    ASSUME DashboardInv, NEW i \in DOMAIN flight, ReadDashboard(i) \/ ReadEntityTypePage(i)
    PROVE  DashboardInv'
<1>1. /\ model' = model /\ overtaken' = overtaken /\ regressed' = regressed /\ lastSave' = lastSave
      /\ releases' = releases /\ live' = live
  BY DEF ReadDashboard, ReadEntityTypePage, Serving
<1>2. /\ live \in releases /\ \A r \in releases : DOMAIN r \subseteq ToSet(ConfigObjects)
  BY DEF DashboardInv, ConfigInv
<1> DEFINE c(ok, answer) == [tag |-> flight[i].tag, args |-> flight[i].args, answered |-> TRUE,
                             ok |-> ok, answer |-> answer]
<1>3. \E ok, answer : ok \in BOOLEAN /\
         Answered(i, ok, answer) /\ CommandOK(c(ok, answer), releases, regressed)
  <2>1. CASE ReadDashboard(i)
    <3> DEFINE answer == loadDashboardAt(flight[i].args.basis)
    <3>1. flight[i].tag = "LoadDashboard" /\ Answered(i, TRUE, answer)
      BY <2>1 DEF ReadDashboard, Serving
    <3>2. /\ answer.basis = flight[i].args.basis /\ answer.releases = releases /\ answer.live = live
          /\ answer.objects = ToSet(ConfigObjects) \cap Known
      BY DEF loadDashboardAt
    <3>3. DOMAIN live \subseteq Known
      BY <1>2 DEF Known
    <3> HIDE DEF answer
    <3>4. DataOK(answer, releases)
      BY <1>2, <3>2, <3>3 DEF DataOK
    <3>5. CommandOK(c(TRUE, answer), releases, regressed)
      BY <3>1, <3>2, <3>4 DEF CommandOK
    <3>. QED
      BY <3>1, <3>5
  <2>2. CASE ReadEntityTypePage(i)
    <3> DEFINE args == flight[i].args
               page == loadEntityTypePage(args.entityType, args.cursor, args.basis)
    <3>1. /\ flight[i].tag = "LoadEntityTypePage"
          /\ Answered(i, FALSE, Null) \/ Answered(i, TRUE, page)
      BY <2>2 DEF ReadEntityTypePage, Serving
    <3>2. PageOf(page, args)
      BY DEF PageOf, loadEntityTypePage, At
    <3>3. CommandOK(c(FALSE, Null), releases, regressed)
      BY <3>1 DEF CommandOK
    <3> HIDE DEF page
    <3>4. CommandOK(c(TRUE, page), releases, regressed)
      BY <3>1, <3>2 DEF CommandOK
    <3>. QED
      BY <3>1, <3>3, <3>4
  <2>. QED
    BY <2>1, <2>2
<1>4. PICK ok, answer : ok \in BOOLEAN /\
         Answered(i, ok, answer) /\ CommandOK(c(ok, answer), releases, regressed)
  BY <1>3
<1>5. FlightOK' /\ KeepsKinds /\ flight' # <<>>
  BY <1>1, <1>4, AnsweredFlight
<1>. QED
  BY <1>1, <1>2, <1>5, SavesKept, ServerKept

\* What a command that changes the database, or one that fails, is answered with.
LEMMA BareAnswer ==
    ASSUME DashboardInv, NEW i \in DOMAIN flight, NEW ok \in BOOLEAN, Answered(i, ok, Null),
           releases \subseteq releases', regressed' = regressed,
           ok => flight[i].tag \notin {"LoadDashboard", "LoadEntityTypePage"}
    PROVE  FlightOK' /\ KeepsKinds /\ flight' # <<>>
<1>1. CommandOK(flight[i], releases', regressed)
  BY CommandGrows DEF DashboardInv, FlightOK
<1> DEFINE c == [tag |-> flight[i].tag, args |-> flight[i].args, answered |-> TRUE, ok |-> ok,
                 answer |-> Null]
<1>2. c.tag = flight[i].tag /\ c.args = flight[i].args /\ c.ok = ok /\ c.answered = TRUE
      /\ c.answer = Null
  OBVIOUS
<1>3. c = [tag |-> c.tag, args |-> c.args, answered |-> c.answered, ok |-> c.ok, answer |-> c.answer]
  BY <1>2
<1> HIDE DEF c
<1>4. CommandOK(c, releases', regressed)
  BY <1>1, <1>2, <1>3 DEF CommandOK
<1>. QED
  BY <1>4, AnsweredFlight DEF c

LEMMA SaveInv ==
    ASSUME DashboardInv, NEW i \in DOMAIN flight, saveEntity(i)
    PROVE  DashboardInv'
<1> DEFINE c == flight[i].args
           before == Last(db)[c.entity]
           refused == c.facts = {} \/ (c.mode = "create" /\ before # {})
<1>1. /\ model' = model /\ overtaken' = overtaken /\ regressed' = regressed
      /\ releases' = releases /\ live' = live
      /\ flight[i].tag = "SaveEntity"
      /\ Answered(i, ~refused, Null)
      /\ \/ lastSave' = lastSave
         \/ lastSave' = [entity |-> c.entity, before |-> before, opened |-> c.opened,
                         after |-> c.facts, edited |-> c.edited]
  BY DEF saveEntity, Serving
<1>2. EditedOnly(c)
  BY <1>1 DEF DashboardInv, FlightOK, CommandOK
<1>3. UntouchedFactsSurvive'
  <2>1. CASE lastSave' = lastSave
    BY <2>1, SavesKept
  <2>2. CASE lastSave' = [entity |-> c.entity, before |-> before, opened |-> c.opened,
                          after |-> c.facts, edited |-> c.edited]
    BY <1>2, <2>2 DEF UntouchedFactsSurvive, EditedOnly
  <2>. QED
    BY <1>1, <2>1, <2>2
<1>4. PICK ok \in BOOLEAN : ok = ~refused
  OBVIOUS
<1> HIDE DEF refused
<1>5. FlightOK' /\ KeepsKinds /\ flight' # <<>>
  BY <1>1, <1>4, BareAnswer
<1>. QED
  BY <1>1, <1>3, <1>5, ServerKept DEF DashboardInv, ConfigInv

LEMMA PublishInv ==
    ASSUME DashboardInv, NEW i \in DOMAIN flight, publishConfigChange(i)
    PROVE  DashboardInv'
<1> DEFINE c == flight[i].args
           target == c.identity \in DOMAIN live
           others == IF c.operation = "create" THEN DOMAIN live
                     ELSE DOMAIN live \ {c.identity}
           children == IF target THEN live[c.identity] ELSE {}
           refused == \/ c.operation # "create" /\ ~target
                      \/ c.operation # "remove" /\ c.object \in others
           kept == [o \in others |-> live[o]]
           release == IF c.operation = "remove" THEN kept
                      ELSE [o \in others \cup {c.object} |->
                              IF o = c.object THEN children ELSE live[o]]
<1>1. /\ model' = model /\ overtaken' = overtaken /\ regressed' = regressed /\ lastSave' = lastSave
      /\ flight[i].tag = "SaveConfig"
      /\ Answered(i, ~refused, Null)
      /\ releases' = IF refused THEN releases ELSE releases \cup {release}
      /\ live' = IF refused \/ c.targetRef # "live" THEN live ELSE release
  BY DEF publishConfigChange, Serving
<1>2. /\ live \in releases /\ \A r \in releases : DOMAIN r \subseteq ToSet(ConfigObjects)
      /\ c.object \in ToSet(ConfigObjects)
  BY <1>1 DEF DashboardInv, ConfigInv, FlightOK, CommandOK
<1>3. DOMAIN release \subseteq ToSet(ConfigObjects)
  BY <1>2
<1>4. PICK ok \in BOOLEAN : ok = ~refused
  OBVIOUS
<1> HIDE DEF refused, release
<1>5. /\ releases \subseteq releases' /\ live' \in releases'
      /\ \A r \in releases' : DOMAIN r \subseteq ToSet(ConfigObjects)
  BY <1>1, <1>2, <1>3
<1>6. FlightOK' /\ KeepsKinds /\ flight' # <<>>
  BY <1>1, <1>4, <1>5, BareAnswer
<1>. QED
  BY <1>1, <1>5, <1>6, SavesKept, ServerKept

LEMMA MoveInv ==
    ASSUME DashboardInv, NEW i \in DOMAIN flight, moveConfigRef(i)
    PROVE  DashboardInv'
<1>1. /\ model' = model /\ overtaken' = overtaken /\ regressed' = regressed /\ lastSave' = lastSave
      /\ flight[i].tag = "MoveConfigRef"
      /\ Answered(i, TRUE, Null) /\ releases' = releases
      /\ live' = IF flight[i].args.name = "live" THEN flight[i].args.release ELSE live
  BY DEF moveConfigRef, Serving
<1>2. /\ live \in releases /\ \A r \in releases : DOMAIN r \subseteq ToSet(ConfigObjects)
      /\ flight[i].args.release \in releases
  BY <1>1 DEF DashboardInv, ConfigInv, FlightOK, CommandOK
<1>3. FlightOK' /\ KeepsKinds /\ flight' # <<>>
  BY <1>1, BareAnswer
<1>. QED
  BY <1>1, <1>2, <1>3, SavesKept, ServerKept

LEMMA FailInv ==
    ASSUME DashboardInv, NEW i \in DOMAIN flight, CommandFails(i)
    PROVE  DashboardInv'
<1>1. /\ model' = model /\ overtaken' = overtaken /\ regressed' = regressed /\ lastSave' = lastSave
      /\ Answered(i, FALSE, Null) /\ releases' = releases /\ live' = live
  BY DEF CommandFails
<1>2. FlightOK' /\ KeepsKinds /\ flight' # <<>>
  BY <1>1, BareAnswer
<1>. QED
  BY <1>1, <1>2, SavesKept, ServerKept DEF DashboardInv, ConfigInv

LEMMA OtherInv ==
    ASSUME DashboardInv, NEW e, NEW facts, OtherWrites(e, facts)
    PROVE  DashboardInv'
BY DEF OtherWrites, DashboardInv, TypesOK, FlightOK, BusyMeansWork, ScreenInv, DataAgrees,
   PageAgrees, HistoryAgrees, PageWish, ConfigInv, EditInv, UntouchedFactsSurvive

(***************************************************************************)
(* Answers reach the model.                                                *)
(***************************************************************************)
\* What is left of the flight, with the commands of the answer.
LEMMA RemovedOK ==
    ASSUME DashboardInv, NEW i \in DOMAIN flight
    PROVE  /\ IsSeq(RemoveAt(flight, i))
           /\ \A j \in DOMAIN RemoveAt(flight, i) :
                 CommandOK(RemoveAt(flight, i)[j], releases, regressed)
<1>1. IsSeq(flight) /\ \A j \in DOMAIN flight : CommandOK(flight[j], releases, regressed)
  BY DEF DashboardInv, FlightOK
<1> DEFINE G == RemoveAt(flight, i)
<1>2. /\ IsSeq(G) /\ DOMAIN flight = 1 .. Len(flight) /\ Len(flight) \in Nat
      /\ DOMAIN G = 1 .. Len(flight) - 1
      /\ \A k \in 1 .. Len(flight) - 1 : G[k] = flight[IF k < i THEN k ELSE k + 1]
  BY <1>1, Removed
<1> HIDE DEF G
<1>3. \A j \in DOMAIN G : CommandOK(G[j], releases, regressed)
  <2> SUFFICES ASSUME NEW j \in DOMAIN G PROVE CommandOK(G[j], releases, regressed)
    OBVIOUS
  <2>1. (IF j < i THEN j ELSE j + 1) \in DOMAIN flight
    BY <1>2
  <2>. QED
    BY <1>1, <1>2, <2>1
<1>. QED
  BY <1>2, <1>3 DEF G

LEMMA EmptyTail ==
    ASSUME NEW F, IsSeq(F)
    PROVE  F \o <<>> = F
BY ConcatEmptySeq DEF IsSeq

\* An answer in its turn: the oldest of its kind, or the screen's word is off.
LEMMA InTurn ==
    ASSUME DashboardInv, NEW i \in DOMAIN flight, NEW tag, NEW commands, Delivered(i, tag, commands)
    PROVE  /\ flight[i].tag = tag /\ flight' = RemoveAt(flight, i) \o commands
           /\ UNCHANGED <<releases, live, lastSave>>
           /\ overtaken' \in BOOLEAN
           /\ ~overtaken' => ~overtaken /\ \A j \in 1 .. i - 1 : flight[j].tag # tag
           /\ tag \notin {"RunQuery", "LoadEntityHistory"} => flight[i].ok
BY DEF Delivered

LEMMA HistoryArrives ==
    ASSUME DashboardInv, NEW i \in DOMAIN flight, SucceededLoadEntityHistory(i)
    PROVE  DashboardInv'
<1>1. DOMAIN model = Fields /\ model.page \in Pages /\ model.busy \in BOOLEAN
  BY DEF DashboardInv, TypesOK
<1> DEFINE G == RemoveAt(flight, i)
<1>2. /\ flight[i].tag = "LoadEntityHistory" /\ flight' = G \o <<>>
      /\ UNCHANGED <<releases, live, lastSave, regressed>> /\ overtaken' \in BOOLEAN
      /\ ~overtaken' => ~overtaken /\ \A j \in 1 .. i - 1 : flight[j].tag # "LoadEntityHistory"
  BY InTurn DEF SucceededLoadEntityHistory
<1>3. model' = [model EXCEPT !.selectedEntityHistory = flight[i].args.entity,
                             !.busy = FALSE, !.error = FALSE]
  BY DEF SucceededLoadEntityHistory, loadEntityHistory
<1>4. /\ Shaped /\ SameConfig /\ SameEdit /\ model'.busy = FALSE /\ model'.basis = model.basis
      /\ model'.selectedEntityType = model.selectedEntityType
      /\ model'.entityTypePage = model.entityTypePage
      /\ model'.entityTypeCursor = model.entityTypeCursor
      /\ model'.selectedEntityId = model.selectedEntityId
      /\ model'.selectedEntityHistory = flight[i].args.entity
  BY <1>1, <1>3 DEF Fields, Shaped, SameConfig, SameEdit
<1>5. flight' = G /\ FlightOK'
  BY <1>2, RemovedOK, EmptyTail DEF FlightOK
<1>6. IsSeq(flight)
  BY DEF DashboardInv, FlightOK
<1>7. ScreenInv'
  <2> SUFFICES ASSUME ~overtaken' PROVE DataAgrees' /\ PageAgrees' /\ HistoryAgrees'
    BY DEF ScreenInv
  <2>1. DataAgrees /\ PageAgrees /\ HistoryAgrees
    BY <1>2 DEF DashboardInv, ScreenInv
  <2>2. /\ SameKind(flight, flight', "LoadDashboard")
        /\ SameKind(flight, flight', "LoadEntityTypePage")
    BY <1>2, <1>5, <1>6, RemoveOther
  <2>3. DataAgrees'
    BY <1>4, <2>1, <2>2 DEF DataAgrees, SameKind, SameConfig
  <2>4. PageAgrees'
    <3>1. PageWish' = PageWish
      BY <1>4 DEF PageWish
    <3>. QED
      BY <1>4, <2>1, <2>2, <3>1 DEF PageAgrees, SameKind
  <2>5. HistoryAgrees'
    <3> SUFFICES ASSUME model.entityTypePage.entities # <<>>
                 PROVE  /\ AwaitsOnly(flight', "LoadEntityHistory", [entity |-> model.selectedEntityId])
                        /\ Idle(flight', "LoadEntityHistory") =>
                              flight[i].args.entity = model.selectedEntityId
      BY <1>4 DEF HistoryAgrees
    <3>1. AwaitsOnly(flight, "LoadEntityHistory", [entity |-> model.selectedEntityId])
      BY <2>1 DEF HistoryAgrees
    <3>2. /\ AwaitsOnly(flight', "LoadEntityHistory", [entity |-> model.selectedEntityId])
          /\ Idle(flight', "LoadEntityHistory") =>
                flight[i].args = [entity |-> model.selectedEntityId]
      BY <1>2, <1>5, <1>6, <3>1, RemoveOldest
    <3>. QED
      BY <3>2
  <2>. QED
    BY <2>3, <2>4, <2>5
<1>8. ConfigInv' /\ EditInv' /\ UntouchedFactsSurvive'
  <2>1. ConfigInv'
    BY <1>2, <1>4 DEF DashboardInv, ConfigInv, SameConfig
  <2>. QED
    BY <1>2, <1>4, <2>1, EditKept, SavesKept
<1>9. TypesOK' /\ BusyMeansWork'
  BY <1>2, <1>4 DEF DashboardInv, TypesOK, Shaped, BusyMeansWork
<1>. QED
  BY <1>5, <1>7, <1>8, <1>9 DEF DashboardInv

LEMMA QueryArrives ==
    ASSUME DashboardInv, NEW i \in DOMAIN flight, SucceededRunQuery(i)
    PROVE  DashboardInv'
<1>1. DOMAIN model = Fields /\ model.page \in Pages /\ model.busy \in BOOLEAN
  BY DEF DashboardInv, TypesOK
<1> DEFINE G == RemoveAt(flight, i)
<1>2. /\ flight[i].tag = "RunQuery" /\ flight' = G \o <<>>
      /\ UNCHANGED <<releases, live, lastSave, regressed>> /\ overtaken' \in BOOLEAN
      /\ ~overtaken' => ~overtaken
  BY InTurn DEF SucceededRunQuery
<1>3. model' = [model EXCEPT !.queryResult = executeQueryText(flight[i].args),
                             !.busy = FALSE, !.error = FALSE]
  BY DEF SucceededRunQuery
<1>4. Shaped /\ SameScreen /\ SameConfig /\ SameEdit /\ model'.busy = FALSE
  BY <1>1, <1>3 DEF Fields, Shaped, SameScreen, SameConfig, SameEdit
<1>5. flight' = G /\ FlightOK'
  BY <1>2, RemovedOK, EmptyTail DEF FlightOK
<1>6. IsSeq(flight)
  BY DEF DashboardInv, FlightOK
<1>7. KeepsKinds
  BY <1>2, <1>5, <1>6, RemoveOther DEF KeepsKinds
<1>8. ScreenInv'
  <2>1. CASE overtaken'
    BY <2>1 DEF ScreenInv
  <2>2. CASE ~overtaken'
    BY <1>2, <1>4, <1>7, <2>2, ScreenKept DEF DashboardInv, TypesOK
  <2>. QED
    BY <2>1, <2>2
<1>9. ConfigInv' /\ EditInv' /\ UntouchedFactsSurvive'
  <2>1. ConfigInv'
    BY <1>2, <1>4 DEF DashboardInv, ConfigInv, SameConfig
  <2>. QED
    BY <1>2, <1>4, <2>1, EditKept, SavesKept
<1>10. TypesOK' /\ BusyMeansWork'
  BY <1>2, <1>4 DEF DashboardInv, TypesOK, Shaped, BusyMeansWork
<1>. QED
  BY <1>5, <1>8, <1>9, <1>10 DEF DashboardInv

LEMMA MutationArrives ==
    ASSUME DashboardInv, NEW i \in DOMAIN flight, SucceededMutation(i)
    PROVE  DashboardInv'
<1>1. DOMAIN model = Fields /\ model.page \in Pages /\ model.busy \in BOOLEAN
  BY DEF DashboardInv, TypesOK
<1> DEFINE G == RemoveAt(flight, i)  c == LoadDashboard(model.basis)
<1>2. /\ flight[i].tag \in {"SaveEntity", "SaveConfig", "MoveConfigRef"} /\ flight' = G \o <<c>>
      /\ UNCHANGED <<releases, live, lastSave, regressed>> /\ overtaken' \in BOOLEAN
      /\ ~overtaken' => ~overtaken
  BY InTurn DEF SucceededMutation
<1>3. model' = [model EXCEPT !.entityEditor = "closed", !.configEditor = "closed",
                             !.busy = TRUE, !.notice = "done", !.error = FALSE]
  BY DEF SucceededMutation
<1>4. /\ Shaped /\ SameScreen /\ SameEdit /\ model'.configEditor = "closed"
  BY <1>1, <1>3 DEF Fields, Shaped, SameScreen, SameEdit
<1>5. /\ CommandOK(c, releases, regressed)
      /\ c.tag = "LoadDashboard" /\ c.args = [basis |-> model.basis]
  BY DEF CommandOK, LoadDashboard, Command
<1>6. IsSeq(flight) /\ IsSeq(G) /\ \A j \in DOMAIN G : CommandOK(G[j], releases, regressed)
  BY RemovedOK DEF DashboardInv, FlightOK
<1>7. SameKind(flight, G, "LoadEntityHistory")
  BY <1>2, <1>6, RemoveOther
<1> HIDE DEF G, c
<1>8. FlightOK' /\ flight' # <<>>
  BY <1>2, <1>5, <1>6, ExtendOK, Extended DEF FlightOK
<1>9. /\ SameKind(G, flight', "LoadEntityHistory")
      /\ AwaitsOnly(flight', "LoadDashboard", [basis |-> model.basis])
      /\ ~Idle(flight', "LoadDashboard")
  <2>1. AwaitsOnly(G \o <<c>>, c.tag, c.args) /\ ~Idle(G \o <<c>>, c.tag)
    BY <1>6, SendSame
  <2>2. SameKind(G, G \o <<c>>, "LoadEntityHistory")
    BY <1>5, <1>6, SendOther
  <2>. QED
    BY <1>2, <1>5, <2>1, <2>2
<1>10. ScreenInv'
  <2> SUFFICES ASSUME ~overtaken' PROVE DataAgrees' /\ PageAgrees' /\ HistoryAgrees'
    BY DEF ScreenInv
  <2>1. HistoryAgrees
    BY <1>2 DEF DashboardInv, ScreenInv
  <2>2. HistoryAgrees'
    BY <1>4, <1>7, <1>9, <2>1 DEF HistoryAgrees, SameKind, SameScreen
  <2>. QED
    BY <1>4, <1>9, <2>2 DEF DataAgrees, PageAgrees, SameScreen
<1>11. ConfigInv' /\ EditInv' /\ UntouchedFactsSurvive'
  <2>1. ConfigInv'
    BY <1>2, <1>4 DEF DashboardInv, ConfigInv, SameScreen
  <2>. QED
    BY <1>2, <1>4, <2>1, EditKept, SavesKept
<1>12. TypesOK' /\ BusyMeansWork'
  BY <1>2, <1>4, <1>8 DEF DashboardInv, TypesOK, Shaped, BusyMeansWork
<1>. QED
  BY <1>8, <1>10, <1>11, <1>12 DEF DashboardInv

LEMMA FailureArrives ==
    ASSUME DashboardInv, NEW i \in DOMAIN flight, FailedDashboardCommand(i)
    PROVE  DashboardInv'
<1>1. DOMAIN model = Fields /\ model.page \in Pages /\ model.busy \in BOOLEAN
  BY DEF DashboardInv, TypesOK
<1>2. /\ flight' = RemoveAt(flight, i) /\ overtaken' = TRUE
      /\ UNCHANGED <<releases, live, lastSave, regressed>>
      /\ model' = [model EXCEPT !.busy = FALSE, !.error = TRUE]
  BY DEF FailedDashboardCommand
<1>3. Shaped /\ SameConfig /\ SameEdit /\ model'.busy = FALSE
  BY <1>1, <1>2 DEF Fields, Shaped, SameConfig, SameEdit
<1>4. FlightOK'
  BY <1>2, RemovedOK DEF FlightOK
<1>5. ConfigInv' /\ EditInv' /\ UntouchedFactsSurvive'
  <2>1. ConfigInv'
    BY <1>2, <1>3 DEF DashboardInv, ConfigInv, SameConfig
  <2>. QED
    BY <1>2, <1>3, <2>1, EditKept, SavesKept
<1>6. TypesOK' /\ BusyMeansWork' /\ ScreenInv'
  BY <1>2, <1>3 DEF DashboardInv, TypesOK, Shaped, BusyMeansWork, ScreenInv
<1>. QED
  BY <1>4, <1>5, <1>6 DEF DashboardInv

LEMMA PageArrives ==
    ASSUME DashboardInv, NEW i \in DOMAIN flight, SucceededLoadEntityTypePage(i)
    PROVE  DashboardInv'
<1>1. DOMAIN model = Fields /\ model.page \in Pages /\ model.busy \in BOOLEAN
  BY DEF DashboardInv, TypesOK
<1> DEFINE G == RemoveAt(flight, i)  page == flight[i].answer
           e == IF model.selectedEntityId \in ToSet(page.entities) THEN model.selectedEntityId
                ELSE IF page.entities = <<>> THEN Null ELSE page.entities[1]
           c == LoadEntityHistory(e)
<1>2. /\ flight[i].tag = "LoadEntityTypePage" /\ flight[i].ok
      /\ flight' = G \o (IF page.entities = <<>> THEN <<>> ELSE <<c>>)
      /\ UNCHANGED <<releases, live, lastSave, regressed>> /\ overtaken' \in BOOLEAN
      /\ ~overtaken' => ~overtaken /\ \A j \in 1 .. i - 1 : flight[j].tag # "LoadEntityTypePage"
  <2> DEFINE commands == IF page.entities = <<>> THEN <<>> ELSE <<c>>
  <2>1. Delivered(i, "LoadEntityTypePage", commands) /\ UNCHANGED regressed
    BY DEF SucceededLoadEntityTypePage
  <2> HIDE DEF commands
  <2>2. /\ flight[i].tag = "LoadEntityTypePage" /\ flight' = G \o commands
        /\ UNCHANGED <<releases, live, lastSave>> /\ overtaken' \in BOOLEAN
        /\ ~overtaken' => ~overtaken /\ \A j \in 1 .. i - 1 : flight[j].tag # "LoadEntityTypePage"
        /\ flight[i].ok
    BY <2>1, InTurn
  <2>. QED
    BY <2>1, <2>2 DEF commands
<1>3. model' = [model EXCEPT !.entityTypePage = page, !.selectedEntityId = e,
                             !.selectedEntityHistory = Null,
                             !.busy = (page.entities # <<>>), !.error = FALSE]
  BY DEF SucceededLoadEntityTypePage
<1>4. /\ CommandOK(c, releases, regressed)
      /\ c.tag = "LoadEntityHistory" /\ c.args = [entity |-> e]
  BY DEF CommandOK, LoadEntityHistory, Command
<1>5. PageOf(page, flight[i].args)
  BY <1>2 DEF DashboardInv, FlightOK, CommandOK
<1>6. IsSeq(flight) /\ IsSeq(G) /\ \A j \in DOMAIN G : CommandOK(G[j], releases, regressed)
  BY RemovedOK DEF DashboardInv, FlightOK
<1>7. SameKind(flight, G, "LoadDashboard")
  BY <1>2, <1>6, RemoveOther
<1>8. ASSUME NEW args, AwaitsOnly(flight, "LoadEntityTypePage", args), ~overtaken'
      PROVE  /\ AwaitsOnly(G, "LoadEntityTypePage", args)
             /\ Idle(G, "LoadEntityTypePage") => flight[i].args = args
  BY <1>2, <1>6, <1>8, RemoveOldest
<1> HIDE DEF G, c, e, page
<1>9. /\ Shaped /\ SameConfig /\ SameEdit /\ model'.busy = (page.entities # <<>>)
      /\ model'.basis = model.basis /\ model'.selectedEntityType = model.selectedEntityType
      /\ model'.entityTypeCursor = model.entityTypeCursor
      /\ model'.entityTypePage = page /\ model'.selectedEntityId = e
  BY <1>1, <1>3 DEF Fields, Shaped, SameConfig, SameEdit
<1>10. /\ FlightOK' /\ (page.entities # <<>> => flight' # <<>>)
       /\ SameKind(G, flight', "LoadDashboard") /\ SameKind(G, flight', "LoadEntityTypePage")
       /\ page.entities # <<>> =>
             /\ AwaitsOnly(flight', "LoadEntityHistory", [entity |-> e])
             /\ ~Idle(flight', "LoadEntityHistory")
  <2>1. CASE page.entities = <<>>
    <3>1. flight' = G
      BY <1>2, <1>6, <2>1, EmptyTail
    <3>. QED
      BY <1>2, <1>6, <2>1, <3>1 DEF FlightOK, SameKind
  <2>2. CASE page.entities # <<>>
    <3>1. flight' = G \o <<c>>
      BY <1>2, <2>2
    <3>2. FlightOK' /\ flight' # <<>>
      <4>1. /\ IsSeq(G \o <<c>>)
            /\ \A j \in DOMAIN (G \o <<c>>) : CommandOK((G \o <<c>>)[j], releases, regressed)
        BY <1>4, <1>6, ExtendOK
      <4>2. G \o <<c>> # <<>>
        BY <1>6, Extended
      <4>. QED
        BY <1>2, <3>1, <4>1, <4>2 DEF FlightOK
    <3>3. AwaitsOnly(G \o <<c>>, c.tag, c.args) /\ ~Idle(G \o <<c>>, c.tag)
      BY <1>6, SendSame
    <3>4. /\ SameKind(G, G \o <<c>>, "LoadDashboard")
          /\ SameKind(G, G \o <<c>>, "LoadEntityTypePage")
      BY <1>4, <1>6, SendOther
    <3>. QED
      BY <1>4, <2>2, <3>1, <3>2, <3>3, <3>4
  <2>. QED
    BY <2>1, <2>2
<1>11. ScreenInv'
  <2> SUFFICES ASSUME ~overtaken' PROVE DataAgrees' /\ PageAgrees' /\ HistoryAgrees'
    BY DEF ScreenInv
  <2>1. DataAgrees /\ PageAgrees
    BY <1>2 DEF DashboardInv, ScreenInv
  <2>2. DataAgrees'
    BY <1>7, <1>9, <1>10, <2>1 DEF DataAgrees, SameKind, SameConfig
  <2>3. PageAgrees'
    <3>1. PageWish' = PageWish
      BY <1>9 DEF PageWish
    <3> SUFFICES ASSUME Idle(flight', "LoadDashboard"), model.selectedEntityType # Null
                 PROVE  /\ AwaitsOnly(flight', "LoadEntityTypePage", PageWish)
                        /\ Idle(flight', "LoadEntityTypePage") => PageOf(page, PageWish)
      BY <1>9, <3>1 DEF PageAgrees
    <3>2. AwaitsOnly(flight, "LoadEntityTypePage", PageWish)
      BY <1>7, <1>10, <2>1 DEF PageAgrees, SameKind
    <3>3. /\ AwaitsOnly(G, "LoadEntityTypePage", PageWish)
          /\ Idle(G, "LoadEntityTypePage") => flight[i].args = PageWish
      BY <1>8, <3>2
    <3>. QED
      BY <1>5, <1>10, <3>3 DEF SameKind
  <2>4. HistoryAgrees'
    BY <1>9, <1>10 DEF HistoryAgrees
  <2>. QED
    BY <2>2, <2>3, <2>4
<1>12. ConfigInv' /\ EditInv' /\ UntouchedFactsSurvive'
  <2>1. ConfigInv'
    BY <1>2, <1>9 DEF DashboardInv, ConfigInv, SameConfig
  <2>. QED
    BY <1>2, <1>9, <2>1, EditKept, SavesKept
<1>13. TypesOK' /\ BusyMeansWork'
  BY <1>2, <1>9, <1>10 DEF DashboardInv, TypesOK, Shaped, BusyMeansWork
<1>. QED
  BY <1>10, <1>11, <1>12, <1>13 DEF DashboardInv

LEMMA DashboardArrives ==
    ASSUME DashboardInv, NEW i \in DOMAIN flight, SucceededLoadDashboard(i)
    PROVE  DashboardInv'
<1>1. DOMAIN model = Fields /\ model.page \in Pages /\ model.busy \in BOOLEAN
  BY DEF DashboardInv, TypesOK
<1> DEFINE G == RemoveAt(flight, i)  data == flight[i].answer
           types == Scoped(data.types, model.entityTypeScope)
           t == SelectedAmong(types, model.selectedEntityType)
           first == IF model.selectedEntityId = Null THEN data.first ELSE model.selectedEntityId
           object == IF model.selectedConfigObject \in data.objects THEN model.selectedConfigObject
                     ELSE IF data.objects = {} THEN Null ELSE FirstObject(data.objects)
           q == RunQuery(model.queryText, FALSE, model.basis)
           p == LoadEntityTypePage(t, NoCursor, model.basis)
           rest == IF types = <<>> THEN <<>> ELSE <<p>>
<1>2. /\ flight[i].tag = "LoadDashboard" /\ flight[i].ok
      /\ flight' = G \o (<<q>> \o rest)
      /\ UNCHANGED <<releases, live, lastSave>> /\ overtaken' \in BOOLEAN
      /\ ~overtaken' => ~overtaken /\ \A j \in 1 .. i - 1 : flight[j].tag # "LoadDashboard"
  <2> DEFINE commands == <<q>> \o rest
  <2>1. Delivered(i, "LoadDashboard", commands)
    BY DEF SucceededLoadDashboard
  <2> HIDE DEF commands
  <2>2. /\ flight[i].tag = "LoadDashboard" /\ flight' = G \o commands
        /\ UNCHANGED <<releases, live, lastSave>> /\ overtaken' \in BOOLEAN
        /\ ~overtaken' => ~overtaken /\ \A j \in 1 .. i - 1 : flight[j].tag # "LoadDashboard"
        /\ flight[i].ok
    BY <2>1, InTurn
  <2>. QED
    BY <2>1, <2>2 DEF commands
<1>3. /\ model' = [model EXCEPT
              !.data = data, !.selectedEntityId = first, !.selectedEntityType = t,
              !.selectedConfigObject = object,
              !.entityTypePage = NoPage, !.entityTypeCursor = NoCursor,
              !.entityTypeBackStack = <<>>, !.busy = TRUE, !.error = FALSE]
      /\ regressed' = (regressed \/ ~(model.data.objects \subseteq data.objects))
  BY DEF SucceededLoadDashboard
<1>4. /\ data.basis = flight[i].args.basis /\ DataOK(data, releases)
  BY <1>2 DEF DashboardInv, FlightOK, CommandOK
<1>5. /\ CommandOK(q, releases, regressed') /\ q.tag = "RunQuery"
      /\ CommandOK(p, releases, regressed') /\ p.tag = "LoadEntityTypePage"
      /\ p.args = [entityType |-> t, cursor |-> NoCursor, basis |-> model.basis]
  BY DEF CommandOK, RunQuery, LoadEntityTypePage, Command
<1>6. types = <<>> => t = Null
  BY DEF SelectedAmong, ToSet
<1>7. /\ IsSeq(flight) /\ IsSeq(G)
      /\ \A j \in DOMAIN G : CommandOK(G[j], releases, regressed')
  <2>1. IsSeq(flight) /\ IsSeq(G) /\ \A j \in DOMAIN G : CommandOK(G[j], releases, regressed)
    BY RemovedOK DEF DashboardInv, FlightOK
  <2>2. regressed => regressed'
    BY <1>3
  <2>. QED
    BY <2>1, <2>2, CommandGrows
<1>8. ASSUME NEW args, AwaitsOnly(flight, "LoadDashboard", args), ~overtaken'
      PROVE  /\ AwaitsOnly(G, "LoadDashboard", args)
             /\ Idle(G, "LoadDashboard") => flight[i].args = args
  BY <1>2, <1>7, <1>8, RemoveOldest
<1>9. object = model.selectedConfigObject \/ model.selectedConfigObject \notin data.objects
  OBVIOUS
<1> HIDE DEF G, data, types, t, first, object, q, p
<1>10. /\ DOMAIN model' = Fields /\ model'.page \in Pages /\ model'.busy = TRUE /\ SameEdit
       /\ model'.basis = model.basis
       /\ model'.data = data /\ model'.selectedEntityType = t
       /\ model'.entityTypePage = NoPage /\ model'.entityTypeCursor = NoCursor
       /\ model'.selectedConfigObject = object
       /\ model'.configEditor = model.configEditor
       /\ model'.configDraftObject = model.configDraftObject
  BY <1>1, <1>3 DEF Fields, SameEdit
<1> DEFINE H == G \o <<q>>
<1>11. /\ IsSeq(H) /\ H # <<>> /\ \A j \in DOMAIN H : CommandOK(H[j], releases, regressed')
       /\ SameKind(G, H, "LoadDashboard")
  BY <1>5, <1>7, ExtendOK, Extended, SendOther
<1>12. flight' = H \o rest
  <2>1. PICK S : G \in Seq(S)
    BY <1>7 DEF IsSeq
  <2>2. G \in Seq(S \cup {q, p}) /\ <<q>> \in Seq(S \cup {q, p}) /\ rest \in Seq(S \cup {q, p})
    BY <2>1
  <2>. QED
    BY <1>2, <2>2, ConcatAssociative
<1> HIDE DEF H
<1>13. /\ FlightOK' /\ flight' # <<>> /\ SameKind(H, flight', "LoadDashboard")
       /\ t # Null => /\ AwaitsOnly(flight', "LoadEntityTypePage", p.args)
                      /\ ~Idle(flight', "LoadEntityTypePage")
  <2>1. CASE types = <<>>
    <3>1. flight' = H
      BY <1>11, <1>12, <2>1, EmptyTail
    <3>. QED
      BY <1>2, <1>6, <1>11, <2>1, <3>1 DEF FlightOK, SameKind
  <2>2. CASE types # <<>>
    <3>1. flight' = H \o <<p>>
      BY <1>12, <2>2
    <3>2. FlightOK' /\ flight' # <<>>
      <4>1. /\ IsSeq(H \o <<p>>)
            /\ \A j \in DOMAIN (H \o <<p>>) : CommandOK((H \o <<p>>)[j], releases, regressed')
        BY <1>5, <1>11, ExtendOK
      <4>2. H \o <<p>> # <<>>
        BY <1>11, Extended
      <4>. QED
        BY <1>2, <3>1, <4>1, <4>2 DEF FlightOK
    <3>3. AwaitsOnly(H \o <<p>>, p.tag, p.args) /\ ~Idle(H \o <<p>>, p.tag)
      BY <1>11, SendSame
    <3>4. SameKind(H, H \o <<p>>, "LoadDashboard")
      BY <1>5, <1>11, SendOther
    <3>. QED
      BY <1>5, <3>1, <3>2, <3>3, <3>4
  <2>. QED
    BY <2>1, <2>2
<1>14. ScreenInv'
  <2> SUFFICES ASSUME ~overtaken' PROVE DataAgrees' /\ PageAgrees' /\ HistoryAgrees'
    BY DEF ScreenInv
  <2>1. DataAgrees
    BY <1>2 DEF DashboardInv, ScreenInv
  <2>2. DataAgrees'
    <3>1. /\ AwaitsOnly(G, "LoadDashboard", [basis |-> model.basis])
          /\ Idle(G, "LoadDashboard") => flight[i].args = [basis |-> model.basis]
      BY <1>8, <2>1 DEF DataAgrees
    <3>2. /\ AwaitsOnly(flight', "LoadDashboard", [basis |-> model.basis])
          /\ Idle(flight', "LoadDashboard") => data.basis = model.basis
      BY <1>4, <1>11, <1>13, <3>1 DEF SameKind
    <3>. QED
      BY <1>10, <3>2 DEF DataAgrees
  <2>3. PageAgrees'
    <3>1. PageWish' = [entityType |-> t, cursor |-> NoCursor, basis |-> model.basis]
      BY <1>10 DEF PageWish
    <3>. QED
      BY <1>5, <1>10, <1>13, <3>1 DEF PageAgrees
  <2>4. HistoryAgrees'
    BY <1>10 DEF HistoryAgrees, NoPage
  <2>. QED
    BY <2>2, <2>3, <2>4
<1>15. ConfigInv'
  <2>1. ASSUME model.configEditor \notin {"closed", "create"}, ~regressed'
        PROVE  object = model.configDraftObject /\ object \in data.objects
    <3>1. ~regressed /\ model.data.objects \subseteq data.objects
      BY <1>3, <2>1
    <3>. QED
      BY <1>9, <2>1, <3>1 DEF DashboardInv, ConfigInv
  <2>. QED
    BY <1>2, <1>4, <1>10, <2>1 DEF DashboardInv, ConfigInv
<1>16. EditInv' /\ UntouchedFactsSurvive'
  BY <1>2, <1>10, EditKept, SavesKept
<1>17. TypesOK' /\ BusyMeansWork'
  <2>1. regressed' \in BOOLEAN
    BY <1>3
  <2>. QED
    BY <1>2, <1>10, <1>13, <2>1 DEF TypesOK, BusyMeansWork
<1>. QED
  BY <1>13, <1>14, <1>15, <1>16, <1>17 DEF DashboardInv

LEMMA NextInv == DashboardInv /\ [DNext]_dvars => DashboardInv'
<1> SUFFICES ASSUME DashboardInv, [DNext]_dvars PROVE DashboardInv'
  OBVIOUS
<1>1. CASE UserStep
  BY <1>1, UserStepInv
<1>2. CASE ServerStep
  BY <1>2, ReadInv, SaveInv, PublishInv, MoveInv, FailInv DEF ServerStep
<1>3. CASE AnswerStep
  BY <1>3, DashboardArrives, PageArrives, HistoryArrives, QueryArrives, MutationArrives,
     FailureArrives DEF AnswerStep
<1>4. CASE \E e \in Ids, facts \in OtherFacts : OtherWrites(e, facts)
  BY <1>4, OtherInv
<1>5. CASE UNCHANGED dvars
  BY <1>5 DEF dvars, DashboardInv, TypesOK, FlightOK, BusyMeansWork, ScreenInv, DataAgrees,
     PageAgrees, HistoryAgrees, PageWish, ConfigInv, EditInv, UntouchedFactsSurvive
<1>. QED
  BY <1>1, <1>2, <1>3, <1>4, <1>5 DEF DNext

\* A screen at rest is neither waiting for nothing nor mixed
\* (ScreenConsistent): update sets and clears busy in many messages and
\* sends reads whose answers carry no request, yet whatever the user does
\* meanwhile, and however many commands are under way, the last answers of
\* each kind are the ones the selection asked for.
THEOREM ScreensAreConsistent == DSpec => []ScreenConsistent
<1>1. DSpec => []DashboardInv
  BY InitInv, NextInv, PTL DEF DSpec
<1>2. DashboardInv => ScreenConsistent
  BY InvImplies
<1>. QED
  BY <1>1, <1>2, PTL

\* What is written is what the operator had on screen (WritesAreIntended): a
\* publish names the object under the draft although the selection it reads is
\* reset by every reload, and a save changes touched attributes only, through
\* any number of switches between form, JSON and preview.
THEOREM WritesStayIntended == DSpec => []WritesAreIntended
<1>1. DSpec => []DashboardInv
  BY InitInv, NextInv, PTL DEF DSpec
<1>2. DashboardInv => WritesAreIntended
  BY InvImplies
<1>. QED
  BY <1>1, <1>2, PTL

=============================================================================
