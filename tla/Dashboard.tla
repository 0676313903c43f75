----------------------------- MODULE Dashboard -----------------------------
(***************************************************************************)
(* The dashboard: one model record, one update per message, and the        *)
(* commands an update sends.  A command runs against the database whenever *)
(* it gets there, and its answer is delivered whenever it gets back: no    *)
(* answer carries the request it belongs to, so the order of answers is    *)
(* the interesting part.  Views appear as the messages they offer and the  *)
(* conditions under which a button is disabled.                            *)
(***************************************************************************)
EXTENDS Naturals, Sequences, SequencesExt

CONSTANTS
    EntityTypes,  \* sequence of [name, source], in name order
    TypeOf,       \* entity id -> name of its type
    EntityOrder,  \* every entity id, in id order
    InitialDb,    \* the recorded states at start: a sequence of (id -> facts)
    Values,       \* values an attribute can take
    BadValue,     \* a draft text that is not a value of the attribute
    ConfigObjects,\* sequence of config identities, in (kind, key) order
    InitialLive,  \* the live release at start: identity -> its nested children
    PageSize,     \* entities on one page (5 in the code)
    JsonDrafts,   \* lists of facts a user types as raw JSON
    OtherFacts,   \* facts another client gives an entity
    Sessions,     \* [messages, clicks, failures]: the messages a user works
                  \* with in one sitting, how many, and how many commands fail
    MaxFlight     \* commands in flight when a user sends another message

ASSUME ConfigObjectsAssumption == DOMAIN InitialLive \subseteq ToSet(ConfigObjects)

VARIABLES
    model,    \* the Model of the application
    flight,   \* commands in flight, oldest first
    db,       \* recorded states of the database, the last one current
    releases, \* every published release: identity -> nested children
    live,     \* the release the live ref points at
    session, clicks, failures,
    overtaken, \* history: an answer overtook another, or a command failed
    regressed, \* history: a dashboard answer older than the one it replaced
    lastSave   \* history: what the last entity save did

dvars == <<model, flight, db, releases, live, session, clicks, failures,
           overtaken, regressed, lastSave>>

Null == "none"
Ids == ToSet(EntityOrder)
Attributes == UNION {{f[1] : f \in InitialDb[v][e]} : v \in DOMAIN InitialDb, e \in Ids}
NoCursor == <<>>
NoPage == [entityType |-> Null, basis |-> 0, attributes |-> {}, entities |-> <<>>,
           facts |-> <<>>, next |-> NoCursor]
NoResult == [text |-> Null, basis |-> 0, next |-> FALSE]
NoData == [basis |-> 0, types |-> <<>>, first |-> Null, objects |-> {}, live |-> <<>>,
           releases |-> {}]

(***************************************************************************)
(* Reads of the database.  A basis is the number of the recorded state it  *)
(* reads (recorded and valid time move together); 0 stands for "latest".   *)
(***************************************************************************)
At(b) == IF b = 0 THEN Len(db) ELSE b

Exists(v, e) == db[v][e] # {}

EntitiesOf(t, v) == SelectSeq(EntityOrder, LAMBDA e : TypeOf[e] = t /\ Exists(v, e))

\* Revisions are never deleted, so an identity once published stays listed.
Known == UNION {DOMAIN r : r \in releases}

loadDashboardAt(b) ==
    [basis   |-> b,
     types   |-> SelectSeq(EntityTypes, LAMBDA t :
                    t.source = "managed" \/ EntitiesOf(t.name, At(b)) # <<>>),
     first   |-> LET es == SelectSeq(EntityOrder, LAMBDA e : Exists(At(b), e))
                 IN  IF es = <<>> THEN Null ELSE es[1],
     objects |-> ToSet(ConfigObjects) \cap Known,
     live    |-> live,
     releases |-> releases]

\* A cursor pins the type, the basis of the first page and the ids served so far.

loadEntityTypePage(t, cursor, b) ==
    LET basis == IF cursor = NoCursor THEN At(b) ELSE cursor[2]
        start == IF cursor = NoCursor THEN 0 ELSE cursor[3]
        all   == EntitiesOf(t, basis)
        page  == SubSeq(all, start + 1, IF start + PageSize < Len(all)
                                        THEN start + PageSize ELSE Len(all))
    IN  [entityType |-> t, basis |-> basis,
         attributes |-> {f[1] : f \in UNION {db[basis][e] : e \in ToSet(all)}},
         entities   |-> page,
         facts      |-> [e \in ToSet(page) |-> db[basis][e]],
         next       |-> IF start + Len(page) < Len(all) /\ page # <<>>
                        THEN <<t, basis, start + Len(page)>> ELSE NoCursor]

\* What a query's result and an entity's history are of is all that is kept of
\* them, so they may be read when they are delivered.  A result has two pages.
executeQueryText(args) == [text |-> args.text, basis |-> args.basis, next |-> ~args.cursor]
loadEntityHistory(args) == args.entity

(***************************************************************************)
(* Helpers of update.                                                      *)
(***************************************************************************)
Command(tag, args) ==
    [tag |-> tag, args |-> args, answered |-> FALSE, ok |-> FALSE, answer |-> Null]

LoadDashboard(b) == Command("LoadDashboard", [basis |-> b])
RunQuery(text, cursor, b) == Command("RunQuery", [text |-> text, cursor |-> cursor, basis |-> b])
LoadEntityTypePage(t, cursor, b) ==
    Command("LoadEntityTypePage", [entityType |-> t, cursor |-> cursor, basis |-> b])
LoadEntityHistory(e) == Command("LoadEntityHistory", [entity |-> e])

Send(commands) == flight' = flight \o commands
Quiet == UNCHANGED flight

Scoped(types, scope) == SelectSeq(types, LAMBDA t : scope = "all" \/ t.source = scope)

\* The selection survives if it is still visible; otherwise the first type.
SelectedAmong(types, selected) ==
    IF \E t \in ToSet(types) : t.name = selected THEN selected
    ELSE IF types = <<>> THEN Null ELSE types[1].name

\* Objects are listed in the order of ConfigObjects.
FirstObject(objects) == ConfigObjects[SelectInSeq(ConfigObjects, LAMBDA o : o \in objects)]

\* The form: one draft per attribute of the page or of the entity.
entityAttributeDrafts(page, facts) ==
    [a \in page.attributes \cup {f[1] : f \in facts} |->
        LET current == {f[2] : f \in {g \in facts : g[1] = a}}
        IN  [value   |-> IF current = {} THEN BadValue ELSE CHOOSE v \in current : TRUE,
             cleared |-> current = {},
             touched |-> FALSE]]

FormFails(m) == \E a \in DOMAIN m.entityAttributeDrafts :
    LET d == m.entityAttributeDrafts[a] IN ~d.cleared /\ d.touched /\ d.value = BadValue

formFactsDraft(m) ==
    UNION {LET d == m.entityAttributeDrafts[a]
           IN  IF d.cleared THEN {}
               ELSE IF ~d.touched THEN {f \in m.entityDraftFacts : f[1] = a}
               ELSE {<<a, d.value>>} :
              a \in DOMAIN m.entityAttributeDrafts}

(***************************************************************************)
(* The views: the messages that each part of the screen can send.  An      *)
(* editor is drawn over its page without taking the page's controls away.  *)
(***************************************************************************)
Unless(disabled, message) == IF disabled THEN {} ELSE {message}

toolTabs(m) == {"SelectedPage"}

pageHeader(m) == Unless(m.busy, "RequestedRefresh")

overviewView(m) == pageHeader(m) \cup {"SelectedPage"}

entityEditorView(m) ==
    IF m.entityEditor = "closed" THEN {}
    ELSE {"ClosedEntityEditor", "SelectedEntityEditorFormat"}
         \cup Unless(m.entityEditorFormat # "json", "ChangedEntityDraftFacts")
         \cup Unless(m.entityEditorFormat # "form", "ChangedEntityAttributeValue")
         \cup Unless(m.entityEditorFormat # "form", "ClearedEntityAttribute")
         \cup Unless(m.busy, "RequestedSaveEntity")

entitiesView(m) ==
    pageHeader(m) \cup entityEditorView(m)
    \cup {"SelectedEntityTypeScope", "SelectedEntityType", "RequestedCreateEntity",
          "SelectedEntity", "RequestedEditEntityById", "RequestedEditEntity"}
    \cup Unless(m.busy \/ m.entityTypeBackStack = <<>>, "RequestedPreviousEntityTypePage")
    \cup Unless(m.busy \/ m.entityTypePage.next = NoCursor, "RequestedNextEntityTypePage")

formsView(m) == pageHeader(m) \cup {"ChangedFormField", "RequestedValidateForm"}

queryView(m) ==
    pageHeader(m) \cup {"ChangedQueryText"}
    \cup Unless(m.busy, "RequestedQuery")
    \cup Unless(m.busy \/ ~m.queryResult.next, "RequestedNextQueryPage")

journalView(m) == pageHeader(m)

configEditorView(m) ==
    IF m.configEditor = "closed" THEN {}
    ELSE {"ClosedConfigEditor", "ChangedConfigTargetRef"}
         \cup Unless(m.busy, "RequestedSaveConfig")

configView(m) ==
    pageHeader(m) \cup configEditorView(m)
    \cup {"RequestedCreateConfig", "SelectedConfigObject"}
    \cup Unless(m.selectedConfigObject \notin DOMAIN m.data.live, "RequestedEditConfig")
    \cup Unless(m.busy, "RequestedMoveConfigRef")

temporalPanel(m) ==
    IF ~m.temporalPanelOpen THEN {}
    ELSE {"ChangedTemporalDraft", "RequestedLatestTemporalBasis"}
         \cup Unless(m.busy, "RequestedApplyTemporalBasis")

content(m) ==
    CASE m.data = NoData       -> {}
      [] m.page = "overview"   -> overviewView(m)
      [] m.page = "entities"   -> entitiesView(m)
      [] m.page = "forms"      -> formsView(m)
      [] m.page = "query"      -> queryView(m)
      [] m.page = "journal"    -> journalView(m)
      [] m.page = "config"     -> configView(m)

bodyView(m) ==
    toolTabs(m) \cup {"ToggledTemporalPanel"} \cup temporalPanel(m) \cup content(m)
    \cup Unless(~m.error \/ m.busy, "RequestedRefresh")

\* A user's message: on screen, one of the session's, and within its bound.
User(message) ==
    /\ message \in session.messages
    /\ clicks < session.clicks
    /\ message \in bodyView(model)
    /\ clicks' = clicks + 1
    /\ UNCHANGED <<db, releases, live, session, failures, overtaken, regressed, lastSave>>

InitialModel ==
    [page |-> "entities", data |-> NoData, selectedEntityId |-> Null,
     selectedEntityHistory |-> Null, entityEditor |-> "closed",
     entityEditorFormat |-> "form", entityAttributeDrafts |-> <<>>,
     entityDraftId |-> Null, entityDraftFacts |-> {}, entityOriginalFacts |-> {},
     jsonEdited |-> FALSE,
     entityTypeScope |-> "all", selectedEntityType |-> Null,
     entityTypePage |-> NoPage, entityTypeCursor |-> NoCursor, entityTypeBackStack |-> <<>>,
     formFilled |-> FALSE, selectedConfigObject |-> Null,
     configEditor |-> "closed", configDraftObject |-> Null, configTargetRef |-> "live",
     queryText |-> "preset", queryResult |-> NoResult,
     temporalPanelOpen |-> FALSE, basis |-> 0, basisDraft |-> 0,
     busy |-> TRUE, error |-> FALSE, notice |-> Null]

DInit ==
    /\ model = InitialModel
    /\ flight = <<LoadDashboard(0)>>
    /\ db = InitialDb
    /\ releases = {InitialLive}
    /\ live = InitialLive
    /\ session \in Sessions
    /\ clicks = 0 /\ failures = 0
    /\ overtaken = FALSE /\ regressed = FALSE
    /\ lastSave = [entity |-> Null, before |-> {}, opened |-> {}, after |-> {}, edited |-> {}]

(***************************************************************************)
(* Browsing entities.                                                      *)
(***************************************************************************)
SelectedPage(p) ==
    /\ User("SelectedPage")
    /\ model' = [model EXCEPT !.page = p, !.notice = Null]
    /\ Quiet

SelectedEntityType(t) ==
    /\ User("SelectedEntityType")
    /\ t \in {s.name : s \in ToSet(Scoped(model.data.types, model.entityTypeScope))}
    /\ model' = [model EXCEPT !.selectedEntityType = t, !.entityTypePage = NoPage,
                              !.entityTypeCursor = NoCursor, !.entityTypeBackStack = <<>>,
                              !.busy = TRUE, !.error = FALSE]
    /\ Send(<<LoadEntityTypePage(t, NoCursor, model.basis)>>)

SelectedEntityTypeScope_Bug(scope) ==
    /\ User("SelectedEntityTypeScope")
    /\ LET t == SelectedAmong(Scoped(model.data.types, scope), model.selectedEntityType)
       IN  /\ model' = [model EXCEPT !.entityTypeScope = scope, !.selectedEntityType = t,
                                     !.selectedEntityId = Null,
                                     !.selectedEntityHistory = Null,
                                     !.entityTypeCursor = NoCursor,
                                     !.entityTypeBackStack = <<>>,
                                     !.busy = (t # Null), !.error = FALSE, !.notice = Null]
           /\ Send(IF t = Null \/ t = model.selectedEntityType THEN <<>>
                   ELSE <<LoadEntityTypePage(t, NoCursor, model.basis)>>)

SelectedEntityTypeScope(scope) ==
    /\ User("SelectedEntityTypeScope")
    /\ LET t == SelectedAmong(Scoped(model.data.types, scope), model.selectedEntityType)
       IN  /\ model' = [model EXCEPT !.entityTypeScope = scope, !.selectedEntityType = t,
                                     !.selectedEntityId = Null,
                                     !.selectedEntityHistory = Null,
                                     !.entityTypePage = NoPage,
                                     !.entityTypeCursor = NoCursor,
                                     !.entityTypeBackStack = <<>>,
                                     !.busy = (t # Null), !.error = FALSE, !.notice = Null]
           /\ Send(IF t = Null THEN <<>>
                   ELSE <<LoadEntityTypePage(t, NoCursor, model.basis)>>)

SelectedEntity(e) ==
    /\ User("SelectedEntity")
    /\ e \in ToSet(model.entityTypePage.entities)
    /\ model' = [model EXCEPT !.selectedEntityId = e, !.selectedEntityHistory = Null,
                              !.notice = Null]
    /\ Send(<<LoadEntityHistory(e)>>)

RequestedNextEntityTypePage ==
    /\ User("RequestedNextEntityTypePage")
    /\ LET cursor == model.entityTypePage.next
       IN  /\ model.selectedEntityType # Null /\ cursor # NoCursor
           /\ model' = [model EXCEPT
                  !.entityTypeCursor = cursor,
                  !.entityTypeBackStack = Append(@, model.entityTypeCursor),
                  !.busy = TRUE, !.error = FALSE]
           /\ Send(<<LoadEntityTypePage(model.selectedEntityType, cursor, model.basis)>>)

RequestedPreviousEntityTypePage ==
    /\ User("RequestedPreviousEntityTypePage")
    /\ model.selectedEntityType # Null /\ model.entityTypeBackStack # <<>>
    /\ LET cursor == Last(model.entityTypeBackStack)
       IN  /\ model' = [model EXCEPT !.entityTypeCursor = cursor,
                                     !.entityTypeBackStack = Front(@),
                                     !.busy = TRUE, !.error = FALSE]
           /\ Send(<<LoadEntityTypePage(model.selectedEntityType, cursor, model.basis)>>)

RequestedRefresh ==
    /\ User("RequestedRefresh")
    /\ model' = [model EXCEPT !.busy = TRUE, !.error = FALSE, !.notice = Null]
    /\ Send(<<LoadDashboard(model.basis)>>)

(***************************************************************************)
(* The temporal basis and the query workbench.                             *)
(***************************************************************************)
ToggledTemporalPanel ==
    /\ User("ToggledTemporalPanel")
    /\ model' = [model EXCEPT !.temporalPanelOpen = ~@]
    /\ Quiet

\* A typed date (possibly not one: the draft of no recorded state), or the
\* exact instant of a journal position.
ChangedTemporalDraft(b) ==
    /\ User("ChangedTemporalDraft")
    /\ b \in 0 .. Len(db) + 1 /\ b # model.basisDraft
    /\ model' = [model EXCEPT !.basisDraft = b, !.notice = Null]
    /\ Quiet

RequestedApplyTemporalBasis ==
    /\ User("RequestedApplyTemporalBasis")
    /\ IF model.basisDraft > Len(db)
       THEN model' = [model EXCEPT !.error = TRUE, !.notice = Null] /\ Quiet
       ELSE /\ model' = [model EXCEPT !.basis = model.basisDraft, !.queryResult = NoResult,
                                      !.temporalPanelOpen = FALSE, !.busy = TRUE,
                                      !.error = FALSE, !.notice = Null]
            /\ Send(<<LoadDashboard(model.basisDraft)>>)

RequestedLatestTemporalBasis ==
    /\ User("RequestedLatestTemporalBasis")
    /\ model' = [model EXCEPT !.basis = 0, !.basisDraft = 0, !.queryResult = NoResult,
                              !.temporalPanelOpen = FALSE, !.busy = TRUE,
                              !.error = FALSE, !.notice = Null]
    /\ Send(<<LoadDashboard(0)>>)

\* A preset or an edit of the text: the shown result is dropped.
ChangedQueryText(text) ==
    /\ User("ChangedQueryText") /\ text # model.queryText
    /\ model' = [model EXCEPT !.queryText = text, !.queryResult = NoResult, !.notice = Null]
    /\ Quiet

RequestedQuery ==
    /\ User("RequestedQuery")
    /\ model' = [model EXCEPT !.busy = TRUE, !.error = FALSE, !.notice = Null]
    /\ Send(<<RunQuery(model.queryText, FALSE, model.basis)>>)

RequestedNextQueryPage ==
    /\ User("RequestedNextQueryPage")
    /\ model.queryResult.next /\ ~model.busy
    /\ model' = [model EXCEPT !.busy = TRUE, !.error = FALSE]
    /\ Send(<<RunQuery(model.queryText, TRUE, model.basis)>>)

(***************************************************************************)
(* Configured forms: a preview that executes nothing.                      *)
(***************************************************************************)
ChangedFormField ==
    /\ User("ChangedFormField")
    /\ model' = [model EXCEPT !.formFilled = ~@, !.notice = Null, !.error = FALSE]
    /\ Quiet

RequestedValidateForm ==
    /\ User("RequestedValidateForm")
    /\ model' = [model EXCEPT !.error = ~model.formFilled,
                              !.notice = IF model.formFilled THEN "preview" ELSE Null]
    /\ Quiet

(***************************************************************************)
(* The entity editor.                                                      *)
(***************************************************************************)
OpenEditor(mode, e, facts) ==
    [model EXCEPT !.entityEditor = mode, !.entityEditorFormat = "form",
                  !.entityAttributeDrafts = entityAttributeDrafts(model.entityTypePage, facts),
                  !.entityDraftId = e, !.entityDraftFacts = facts,
                  !.entityOriginalFacts = facts, !.jsonEdited = FALSE,
                  !.error = FALSE, !.notice = Null]

RequestedCreateEntity(e) ==  \* with the id the user then types
    /\ User("RequestedCreateEntity")
    /\ model' = OpenEditor("create", e, {})
    /\ Quiet

RequestedEditEntity ==
    /\ User("RequestedEditEntity")
    /\ model.selectedEntityId \in ToSet(model.entityTypePage.entities)
    /\ model' = OpenEditor("edit", model.selectedEntityId,
                           model.entityTypePage.facts[model.selectedEntityId])
    /\ Quiet

RequestedEditEntityById(e) ==
    /\ User("RequestedEditEntityById")
    /\ e \in ToSet(model.entityTypePage.entities)
    /\ model' = [OpenEditor("edit", e, model.entityTypePage.facts[e])
                    EXCEPT !.selectedEntityId = e, !.selectedEntityHistory = Null]
    /\ Send(<<LoadEntityHistory(e)>>)

ClosedEntityEditor ==
    /\ User("ClosedEntityEditor")
    /\ model' = [model EXCEPT !.entityEditor = "closed"]
    /\ Quiet

\* The raw JSON of the facts, replaced by any other list of facts.
ChangedEntityDraftFacts(facts) ==
    /\ User("ChangedEntityDraftFacts")
    /\ model' = [model EXCEPT !.entityDraftFacts = facts, !.jsonEdited = TRUE]
    /\ Quiet

SelectedEntityEditorFormat(format) ==
    /\ User("SelectedEntityEditorFormat")
    /\ format # model.entityEditorFormat
    /\ LET leaving == model.entityEditorFormat = "form"
       IN  model' = IF leaving /\ FormFails(model)
                    THEN [model EXCEPT !.error = TRUE, !.notice = Null]
                    ELSE [model EXCEPT !.entityEditorFormat = format,
                                       !.entityDraftFacts = IF leaving THEN formFactsDraft(model)
                                                            ELSE @,
                                       !.error = FALSE]
    /\ Quiet

OnForm(a) == /\ model.entityEditorFormat = "form"
             /\ a \in DOMAIN model.entityAttributeDrafts

\* A typed value, a picked reference or another value type.
ChangedEntityAttributeValue(a, v) ==
    /\ User("ChangedEntityAttributeValue") /\ OnForm(a)
    /\ model' = [model EXCEPT !.entityAttributeDrafts[a] =
                    [value |-> v, cleared |-> FALSE, touched |-> TRUE], !.error = FALSE]
    /\ Quiet

\* The one button that says "Clear" or "Include".
ClearedEntityAttribute(a) ==
    /\ User("ClearedEntityAttribute") /\ OnForm(a)
    /\ model' = [model EXCEPT !.entityAttributeDrafts[a] =
                    [value |-> @.value, cleared |-> ~@.cleared, touched |-> TRUE]]
    /\ Quiet

RequestedSaveEntity ==
    /\ User("RequestedSaveEntity")
    /\ LET form == model.entityEditorFormat = "form"
           facts == IF form THEN formFactsDraft(model) ELSE model.entityDraftFacts
       IN  IF form /\ FormFails(model)
           THEN model' = [model EXCEPT !.error = TRUE, !.notice = Null] /\ Quiet
           ELSE /\ model' = [model EXCEPT !.busy = TRUE, !.error = FALSE, !.notice = Null]
                /\ Send(<<Command("SaveEntity",
                     [mode   |-> model.entityEditor, entity |-> model.entityDraftId,
                      facts  |-> facts,
                      opened |-> model.entityOriginalFacts,
                      edited |-> IF model.jsonEdited
                                 THEN {f[1] : f \in model.entityOriginalFacts \cup facts}
                                 ELSE {a \in DOMAIN model.entityAttributeDrafts :
                                          model.entityAttributeDrafts[a].touched}])>>)

(***************************************************************************)
(* The configuration workbench.                                            *)
(***************************************************************************)
SelectedConfigObject_Bug(o) ==
    /\ User("SelectedConfigObject") /\ o \in model.data.objects
    /\ model' = [model EXCEPT !.selectedConfigObject = o, !.notice = Null]
    /\ Quiet

\* Selecting an object, or one of its revisions, closes the editor.
SelectedConfigObject(o) ==
    /\ User("SelectedConfigObject") /\ o \in model.data.objects
    /\ model' = [model EXCEPT !.selectedConfigObject = o, !.configEditor = "closed",
                              !.notice = Null]
    /\ Quiet

RequestedCreateConfig(o) ==  \* with the kind and key the user then types
    /\ User("RequestedCreateConfig")
    /\ model' = [model EXCEPT !.configEditor = "create", !.configDraftObject = o,
                              !.configTargetRef = "none", !.error = FALSE, !.notice = Null]
    /\ Quiet

\* "Edit & publish" and "Remove", offered for an object the live release has.
RequestedEditConfig(mode) ==
    /\ User("RequestedEditConfig")
    /\ model.selectedConfigObject \in DOMAIN model.data.live
    /\ model' = [model EXCEPT !.configEditor = mode,
                              !.configDraftObject = model.selectedConfigObject,
                              !.configTargetRef = IF mode = "edit" THEN "live" ELSE "none",
                              !.error = FALSE, !.notice = Null]
    /\ Quiet

ChangedConfigTargetRef(name) ==
    /\ User("ChangedConfigTargetRef")
    /\ name # model.configTargetRef
    /\ model' = [model EXCEPT !.configTargetRef = name]
    /\ Quiet

ClosedConfigEditor ==
    /\ User("ClosedConfigEditor")
    /\ model' = [model EXCEPT !.configEditor = "closed"]
    /\ Quiet

RequestedSaveConfig ==
    /\ User("RequestedSaveConfig")
    /\ model.configEditor = "create" \/ model.selectedConfigObject # Null
    /\ model' = [model EXCEPT !.busy = TRUE, !.error = FALSE, !.notice = Null]
    /\ Send(<<Command("SaveConfig",
            [operation |-> model.configEditor, identity |-> model.selectedConfigObject,
             object |-> model.configDraftObject, targetRef |-> model.configTargetRef])>>)

RequestedMoveConfigRef(name, release) ==
    /\ User("RequestedMoveConfigRef")
    /\ release \in model.data.releases
    /\ name = "live" => release # model.data.live
    /\ model' = [model EXCEPT !.busy = TRUE, !.error = FALSE, !.notice = Null]
    /\ Send(<<Command("MoveConfigRef", [name |-> name, release |-> release])>>)

(***************************************************************************)
(* Commands reach the database.  Answered(i, ok, answer) is the i-th       *)
(* command with its answer, on its way back.                               *)
(***************************************************************************)
Answered(i, ok, answer) ==
    flight' = [flight EXCEPT ![i] = [tag |-> @.tag, args |-> @.args, answered |-> TRUE, ok |-> ok,
                                     answer |-> answer]]

Serving(i, tag) ==
    /\ flight[i].tag = tag /\ ~flight[i].answered
    /\ UNCHANGED <<model, session, clicks, failures, overtaken, regressed>>

ReadDashboard(i) ==
    /\ Serving(i, "LoadDashboard")
    /\ Answered(i, TRUE, loadDashboardAt(flight[i].args.basis))
    /\ UNCHANGED <<db, releases, live, lastSave>>

ReadEntityTypePage(i) ==
    /\ Serving(i, "LoadEntityTypePage")
    /\ LET c == flight[i].args
       IN  IF c.cursor # NoCursor /\ c.cursor[1] # c.entityType
           THEN Answered(i, FALSE, Null)
           ELSE Answered(i, TRUE, loadEntityTypePage(c.entityType, c.cursor, c.basis))
    /\ UNCHANGED <<db, releases, live, lastSave>>

\* Retract every current fact and assert the drafts, in one transaction.
saveEntity(i) ==
    /\ Serving(i, "SaveEntity")
    /\ LET c == flight[i].args
           before == Last(db)[c.entity]
           refused == c.facts = {} \/ (c.mode = "create" /\ before # {})
       IN  /\ Answered(i, ~refused, Null)
           /\ db' = IF refused THEN db ELSE Append(db, [Last(db) EXCEPT ![c.entity] = c.facts])
           /\ lastSave' = IF refused THEN lastSave
                          ELSE [entity |-> c.entity, before |-> before, opened |-> c.opened,
                                after |-> c.facts, edited |-> c.edited]
    /\ UNCHANGED <<releases, live>>

\* The new release is the live one with one object added, replaced or left
\* out; a replacement, and a created object too, takes type and nested
\* children from the object the request identifies.
publishConfigChange(i) ==
    /\ Serving(i, "SaveConfig")
    /\ LET c == flight[i].args
           target == c.identity \in DOMAIN live
           others == IF c.operation = "create" THEN DOMAIN live
                     ELSE DOMAIN live \ {c.identity}
           children == IF target THEN live[c.identity] ELSE {}
           refused == \/ c.operation # "create" /\ ~target
                      \/ c.operation # "remove" /\ c.object \in others
           kept == [o \in others |-> live[o]]
           release == IF c.operation = "remove" THEN kept
                      ELSE [o \in others \cup {c.object} |->
                              IF o = c.object THEN children ELSE live[o]]
       IN  /\ Answered(i, ~refused, Null)
           /\ releases' = IF refused THEN releases ELSE releases \cup {release}
           /\ live' = IF refused \/ c.targetRef # "live" THEN live ELSE release
    /\ UNCHANGED <<db, lastSave>>

moveConfigRef(i) ==
    /\ Serving(i, "MoveConfigRef")
    /\ Answered(i, TRUE, Null)
    /\ live' = IF flight[i].args.name = "live" THEN flight[i].args.release ELSE live
    /\ UNCHANGED <<db, releases, lastSave>>

\* A request that never reaches the database, or an answer that is lost on its
\* way back: the change may or may not have been made.
CommandFails(i) ==
    /\ failures < session.failures
    /\ flight[i].answered => flight[i].ok
    /\ Answered(i, FALSE, Null)
    /\ failures' = failures + 1
    /\ UNCHANGED <<model, db, releases, live, session, clicks, overtaken, regressed, lastSave>>

\* Somebody else writes an entity.
OtherWrites(e, facts) ==
    /\ "OtherWrites" \in session.messages /\ clicks < session.clicks
    /\ clicks' = clicks + 1
    /\ facts # Last(db)[e]
    /\ db' = Append(db, [Last(db) EXCEPT ![e] = facts])
    /\ UNCHANGED <<model, flight, releases, live, session, failures, overtaken, regressed,
                   lastSave>>

(***************************************************************************)
(* Answers reach update.                                                   *)
(***************************************************************************)
Delivered(i, tag, commands) ==
    /\ flight[i].tag = tag
    /\ IF tag \in {"RunQuery", "LoadEntityHistory"} THEN ~flight[i].answered ELSE flight[i].ok
    /\ flight' = RemoveAt(flight, i) \o commands
    /\ overtaken' = (overtaken \/ \E j \in 1 .. i - 1 : flight[j].tag = tag)
    /\ UNCHANGED <<db, releases, live, session, clicks, failures, lastSave>>

SucceededLoadDashboard(i) ==
    LET data == flight[i].answer
        types == Scoped(data.types, model.entityTypeScope)
        t == SelectedAmong(types, model.selectedEntityType)
    IN  /\ Delivered(i, "LoadDashboard",
              <<RunQuery(model.queryText, FALSE, model.basis)>>
              \o IF types = <<>> THEN <<>>
                 ELSE <<LoadEntityTypePage(t, NoCursor, model.basis)>>)
        /\ model' = [model EXCEPT
              !.data = data,
              !.selectedEntityId = IF @ = Null THEN data.first ELSE @,
              !.selectedEntityType = t,
              !.selectedConfigObject = IF @ \in data.objects THEN @
                                       ELSE IF data.objects = {} THEN Null
                                       ELSE FirstObject(data.objects),
              !.entityTypePage = NoPage, !.entityTypeCursor = NoCursor,
              !.entityTypeBackStack = <<>>, !.busy = TRUE, !.error = FALSE]
        /\ regressed' = (regressed \/ ~(model.data.objects \subseteq data.objects))

SucceededLoadEntityTypePage(i) ==
    LET page == flight[i].answer
        shown == ToSet(page.entities)
        e == IF model.selectedEntityId \in shown THEN model.selectedEntityId
             ELSE IF page.entities = <<>> THEN Null ELSE page.entities[1]
    IN  /\ Delivered(i, "LoadEntityTypePage",
              IF page.entities = <<>> THEN <<>> ELSE <<LoadEntityHistory(e)>>)
        /\ model' = [model EXCEPT !.entityTypePage = page, !.selectedEntityId = e,
                                  !.selectedEntityHistory = Null,
                                  !.busy = (page.entities # <<>>), !.error = FALSE]
        /\ UNCHANGED regressed

SucceededLoadEntityHistory(i) ==
    /\ Delivered(i, "LoadEntityHistory", <<>>)
    /\ model' = [model EXCEPT !.selectedEntityHistory = loadEntityHistory(flight[i].args),
                              !.busy = FALSE, !.error = FALSE]
    /\ UNCHANGED regressed

SucceededRunQuery(i) ==
    /\ Delivered(i, "RunQuery", <<>>)
    /\ model' = [model EXCEPT !.queryResult = executeQueryText(flight[i].args),
                              !.busy = FALSE, !.error = FALSE]
    /\ UNCHANGED regressed

SucceededMutation(i) ==
    /\ Delivered(i, flight[i].tag, <<LoadDashboard(model.basis)>>)
    /\ flight[i].tag \in {"SaveEntity", "SaveConfig", "MoveConfigRef"}
    /\ model' = [model EXCEPT !.entityEditor = "closed", !.configEditor = "closed",
                              !.busy = TRUE, !.notice = "done", !.error = FALSE]
    /\ UNCHANGED regressed

FailedDashboardCommand(i) ==
    /\ flight[i].answered /\ ~flight[i].ok
    /\ flight' = RemoveAt(flight, i)
    /\ overtaken' = TRUE
    /\ model' = [model EXCEPT !.busy = FALSE, !.error = TRUE]
    /\ UNCHANGED <<db, releases, live, session, clicks, failures, regressed, lastSave>>

UserStep ==
    \/ \E p \in {"overview", "entities", "forms", "query", "journal", "config"} \ {model.page} :
          SelectedPage(p)
    \/ \E t \in ToSet(EntityTypes) : SelectedEntityType(t.name)
    \/ \E scope \in {"all", "managed", "runtime"} : SelectedEntityTypeScope(scope)
    \/ \E e \in Ids : SelectedEntity(e) \/ RequestedEditEntityById(e) \/ RequestedCreateEntity(e)
    \/ RequestedNextEntityTypePage \/ RequestedPreviousEntityTypePage \/ RequestedRefresh
    \/ ToggledTemporalPanel \/ RequestedApplyTemporalBasis \/ RequestedLatestTemporalBasis
    \/ \E b \in 0 .. Len(db) + 1 : ChangedTemporalDraft(b)
    \/ \E text \in {"preset", "custom"} : ChangedQueryText(text)
    \/ RequestedQuery \/ RequestedNextQueryPage
    \/ ChangedFormField \/ RequestedValidateForm
    \/ RequestedEditEntity \/ ClosedEntityEditor \/ RequestedSaveEntity
    \/ \E facts \in JsonDrafts : ChangedEntityDraftFacts(facts)
    \/ \E format \in {"form", "json", "diff"} : SelectedEntityEditorFormat(format)
    \/ \E a \in Attributes : \/ ClearedEntityAttribute(a)
                             \/ \E v \in Values \cup {BadValue} : ChangedEntityAttributeValue(a, v)
    \/ \E o \in ToSet(ConfigObjects) : SelectedConfigObject(o) \/ RequestedCreateConfig(o)
    \/ \E mode \in {"edit", "remove"} : RequestedEditConfig(mode)
    \/ \E name \in {"none", "test", "live"} : ChangedConfigTargetRef(name)
    \/ ClosedConfigEditor \/ RequestedSaveConfig
    \/ \E name \in {"test", "live"}, r \in releases : RequestedMoveConfigRef(name, r)

ServerStep == \E i \in DOMAIN flight :
    \/ ReadDashboard(i) \/ ReadEntityTypePage(i) \/ saveEntity(i) \/ publishConfigChange(i) \/ moveConfigRef(i)
    \/ CommandFails(i)

AnswerStep == \E i \in DOMAIN flight :
    \/ SucceededLoadDashboard(i) \/ SucceededLoadEntityTypePage(i)
    \/ SucceededLoadEntityHistory(i) \/ SucceededRunQuery(i) \/ SucceededMutation(i)
    \/ FailedDashboardCommand(i)

DNext ==
    \/ Len(flight) <= MaxFlight /\ UserStep
    \/ ServerStep
    \/ AnswerStep
    \/ \E e \in Ids, facts \in OtherFacts : OtherWrites(e, facts)

DSpec == DInit /\ [][DNext]_dvars

-----------------------------------------------------------------------------
(***************************************************************************)
(* Properties.                                                             *)
(***************************************************************************)

\* The application is never left "Reading" with nothing to wait for: busy is
\* set and cleared by nine different messages of update, and whenever it is
\* set a command is on its way whose answer, good or bad, clears it.
BusyMeansWork == model.busy => flight # <<>>

\* Once every answer is in, and none of them failed or overtook an older one of
\* its kind, the screen is of one piece: the data are of the chosen basis, the
\* page (if a type is selected at all) is of the selected type and the one its
\* cursor stands for, the first one being of the chosen basis, and the
\* transactions shown beside it are those of the selected entity.
SettledViewAgrees ==
    (flight = <<>> /\ ~overtaken) =>
        /\ model.data.basis = model.basis
        /\ model.selectedEntityType # Null =>
              /\ model.entityTypePage.entityType = model.selectedEntityType
              /\ IF model.entityTypeCursor = NoCursor
                 THEN model.basis # 0 => model.entityTypePage.basis = model.basis
                 ELSE model.entityTypePage.basis = model.entityTypeCursor[2]
        /\ model.entityTypePage.entities # <<>> =>
              model.selectedEntityHistory = model.selectedEntityId

\* A screen at rest is neither waiting for nothing nor mixed.
ScreenConsistent == BusyMeansWork /\ SettledViewAgrees

\* An edit or a removal on its way to the configuration store names the
\* object whose draft the operator had open - unless a dashboard answer older
\* than the one on screen re-selected another object under the open editor.
PublishTargetsDraft ==
    \A i \in DOMAIN flight :
        (flight[i].tag = "SaveConfig" /\ flight[i].args.operation # "create" /\ ~regressed)
            => flight[i].args.identity = flight[i].args.object

\* A form save of an entity nobody wrote since the editor read it leaves the
\* facts of every attribute the operator did not touch as they were, through
\* any number of switches between the form, the JSON and the preview.
UntouchedFactsSurvive ==
    lastSave.before = lastSave.opened =>
        \A f \in (lastSave.before \ lastSave.after) \cup (lastSave.after \ lastSave.before) :
            f[1] \in lastSave.edited

\* What is written to the store is what the operator had on screen.
WritesAreIntended == PublishTargetsDraft /\ UntouchedFactsSurvive

=============================================================================
