---------------------------- MODULE MCDashboard ----------------------------
EXTENDS Dashboard
MCTypes == <<[name |-> "Course", source |-> "runtime"], [name |-> "Student", source |-> "managed"]>>
MCOrder == <<"c1", "c2", "s1">>
MCTypeOf == [e \in {"c1", "c2", "s1"} |-> IF e = "s1" THEN "Student" ELSE "Course"]
MCDb == <<[e \in {"c1", "c2", "s1"} |-> {}],
          [e \in {"c1", "c2", "s1"} |-> IF e = "s1" THEN {} ELSE {<<"n", 1>>}],
          [e \in {"c1", "c2", "s1"} |-> IF e = "c1" THEN {<<"n", 1>>, <<"n", 2>>, <<"t", 1>>}
                                        ELSE IF e = "c2" THEN {<<"n", 2>>} ELSE {<<"n", 1>>}]>>
MCObjects == <<"form", "policy", "rule">>
MCLive == [o \in {"form", "policy"} |-> IF o = "form" THEN {"field"} ELSE {}]
MCValues == {1, 2}
MCBrowse == {"SelectedEntityType", "SelectedEntityTypeScope", "SelectedEntity",
             "RequestedNextEntityTypePage", "RequestedPreviousEntityTypePage",
             "RequestedRefresh"}
MCTime == {"ToggledTemporalPanel", "ChangedTemporalDraft", "RequestedApplyTemporalBasis",
           "RequestedLatestTemporalBasis", "SelectedPage", "ChangedQueryText", "RequestedQuery",
           "RequestedNextQueryPage", "SelectedEntityTypeScope", "ChangedFormField", "RequestedValidateForm"}
MCEdit == {"RequestedEditEntity", "RequestedEditEntityById", "RequestedCreateEntity",
           "ClosedEntityEditor", "ChangedEntityDraftFacts", "SelectedEntityEditorFormat",
           "ChangedEntityAttributeValue", "ClearedEntityAttribute", "RequestedSaveEntity",
           "OtherWrites"}
MCConfig == {"SelectedPage", "SelectedConfigObject", "RequestedCreateConfig",
             "RequestedEditConfig", "ChangedConfigTargetRef", "ClosedConfigEditor",
             "RequestedSaveConfig", "RequestedMoveConfigRef"}
MCPaging == {"SelectedEntityTypeScope", "RequestedNextEntityTypePage",
             "RequestedPreviousEntityTypePage", "ToggledTemporalPanel", "ChangedTemporalDraft",
             "RequestedApplyTemporalBasis"}
MCSessions == {[messages |-> MCBrowse, clicks |-> 3, failures |-> 1],
               [messages |-> MCTime, clicks |-> 5, failures |-> 0],
               [messages |-> MCEdit, clicks |-> 4, failures |-> 0],
               [messages |-> MCPaging, clicks |-> 5, failures |-> 0],
               [messages |-> MCConfig, clicks |-> 5, failures |-> 0]}
MCJson == {{<<"n", 1>>, <<"t", 2>>}, {}}
MCOther == {{<<"n", 1>>, <<"t", 2>>}}
=============================================================================
