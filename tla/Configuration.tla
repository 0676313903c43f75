--------------------------- MODULE Configuration ---------------------------
(***************************************************************************)
(* The configuration services side by side: the store of releases and      *)
(* refs, entity validation, standing decisions, the evaluation cache, and  *)
(* the comparison of types on which stored configuration is kept.  They    *)
(* meet only through the Triples service, so `service` says which one a    *)
(* behaviour is about.                                                     *)
(***************************************************************************)
EXTENDS ConfigStore, EntityValidation, Reactor, TypeExprs

CONSTANTS Services, TypeFamily, ValueFamily

VARIABLES service, pair

configurationVars == <<service, pair, configVars, validationVars, reactorVars>>

NoPair == [from |-> AnyType, to |-> AnyType]

ConfigurationInit ==
    /\ service \in Services
    /\ pair \in IF service = "types" THEN [from : TypeFamily, to : TypeFamily] ELSE {NoPair}
    /\ ConfigInit /\ ReactorInit
    /\ ValidationInit

StoreOnly == service = "store" /\ UNCHANGED <<service, pair, validationVars, reactorVars>>

ValidationOnly == service = "validation" /\ UNCHANGED <<service, pair, configVars, reactorVars>>

DecisionsOnly ==
    service \in {"reactor", "cache"} /\ UNCHANGED <<service, pair, configVars, validationVars>>

ConfigurationNext ==
    \/ StoreOnly /\ ConfigNext
    \/ ValidationOnly /\ ValidationNext
    \/ DecisionsOnly /\ HostNext
    \/ DecisionsOnly /\ service = "reactor" /\ ReactorNext
    \/ DecisionsOnly /\ service = "cache" /\ CacheNext

ConfigurationSpec == ConfigurationInit /\ [][ConfigurationNext]_configurationVars

-----------------------------------------------------------------------------

\* A verdict of compatible is a proof that every value of the old type is
\* valid under the new one, for types that constrain a text by at most one
\* pattern.
CompatibleIsProven ==
    service = "types" /\ OnePattern(pair.to) => ProofOfValidity(pair.from, pair.to, ValueFamily)

=============================================================================
