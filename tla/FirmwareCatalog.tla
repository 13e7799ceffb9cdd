--------------------------- MODULE FirmwareCatalog ---------------------------
(***************************************************************************)
(* FirmwareCatalog (firmware.py): which catalogs are accepted, what is     *)
(* advised to a device of a model and a version, and what the local        *)
(* repository of images confirms.  Models and versions are normalized.     *)
(***************************************************************************)
EXTENDS Naturals, Sequences, FiniteSets

CONSTANTS
    Models,
    Versions,
    ArtifactIds,
    Catalogs,      \* the catalogs that may be loaded
    NoTarget       \* no artifact is advised

States == {"metadata-only", "approved", "observed"}

\* "image": both the filename and the digest are there.
Artifact == [id: ArtifactIds, model: Models, version: Versions,
             state: States \cup {"unsupported"}, image: BOOLEAN]
Rule == [model: Models, sources: SUBSET Versions, target: ArtifactIds]
Catalog == [artifacts: Seq(Artifact), rules: Seq(Rule)]

ASSUME CatalogAssumption == Catalogs \subseteq Catalog /\ NoTarget \notin Artifact

VARIABLES
    catalog,
    loaded       \* "none", "ok" or "refused"

catalogVars == <<catalog, loaded>>

CatalogInit ==
    /\ catalog \in Catalogs /\ loaded = "none"

ArtifactsOf(c) == {c.artifacts[i] : i \in DOMAIN c.artifacts}
RulesOf(c) == {c.rules[i] : i \in DOMAIN c.rules}

\* Every rule leads to an artifact of the catalog for its own model.
TargetsKnown(c) ==
    \A r \in RulesOf(c) : \E a \in ArtifactsOf(c) : a.id = r.target /\ a.model = r.model

\* __init__: no id twice, known states, approved images pinned.
Accepted(c) ==
    /\ \A i, j \in DOMAIN c.artifacts : c.artifacts[i].id = c.artifacts[j].id => i = j
    /\ \A a \in ArtifactsOf(c) : a.state \in States /\ (a.state = "approved" => a.image)
    /\ TargetsKnown(c)

\* FirmwareCatalog.load or the constructor.
Load ==
    /\ loaded' = IF Accepted(catalog) THEN "ok" ELSE "refused"
    /\ UNCHANGED catalog

-----------------------------------------------------------------------------
(* evaluate *)

UploadReady(a) == a.state = "approved" /\ a.image

\* The first element of a sequence for which Good holds, if any does.
FirstOf(s, Good(_)) ==
    {s[i] : i \in {j \in DOMAIN s : Good(s[j]) /\ \A k \in 1..(j - 1) : ~Good(s[k])}}

Running(c, m, v) == FirstOf(c.artifacts, LAMBDA a : a.model = m /\ a.version = v)
Paths(c, m, v) == FirstOf(c.rules, LAMBDA r : r.model = m /\ v \in r.sources)

Decision(status, target) == [status |-> status, target |-> target]

\* Mutant: the rules come before the versions that are known to be good.
EvaluateRulesFirst(c, m, v) ==
    CASE Paths(c, m, v) # {} ->
           Decision("update_required",
                    CHOOSE a \in ArtifactsOf(c) : \E r \in Paths(c, m, v) : a.id = r.target)
      [] Paths(c, m, v) = {} /\ Running(c, m, v) # {} ->
           Decision("compliant", CHOOSE a \in Running(c, m, v) : TRUE)
      [] OTHER -> Decision("manual_review", NoTarget)

\* Compliant if the version is one of the catalog's; else what the first rule
\* says; else to be reviewed if the model is known.
Evaluate(c, m, v) ==
    CASE Running(c, m, v) # {} ->
           Decision("compliant", CHOOSE a \in Running(c, m, v) : TRUE)
      [] Running(c, m, v) = {} /\ Paths(c, m, v) # {} ->
           Decision("update_required",
                    CHOOSE a \in ArtifactsOf(c) : \E r \in Paths(c, m, v) : a.id = r.target)
      [] Running(c, m, v) = {} /\ Paths(c, m, v) = {} ->
           Decision(IF \E a \in ArtifactsOf(c) : a.model = m THEN "manual_review"
                                                             ELSE "unsupported", NoTarget)

-----------------------------------------------------------------------------
(* Properties. *)

\* Every variable keeps its type.
CatalogTypeOK ==
    /\ catalog \in Catalog
    /\ loaded \in {"none", "ok", "refused"}

\* An update is advised at most once: a device that runs what it was told to
\* run is compliant, whatever the rules say of that version (firmware.py 254-280).
AdviceConverges ==
    loaded = "ok" => \A m \in Models, v \in Versions :
        LET advice == Evaluate(catalog, m, v)
        IN  advice.status = "update_required" =>
              /\ advice.target.version # v
              /\ Evaluate(catalog, m, advice.target.version).status = "compliant"
==============================================================================
