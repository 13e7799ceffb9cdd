------------------------------- MODULE MCReads -------------------------------
(* The reads of accounts, gateways and devices, each on a small instance: a  *)
(* behaviour runs one kind of read, and the rest stands still.               *)
EXTENDS FleetDevices, LegacyLists, GatewayEvidence, Ddns, GroupTree, FirmwareScan

CONSTANTS d1, d2, d3, g1, g2, g3,               \* devices and groups
          s1, s2, n1, n2,                        \* serials and host names
          i1, i2,                                \* group ids
          t1, t2, m1, m2, v1, v2, a1, a2, a3     \* firmware

VARIABLE command    \* what runs

MCGroups == <<g1, g2, g3>>

MCArtifact(i, m, v, s, image) ==
    [id |-> i, model |-> m, version |-> v, state |-> s, image |-> image]
MCArtifacts ==
    {MCArtifact(a1, m1, v1, s, b) : s \in States \cup {"unsupported"}, b \in BOOLEAN}
      \cup {MCArtifact(a2, m, v2, s, TRUE) : m \in {m1, m2}, s \in {"approved", "observed"}}
      \cup {MCArtifact(a1, m2, v1, "approved", TRUE)}
MCRules == [model: {m1, m2}, sources: {{v1}, {v2}}, target: {a1, a2}]
             \cup [model: {m1}, sources: {{v1}}, target: {a3}]
UpToTwo(S) == {<<>>} \cup {<<x>> : x \in S} \cup (S \X S)
MCCatalogs == [artifacts: UpToTwo(MCArtifacts), rules: UpToTwo(MCRules)]
ScanCatalog == [artifacts |-> <<MCArtifact(a1, m1, v1, "approved", TRUE)>>,
                rules |-> <<[model |-> m1, sources |-> {v2}, target |-> a1]>>]

MCTargets == <<t1, t2>>
MCPages == [t \in {t1, t2} |-> [framed |-> t = t2, ruijie |-> TRUE, model |-> m1,
                                version |-> v2]]

everything == <<cloud, client, listClient, evidenceVars, ddnsVars, treeVars, scanVars, command>>

RootAlone == [parent |-> <<0>>, buildings |-> {}, id |-> <<NoId>>, envelope |-> {}]

MCInit ==
    /\ command \in {"fleet", "list", "evidence", "ddns", "tree", "catalog", "scan"}
    /\ tree \in IF command = "tree" THEN Trees ELSE {RootAlone}
    /\ calls = <<>> /\ answered = FALSE
    /\ projects = <<>> /\ rootId = NoId /\ index = NoProjects
    /\ CloudInit
    /\ command # "fleet" => ~blind
    /\ command = "list" => \A d \in Devices : home[d] = g1
    /\ command \notin {"fleet", "list"} => listing = <<>> /\ \A d \in Devices : home[d] = g1
    /\ Init
    /\ ListInit /\ (command # "list" => kind = "devices")
    /\ EvidenceInit /\ task = "wan"
    /\ DdnsInit
    /\ catalog \in IF command = "catalog" THEN Catalogs ELSE {ScanCatalog}
    /\ ScanInit

MCNext ==
    \/ /\ command = "fleet" /\ Next
       /\ UNCHANGED <<listClient, evidenceVars, ddnsVars, treeVars, scanVars, command>>
    \/ /\ command = "list" /\ ListNext /\ home' = home    \* one project
       /\ UNCHANGED <<client, evidenceVars, ddnsVars, treeVars, scanVars, command>>
    \/ /\ command = "evidence" /\ EvidenceNext
       /\ UNCHANGED <<cloud, client, listClient, ddnsVars, treeVars, scanVars, command>>
    \/ /\ command = "ddns" /\ DdnsNext
       /\ UNCHANGED <<cloud, client, listClient, evidenceVars, treeVars, scanVars, command>>
    \/ /\ command = "tree" /\ TreeNext
       /\ UNCHANGED <<cloud, client, listClient, evidenceVars, ddnsVars, scanVars, command>>
    \/ /\ command = "catalog" /\ Load /\ UNCHANGED <<scan, waiting, probeVars>>
       /\ UNCHANGED <<cloud, client, listClient, evidenceVars, ddnsVars, treeVars, command>>
    \/ /\ command = "scan" /\ ScanNext
       /\ UNCHANGED <<cloud, client, listClient, evidenceVars, ddnsVars, treeVars, command>>

MCSpec == MCInit /\ [][MCNext]_everything
            /\ WF_vars(ClientStep) /\ ScanFairness

\* Every variable of every read keeps its type.
ReadsTypeOK ==
    TypeOK /\ ListTypeOK /\ EvidenceTypeOK /\ DdnsTypeOK /\ TreeTypeOK /\ ScanTypeOK
==============================================================================
