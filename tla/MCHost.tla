------------------------------- MODULE MCHost -------------------------------
(***************************************************************************)
(* What surrounds an agent in its process, checked side by side: the       *)
(* sessions with their approvals and event stream, the hooks, the file     *)
(* tool and the policy.  The parts share no state; each behaviour          *)
(* exercises the one `part' names while the others stay as they began.     *)
(***************************************************************************)
EXTENDS Session, HookRegistry, FileTools, Policy, TLC

CONSTANTS i1, i2, s1, s2, project

VARIABLE part

\* Two patterns that overlap on one input; two sessions of one project; rules
\* that disagree; answers remembered in the other namespaces.
MCCovers == 1 :> {i1} @@ 2 :> {i1, i2}
MCProjectOf == s1 :> project @@ s2 :> project
MCRule(pattern, allow, scope) ==
    [key |-> [tool |-> CHOOSE t \in Tools : TRUE, pattern |-> pattern],
     allow |-> allow, scope |-> scope, reason |-> ~allow]
MCHostRules == {MCRule(1, FALSE, "project"), MCRule(2, TRUE, "session"), MCRule(2, TRUE, Process)}
MCHostDecisions ==
    [allow : {TRUE}, remember : {None, "session"}] \union [allow : {FALSE}, remember : {"global"}]
\* A host's own edit of session rules is a save; answers add them one by one.
SessionRulesAreSaved ==
    \A h \in Hosts :
        host[h].req = 0 /\ host[h].edit # None /\ host[h].edit.rule.scope = "session" => host[h].edit.kind = "save"
MCSymmetry == Permutations(Sessions) \union Permutations(Hosts)

MCPathOrder == << <<"a">>, <<"a", "b">>, <<"d">> >>
MCWritable == {MCPathOrder[i] : i \in DOMAIN MCPathOrder}

\* Texts that hold each other, an edit that makes another's text, line breaks,
\* two blank texts that match the same empty line.
MCEdit(old, new) == [old |-> old, new |-> new]
MCEdits ==
    {MCEdit(<<"x">>, <<"X", "x">>), MCEdit(<<"x", "n">>, <<"x", "_", "n">>), MCEdit(<<"X">>, <<>>),
     MCEdit(<<"x", "n", "x">>, <<"_", "n", "x">>), MCEdit(<<"_">>, <<"x">>), MCEdit(<<"_", "_">>, <<"X">>),
     MCEdit(<<"n", "X">>, <<"X">>)}
MCEditLists == {<<e>> : e \in MCEdits} \union {<<e, f>> : e, f \in MCEdits}
MCDocuments ==
    UNION {[1..n -> {"x", "X", "_", "n"}] \union [1..n -> {"x", "rn"}] : n \in 1..4}
    \union {<<"x", "rn", "x", "n">>}

MCLinkTargets == {<<"b">>}
MCBaseDir == <<"a">>
MCRootChoices == {{}, {<<"b">>}, {<<"a", "b">>}}
MCRelative ==
    {<<>>, <<"a">>, <<"b">>, <<"..">>, <<"a", "b">>, <<"..", "b">>, <<"a", "..", "b">>, <<"b", "..">>}
MCRawPaths == MCRelative \union {<<"/">> \o r : r \in {<<>>, <<"b">>, <<"a", "b">>, <<"b", "..", "a">>}}
\* None, one, and two that name one directory or not.
MCTaskDirs == {{}} \union {{x} : x \in MCRawPaths} \union {{x, <<"b">>} : x \in MCRawPaths}

Init ==
    /\ part \in {"approvals", "stream", "hooks", "files", "edits", "policy"}
    /\ PermissionInit /\ (part # "approvals" => backend = "volatile")
    /\ SessionInit /\ HookInit
    /\ WsInit /\ (part # "files" => wsDisk = [path \in WsPaths |-> Missing])
    /\ IF part = "edits" THEN EditInit
       ELSE document = <<"x">> /\ call_edits = <<MCEdit(<<"x">>, <<>>)>> /\ replace_all = FALSE /\ edited = NotStaged
    /\ IF part = "policy" THEN PolicyInit
       ELSE /\ entry = [r \in RealPaths |-> Folder] /\ policy = CHOOSE c \in Policies : TRUE
            /\ request = [kind |-> "none", path |-> <<>>] /\ answer = Refused

hostVars == <<permissionVars, sessionVars, hookVars>>
fileVars == <<wsVars, editVars, policyVars>>

HostNext ==
    \/ part = "approvals" /\ PermissionNext
       /\ UNCHANGED <<sessionVars, hookVars>>
    \/ part = "stream" /\ SessionNext
       /\ UNCHANGED <<permissionVars, hookVars>>
    \/ part = "hooks" /\ HookNext
       /\ UNCHANGED <<permissionVars, sessionVars>>

FileNext ==
    \/ part = "files" /\ WsNext
       /\ UNCHANGED <<editVars, policyVars>>
    \/ part = "edits" /\ EditNext
       /\ UNCHANGED <<wsVars, policyVars>>
    \/ part = "policy" /\ PolicyNext
       /\ UNCHANGED <<wsVars, editVars>>

Next ==
    \/ HostNext /\ UNCHANGED <<fileVars, part>>
    \/ FileNext /\ UNCHANGED <<hostVars, part>>

Spec == Init /\ [][Next]_<<hostVars, fileVars, part>>

\* An approval is given by the rules in force when the call asks, and reaches
\* the call that asked: PendingIsLive, RememberedFirst, CacheIsCurrent and
\* LookupAgrees (permission, session/handle.rs); a tool's result is announced
\* under the name its call was: ResultIsNamed (session/mapping.rs).
ApprovalsAreCurrent ==
    /\ part = "approvals" => PendingIsLive /\ RememberedFirst /\ CacheIsCurrent /\ LookupAgrees
    /\ part = "stream" => ResultIsNamed

\* A hook is there while somebody holds it and gone with its last holder; a call
\* runs only after every hook registered when it began has been asked, and its
\* result, a refusal included, is put to those that judge results:
\* RegistryFollowsHolders and HooksHaveTheirSay (control/hooks.rs,
\* tool/orchestrator.rs).
HooksAreAsked == part = "hooks" => RegistryFollowsHolders /\ HooksHaveTheirSay

\* A file operation reads what the ones before it in its call wrote, the files a
\* call names are all written or none, and the edits of one call are found in the
\* text as it was: ReadsSeeTheBatch and BatchIsAtomic (tool/files/workspace.rs),
\* EditsAreSimultaneous (workspace/edit.rs).
EditsAreWhole ==
    /\ part = "files" => ReadsSeeTheBatch /\ BatchIsAtomic
    /\ part = "edits" => EditsAreSimultaneous
=============================================================================
