-------------------------- MODULE MCAdministration --------------------------
(***************************************************************************)
(* What the administrator sets and what the page shows of it, each part by *)
(* itself (the others stay in their initial states):                       *)
(*  - the identity owner with two accounts, so that an orphan's number     *)
(*    could go to the other; three numbers, one of them another program's; *)
(*    one lease;                                                           *)
(*  - the policy documents of two tabs, over eight file-service halves and *)
(*    five iSCSI halves, valid and not; and of a server of the first alone; *)
(*  - the network policy: every pair of ports over addresses of 3 bits;    *)
(*  - the policy editor with two saves, so that one can be late while the  *)
(*    other is reviewed: with two definitions of each kind and one commit, *)
(*    and with one file-service definition and two commits; all first      *)
(*    documents are alike, so it begins with one;                          *)
(*  - the dashboard with one section of each way of reading, and two       *)
(*    refreshes of the sign-in state at a time.                            *)
(***************************************************************************)
EXTENDS IdentityOwner, TLC

CONSTANTS l1, None

VARIABLES part,
          dServer, dDoc, dSeen, dBackup, dPlan, dReq,
          wPolicy, wVerdict, wCounts,
          hist, page, op, draft, late, sent, done,
          session, panel, dash, sec, views, leave, login

MCLeases == {l1}
MCAccounts == {"a", "b"}

-----------------------------------------------------------------------------
(* The documents the tabs send: nested and disjoint paths, clients that      *)
(* overlap or not, a filesystem renamed, backings shared between targets.    *)

V1 == "v1" :> "u1"
V1b == "v1" :> "u2"
V12 == "v1" :> "u1" @@ "v2" :> "u2"
Share(id, p) == [id |-> id, vol |-> "v1", path |-> p, grants |-> {[user |-> "al", access |-> "rw"]}]
Export(id, p, nets) ==
    [id |-> id, vol |-> "v1", path |-> p, clients |-> {[net |-> n, access |-> "rw"] : n \in nets}]
File(v, s, e) == [rev |-> 0, vols |-> v, users |-> {"al"}, shares |-> s, exports |-> e]
S1 == {Share("s1", <<"a">>)}
S2 == S1 \cup {Share("s2", <<"a", "b">>)}
E0 == {Export("e2", <<>>, {<<0, 1>>})}
E1 == {Export("e1", <<"a", "b">>, {<<0, 1>>, <<2, 2>>})}
E2 == {Export("e1", <<"b">>, {<<2, 1>>})}
E3 == {Export("e1", <<"a", "b">>, {<<0, 1>>, <<1, 2>>})}
MCFileDocs ==
    { File(V1, S1, E0), File(V1, S1, E1), File(V1b, S1, E1), File(V1b, {}, {}),
      File(V12, S2, {}), File(V1, {}, E0 \cup E2), File(V1, {}, E3), File(V1, {}, E2) }

Lun(id, b, a) == [id |-> id, number |-> 0, backing |-> b, access |-> a]
Peer(s, l, a) == [name |-> "p", secret |-> s, grants |-> {[lun |-> l, access |-> a]}]
Target(id, l, p) == [id |-> id, luns |-> {l}, peers |-> {p}]
Iscsi(b, t) == [rev |-> 0, backings |-> b, targets |-> t]
B1 == [id |-> "b1", vol |-> "v1", path |-> <<"b">>]
B2 == [id |-> "b2", vol |-> "v1", path |-> <<"b", "a">>]
Writes == Target("t1", Lun("l1", "b1", "rw"), Peer("k1", "l1", "rw"))
Second(b) == Target("t2", Lun("l2", b, "rw"), Peer("k2", "l2", "ro"))
MCIscsiDocs ==
    { Iscsi({}, {}) }
    \cup { Iscsi({B1}, {Target("t1", Lun("l1", "b1", "ro"), Peer("k1", "l1", a))}) : a \in {"ro", "rw"} }
    \cup { Iscsi({B1, B2}, {Writes, Second("b2")}), Iscsi({B1}, {Writes, Second("b1")}) }

-----------------------------------------------------------------------------
(* Settings of the ports: 128 and more is IPv6, 200 a link-local address,    *)
(* 300 the loopback address and 999 no gateway (see NetworkPolicy).          *)

Off == [mode |-> "disabled", addrs |-> <<>>, def |-> FALSE, gw |-> 999, metric |-> 0]
Prefix(a, b) == [addr |-> a, bits |-> b]
Dynamic == { [Off EXCEPT !.mode = "dhcp", !.def = d, !.metric = n] : d \in BOOLEAN, n \in {0, 1} }
Static ==
    { [mode |-> "static", addrs |-> a, def |-> g # 999, gw |-> g, metric |-> IF g = 999 THEN 0 ELSE n] :
      a \in { <<Prefix(1, 1)>>, <<Prefix(2, 2)>>, <<Prefix(5, 1)>>, <<Prefix(4, 2), Prefix(1, 3)>> },
      g \in {999, 1, 2, 5, 6}, n \in {1, 2} }
MCFamilies4 == {Off} \cup Dynamic \cup Static
MCFamilies6 ==
    { Off, [Off EXCEPT !.mode = "auto"],
      [mode |-> "static", addrs |-> <<Prefix(129, 1)>>, def |-> TRUE, gw |-> 200, metric |-> 1] }
Route(port, gw) == <<[port |-> port, dest |-> Prefix(6, 2), gw |-> gw, metric |-> 1]>>
MCRouteLists == {<<>>, Route(1, 2), Route(2, 6)}
MCResolvers == { [mode |-> "manual", source |-> 0, servers |-> <<300>>],
                 [mode |-> "automatic", source |-> 1, servers |-> <<>>] }

-----------------------------------------------------------------------------
desiredVars == <<dServer, dDoc, dSeen, dBackup, dPlan, dReq>>
Desired == INSTANCE NASPolicy WITH
    Tabs <- {"x", "y"}, FileDocs <- MCFileDocs, IscsiDocs <- MCIscsiDocs,
    Width <- 2, MaxRev <- 2, server <- dServer, doc <- dDoc, seen <- dSeen, backup <- dBackup,
    plan <- dPlan, req <- dReq

\* A backup restored over a document that differs from it takes a third revision.
Restored == INSTANCE NASPolicy WITH
    Tabs <- {"x"}, FileDocs <- MCFileDocs, IscsiDocs <- MCIscsiDocs,
    Width <- 2, MaxRev <- 3, server <- dServer, doc <- dDoc, seen <- dSeen, backup <- dBackup,
    plan <- dPlan, req <- dReq

networkVars == <<wPolicy, wVerdict, wCounts>>
Network == INSTANCE NetworkPolicy WITH
    Width <- 3, Families4 <- MCFamilies4, Families6 <- MCFamilies6,
    RouteLists <- MCRouteLists, Resolvers <- MCResolvers, policy <- wPolicy,
    verdict <- wVerdict, counts <- wCounts

Editor == INSTANCE PolicyEditor WITH
    FileServices <- {"f", "g"}, ISCSI <- {"i", "j"}, MaxRevision <- 2, MaxSaves <- 2

LongEditor == INSTANCE PolicyEditor WITH
    FileServices <- {"f"}, ISCSI <- {"i", "j"}, MaxRevision <- 3, MaxSaves <- 2

editorVars == <<hist, page, op, draft, late, sent, done>>

Board == INSTANCE Dashboard WITH Sections <- {"snapshot", "iscsi", "policy"}, MaxViews <- 2

boardVars == <<session, panel, dash, sec, views, leave, login>>

ASSUME SectionsAssumption == Board!SectionsAssumption

Parts == {"identities", "documents", "restores", "network", "editor", "long editor", "dashboard"}

MCInit ==
    /\ part \in Parts /\ Init
    /\ IF part = "restores" THEN Restored!Init ELSE Desired!Init
    /\ part \notin {"documents", "restores"} =>
          /\ dServer = "nas" /\ dDoc.iscsi.backings = {}
          /\ dDoc.file.exports = {} /\ dDoc.file.shares = {}
    /\ IF part = "network" THEN Network!Init
       ELSE wPolicy = "none" /\ wVerdict = "offered" /\ wCounts = Network!NoCounts
    /\ Editor!Init /\ hist[1].fs = "f" /\ hist[1].is = "i"
    /\ Board!Init /\ (part # "dashboard" => session = FALSE)

MCNext ==
    \/ part = "identities" /\ Next /\ UNCHANGED <<part, desiredVars, networkVars, editorVars, boardVars>>
    \/ part = "documents" /\ Desired!Next /\ UNCHANGED <<part, vars, networkVars, editorVars, boardVars>>
    \/ part = "restores" /\ Restored!Next /\ UNCHANGED <<part, vars, networkVars, editorVars, boardVars>>
    \/ part = "network" /\ Network!Next /\ UNCHANGED <<part, vars, desiredVars, editorVars, boardVars>>
    \/ part = "editor" /\ Editor!Next /\ UNCHANGED <<part, vars, desiredVars, networkVars, boardVars>>
    \/ part = "long editor" /\ LongEditor!Next /\ UNCHANGED <<part, vars, desiredVars, networkVars, boardVars>>
    \/ part = "dashboard" /\ Board!Next /\ UNCHANGED <<part, vars, desiredVars, networkVars, editorVars>>

MCSpec == MCInit /\ [][MCNext]_<<part, vars, desiredVars, networkVars, editorVars, boardVars>>

\* A policy that is kept leaves nothing to interpretation: AccessUnambiguous and
\* ReviewTellsSharing of the documents, GatewaysUnambiguous and AppliedIsClean of
\* the network.
NothingAmbiguous ==
    CASE part \in {"documents", "restores"} -> Desired!AccessUnambiguous /\ Desired!ReviewTellsSharing
      [] part = "network" -> Network!GatewaysUnambiguous /\ Network!AppliedIsClean
      [] OTHER -> TRUE

\* The page shows what is so: SaysWhatHappened of the editor, OnlyThisSignIn and
\* NoGateStuck of the dashboard.
PageIsTrue ==
    CASE part = "editor"      -> Editor!SaysWhatHappened
      [] part = "long editor" -> LongEditor!SaysWhatHappened
      [] part = "dashboard"   -> Board!OnlyThisSignIn /\ Board!NoGateStuck
      [] OTHER -> TRUE

\* No edit is lost or made unseen: SourcesKept and NoLostEdit of the documents,
\* SavesWhatWasReviewed and NoBlindSave of the editor.
EditsAreKept ==
    /\ Desired!SourcesKept /\ Desired!NoLostEdit
    /\ Editor!SavesWhatWasReviewed /\ Editor!NoBlindSave
=============================================================================
