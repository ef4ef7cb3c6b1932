----------------------------- MODULE NASPolicy -----------------------------
(***************************************************************************)
(* The desired-policy document of the appliance and the two views through  *)
(* which it is edited (shareconfig, nfsconfig, smbconfig, fileservice,     *)
(* internal/iscsipolicy, internal/naspolicy, internal/iscsipreview and the *)
(* NAS state handlers of phantowd-api).                                    *)
(*                                                                         *)
(* One document holds the Samba shares, the NFS exports and the iSCSI      *)
(* targets under one revision.  Browser tabs read it, edit one half of it  *)
(* or restore a backup of it, and send the result; one handler at a time   *)
(* decodes, compares revisions, validates and commits.  A server may also  *)
(* keep the file half alone: its iSCSI half is the empty one for good.     *)
(*                                                                         *)
(* Lists of the document are sets of records (two records may carry the    *)
(* same id), a volume-relative path is the sequence of its components ("." *)
(* is the empty one) and a network is <<base, bits>> over addresses of     *)
(* Width bits.  Spelling, sizes and formats are refused by the decoders    *)
(* before any of this and are left out.                                    *)
(***************************************************************************)
EXTENDS Naturals, FiniteSets, Sequences, SequencesExt

CONSTANTS Tabs,        \* browser tabs
          FileDocs,    \* the SMB/NFS halves a tab may send, valid or not
          IscsiDocs,   \* the iSCSI halves a tab may send, valid or not
          Width,       \* bits of a client address
          MaxRev       \* bound: last revision reached

VARIABLES server,   \* "nas", or "files": a server of the file half alone
          doc,      \* the stored document
          seen,     \* tab -> the document it last read
          backup,   \* the downloaded backup: a document, its file half, or nothing
          plan,     \* tab -> the restore candidate its preview answered, or nothing
          req       \* the request that holds the handler's gate

vars == <<server, doc, seen, backup, plan, req>>

-----------------------------------------------------------------------------
(* Paths and networks *)

\* Only the first path is looked for above the second.
overlapsAbove(a, b) == IsPrefix(a, b)

overlaps(a, b) == IsPrefix(a, b) \/ IsPrefix(b, a)

\* netip.Prefix.Overlaps: the shorter of the two masks decides.
Overlaps(p, q) ==
  LET bits == IF p[2] < q[2] THEN p[2] ELSE q[2]
  IN  p[1] \div 2^(Width - bits) = q[1] \div 2^(Width - bits)

validNetwork(p) == p[2] > 0 /\ p[1] % 2^(Width - p[2]) = 0

-----------------------------------------------------------------------------
(* Validation *)

\* No two elements of S agree on what field(_) gives.
Distinct(S, field(_)) == \A a, b \in S : field(a) = field(b) => a = b

\* Two elements of S on one volume never cover a common path.
Apart(S) == \A a, b \in S : a # b /\ a.vol = b.vol => ~overlaps(a.path, b.path)

\* shareconfig.Config.Validate, with the overlap check of smbconfig.build
ValidateShares(f) ==
  /\ Distinct(DOMAIN f.vols, LAMBDA v : f.vols[v])
  /\ Distinct(f.shares, LAMBDA s : s.id)
  /\ \A s \in f.shares :
        /\ s.vol \in DOMAIN f.vols
        /\ s.grants # {}
        /\ \A g \in s.grants : g.user \in f.users
        /\ Distinct(s.grants, LAMBDA g : g.user)

\* smbconfig.build: what the Samba preview refuses besides an invalid document
SambaPreview(f) == ValidateShares(f) /\ Apart(f.shares)

\* nfsconfig.Policy.Validate comparing only the networks' first addresses.
ValidateNFSBases(f) ==
  /\ Distinct(f.exports, LAMBDA e : e.id)
  /\ \A e \in f.exports :
        /\ e.vol \in DOMAIN f.vols
        /\ e.clients # {}
        /\ \A c \in e.clients : validNetwork(c.net)
        /\ \A c, d \in e.clients : c # d => c.net[1] # d.net[1]
  /\ Apart(f.exports)

\* nfsconfig.Policy.Validate
ValidateNFS(f) ==
  /\ Distinct(f.exports, LAMBDA e : e.id)
  /\ \A e \in f.exports :
        /\ e.vol \in DOMAIN f.vols
        /\ e.clients # {}
        /\ \A c \in e.clients : validNetwork(c.net)
        /\ \A c, d \in e.clients : c # d => ~Overlaps(c.net, d.net)
  /\ Apart(f.exports)

\* iscsipolicy.authentication: no secret reference serves twice.
authentication(targets) ==
  LET peers == UNION { {<<t.id, p>> : p \in t.peers} : t \in targets }
  IN  \A p, q \in peers : p # q => p[2].secret # q[2].secret

\* iscsipolicy.Policy.Validate
ValidateISCSI(i, f) ==
  LET luns == UNION { t.luns : t \in i.targets }
  IN  /\ Distinct(i.backings, LAMBDA b : b.id)
      /\ \A b \in i.backings : b.vol \in DOMAIN f.vols /\ b.path # <<>>
      /\ Apart(i.backings)
      /\ Distinct(i.targets, LAMBDA t : t.id)
      /\ \A t \in i.targets :
            /\ t.luns # {} /\ t.peers # {}
            /\ Distinct(t.luns, LAMBDA l : l.number)
            /\ Distinct(t.peers, LAMBDA p : p.name)
            /\ \A p \in t.peers :
                  /\ p.grants # {}
                  /\ Distinct(p.grants, LAMBDA g : g.lun)
                  /\ \A g \in p.grants : \E l \in t.luns :
                        g.lun = l.id /\ (l.access = "ro" => g.access = "ro")
      /\ \A t, u \in i.targets : t # u =>
            \A l \in t.luns, m \in u.luns : l.id # m.id /\ l.backing # m.backing
      /\ Distinct(luns, LAMBDA l : l.id)
      /\ Distinct(luns, LAMBDA l : l.backing)
      /\ authentication(i.targets)
      /\ { l.backing : l \in luns } = { b.id : b \in i.backings }

ValidateFiles(f) == SambaPreview(f) /\ ValidateNFS(f)

\* naspolicy.Config.Validate: every component carries the one revision.
Validate(c) ==
  /\ ValidateFiles(c.file)
  /\ c.rev > 0 /\ c.file.rev = c.rev /\ c.iscsi.rev = c.rev
  /\ ValidateISCSI(c.iscsi, c.file)

-----------------------------------------------------------------------------
(* Transitions between documents *)

\* What each export of a document names: volume, filesystem and path.
bindings(f) == { <<e.id, e.vol, f.vols[e.vol], e.path>> : e \in f.exports }

\* The comparison forgets the filesystem behind the volume's name.
RetainedByName(f, g) ==
  /\ ValidateFiles(f) /\ ValidateFiles(g)
  /\ \A e \in f.exports, h \in g.exports : e.id = h.id => e.vol = h.vol /\ e.path = h.path

ValidateRetainedNFSBindings(f, g) ==
  /\ ValidateFiles(f) /\ ValidateFiles(g)
  /\ \A x \in bindings(f), y \in bindings(g) : x[1] = y[1] => x = y

setRevision(c, r) == [rev |-> r, file |-> [c.file EXCEPT !.rev = r], iscsi |-> [c.iscsi EXCEPT !.rev = r]]

SameDefinitions(a, b) == Validate(a) /\ Validate(b) /\ setRevision(a, b.rev) = b

\* Merged candidate of a file-service edit.
Merge(base, next) == [rev |-> next.rev, file |-> next, iscsi |-> [base.iscsi EXCEPT !.rev = next.rev]]

\* A retained LUN may change filesystem under an unchanged volume name.
ReplaceAnyVolume(base, next) ==
  /\ ValidateRetainedNFSBindings(base.file, next)
  /\ next.rev = base.rev + 1
  /\ Validate(Merge(base, next))

\* naspolicy.ReplaceFileServices refuses an edit that moves a retained LUN.
ReplaceFileServices(base, next) ==
  /\ ValidateRetainedNFSBindings(base.file, next)
  /\ next.rev = base.rev + 1
  /\ Validate(Merge(base, next))
  /\ \A b \in base.iscsi.backings : next.vols[b.vol] = base.file.vols[b.vol]

-----------------------------------------------------------------------------
(* Review: what a preview says about paths shared by two protocols *)

\* fileservice.configuredCrossProtocolPathOverlap
CrossProtocolOverlap(f) ==
  \E s \in f.shares, e \in f.exports : s.vol = e.vol /\ overlaps(s.path, e.path)

\* iscsipreview.Build: the shares and exports counted beside one backing
PathOverlaps(c, b) == { s \in c.file.shares \cup c.file.exports : s.vol = b.vol /\ overlaps(s.path, b.path) }

-----------------------------------------------------------------------------
(* Handlers *)

Nothing == [kind |-> "nothing"]
Idle    == [kind |-> "idle"]

Init ==
  /\ doc \in { setRevision([rev |-> 1, file |-> f, iscsi |-> i], 1) : f \in FileDocs, i \in IscsiDocs }
  /\ Validate(doc)
  /\ server \in {"nas", "files"} /\ (server = "files" => doc.iscsi.backings = {})
  /\ seen = [t \in Tabs |-> doc]
  /\ backup = Nothing
  /\ plan = [t \in Tabs |-> Nothing]
  /\ req = Idle

\* GET of the document through either view.
Get(t) ==
  /\ req = Idle
  /\ seen' = [seen EXCEPT ![t] = doc]
  /\ UNCHANGED <<server, doc, backup, plan, req>>

\* GET of a backup of the whole document or of its file half.
GetBackup(kind) ==
  /\ req = Idle /\ backup = Nothing /\ (server = "files" => kind = "files")
  /\ backup' = [kind |-> kind, of |-> doc]
  /\ UNCHANGED <<server, doc, seen, plan, req>>

\* A tab sends its edit of the file half of the document it has read.  A body
\* the decoder refuses is answered at once.
PutFiles(t, f) ==
  LET next == [f EXCEPT !.rev = seen[t].rev + 1]
  IN  /\ server = "nas" /\ req = Idle
      /\ ValidateFiles(next)
      /\ req' = [kind |-> "files", tab |-> t, body |-> next, expected |-> seen[t].rev, phase |-> "snapshot"]
      /\ UNCHANGED <<server, doc, seen, backup, plan>>

\* The same at a server of the file half, which asks the store at once.
PutService(t, f) ==
  LET next == [f EXCEPT !.rev = seen[t].rev + 1]
  IN  /\ server = "files" /\ req = Idle
      /\ ValidateFiles(next)
      /\ req' = [kind |-> "service", tab |-> t, body |-> Merge(seen[t], next), expected |-> seen[t].rev,
                 phase |-> "commit"]
      /\ UNCHANGED <<server, doc, seen, backup, plan>>

\* A tab sends the document it has read with its edit of the iSCSI half.
PutNAS(t, i) ==
  LET next == setRevision([seen[t] EXCEPT !.iscsi = i], seen[t].rev + 1)
  IN  /\ server = "nas" /\ req = Idle
      /\ Validate(next)
      /\ req' = [kind |-> "nas", tab |-> t, body |-> next, expected |-> seen[t].rev, phase |-> "commit"]
      /\ UNCHANGED <<server, doc, seen, backup, plan>>

\* RestoreCandidate: the backup's definitions at the revision after expected
RestoreCandidate(c, expected) == setRevision(c, expected + 1)

\* A tab sends the backup for a restore preview over the document it has read.
PostRestore(t) ==
  /\ req = Idle /\ backup # Nothing
  /\ req' = [kind |-> "restore-" \o backup.kind, tab |-> t, body |-> RestoreCandidate(backup.of, seen[t].rev),
             expected |-> seen[t].rev, phase |-> "snapshot"]
  /\ UNCHANGED <<server, doc, seen, backup, plan>>

\* A tab saves the candidate its restore preview answered.
PutRestored(t) ==
  /\ req = Idle /\ plan[t] # Nothing
  /\ req' = [kind |-> plan[t].kind, tab |-> t, body |-> plan[t].body, expected |-> plan[t].body.rev - 1,
             phase |-> IF plan[t].kind = "files" THEN "snapshot" ELSE "commit"]
  /\ plan' = [plan EXCEPT ![t] = Nothing]
  /\ UNCHANGED <<server, doc, seen, backup>>

\* Snapshot, then the comparison of revisions and the rules between documents.
Snapshot ==
  /\ req # Idle /\ req.phase = "snapshot"
  /\ doc.rev = req.expected
  /\ \/ /\ req.kind = "files" /\ ReplaceFileServices(doc, req.body)
        /\ req' = [req EXCEPT !.phase = "commit", !.body = Merge(doc, req.body)]
        /\ UNCHANGED plan
     \/ /\ server = "nas" /\ req.kind = "restore-files" /\ ReplaceFileServices(doc, req.body.file)
        /\ plan' = [plan EXCEPT ![req.tab] = [kind |-> "files", body |-> req.body.file]]
        /\ req' = Idle
     \/ /\ req.kind = "restore-nas" /\ ValidateRetainedNFSBindings(doc.file, req.body.file)
        /\ plan' = [plan EXCEPT ![req.tab] = [kind |-> "nas", body |-> req.body]]
        /\ req' = Idle
  /\ UNCHANGED <<server, doc, seen, backup>>

\* The document is replaced whatever its revision.
CommitAny ==
  /\ req # Idle /\ req.phase = "commit"
  /\ req.body.rev = req.expected + 1
  /\ ValidateRetainedNFSBindings(doc.file, req.body.file)
  /\ doc' = req.body
  /\ req' = Idle
  /\ UNCHANGED <<server, seen, backup, plan>>

\* The store's Commit: compare the revision, validate the transition, replace.
Commit ==
  /\ req # Idle /\ req.phase = "commit"
  /\ doc.rev = req.expected /\ req.body.rev = req.expected + 1
  /\ req.body.rev <= MaxRev
  /\ ValidateRetainedNFSBindings(doc.file, req.body.file)
  /\ doc' = req.body
  /\ req' = Idle
  /\ UNCHANGED <<server, seen, backup, plan>>

\* Any step may be answered by an error instead: a refused edit, a conflict, a
\* session that ended, or an unavailable authority.
Refuse ==
  /\ req # Idle
  /\ req' = Idle
  /\ UNCHANGED <<server, doc, seen, backup, plan>>

Next ==
  \/ \E t \in Tabs : Get(t) \/ PostRestore(t) \/ PutRestored(t)
  \/ \E t \in Tabs, f \in FileDocs : PutFiles(t, f) \/ PutService(t, f)
  \/ \E t \in Tabs, i \in IscsiDocs : PutNAS(t, i)
  \/ \E kind \in {"files", "nas"} : GetBackup(kind)
  \/ Snapshot \/ Commit \/ Refuse

Spec == Init /\ [][Next]_vars

-----------------------------------------------------------------------------
(* Properties *)

Addresses == 0..2^Width - 1
InNet(a, net) == a \div 2^(Width - net[2]) = net[1] \div 2^(Width - net[2])
\* Every path a document names, and one level below each.
Files(c) ==
  LET named == { s.path : s \in c.file.shares \cup c.file.exports \cup c.iscsi.backings }
  IN  named \cup { Append(p, x) : p \in named, x \in {"a", "b"} }
Under(file, vol, s) == s.vol = vol /\ IsPrefix(s.path, file)

\* A stored document leaves no access to interpretation, whatever edits,
\* restores and merges led to it: a file is in at most one Samba share and in
\* at most one backing object, an address meets at most one NFS rule for it, an
\* initiator never gets a LUN with more than the LUN's own access, and no
\* backing object is given to two LUNs.
AccessUnambiguous ==
  /\ Validate(doc)
  /\ \A vol \in DOMAIN doc.file.vols, file \in Files(doc) :
        /\ Cardinality({ s \in doc.file.shares : Under(file, vol, s) }) <= 1
        /\ Cardinality({ b \in doc.iscsi.backings : Under(file, vol, b) }) <= 1
        /\ \A a \in Addresses :
              Cardinality({ r \in UNION { {<<e.id, c>> : c \in e.clients} :
                                          e \in { x \in doc.file.exports : Under(file, vol, x) } } :
                            InNet(a, r[2].net) }) <= 1
  /\ \A t \in doc.iscsi.targets : \A l \in t.luns, p \in t.peers : \A g \in p.grants :
        g.lun = l.id /\ g.access = "rw" => l.access = "rw"
  /\ \A t, u \in doc.iscsi.targets : \A l \in t.luns, m \in u.luns :
        l.backing = m.backing => t = u /\ l = m

\* An export id that survives a commit keeps the filesystem and path clients
\* know it by, and a LUN keeps its filesystem through every edit and restore
\* made in the file-service view, which also leaves the iSCSI half as it was.
SourcesKept ==
  [][ /\ \A e \in doc.file.exports, h \in doc'.file.exports :
            e.id = h.id => /\ e.vol = h.vol /\ e.path = h.path
                           /\ doc.file.vols[e.vol] = doc'.file.vols[h.vol]
      /\ doc' # doc /\ req.kind = "files" =>
            /\ [doc'.iscsi EXCEPT !.rev = 0] = [doc.iscsi EXCEPT !.rev = 0]
            /\ \A b \in doc.iscsi.backings : doc'.file.vols[b.vol] = doc.file.vols[b.vol] ]_vars

\* No edit is lost: what a commit replaces is the document of the revision its
\* tab had read, one revision later, even when another tab or a restore
\* committed in between.
NoLostEdit ==
  [][ doc' # doc => doc'.rev = doc.rev + 1 /\ req.expected = doc.rev ]_vars

\* The review hints miss no sharing: two protocols reach a common path exactly
\* when the preview of the stored document says so.
ReviewTellsSharing ==
  LET common(s, e) == \E file \in Files(doc) : Under(file, s.vol, s) /\ Under(file, s.vol, e)
  IN  /\ CrossProtocolOverlap(doc.file) <=> \E s \in doc.file.shares, e \in doc.file.exports : common(s, e)
      /\ \A b \in doc.iscsi.backings :
            PathOverlaps(doc, b) = { s \in doc.file.shares \cup doc.file.exports : common(s, b) }
=============================================================================
