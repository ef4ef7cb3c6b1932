------------------------ MODULE IdentityFilesProofs ------------------------
(***************************************************************************)
(* The invariant of IdentityOwner, which says what a power loss may leave  *)
(* of the registry, the native journals and the Samba journals, and its    *)
(* preservation by the calls that make a directory first: Reserve (package *)
(* identityprovision) and the Samba Begin.                                 *)
(***************************************************************************)
EXTENDS IdentityOwner, WellFoundedInduction, TLAPS

Begun(f) == {a \in Accounts : f.nat[a].phase # "none"}
Least(S) == CHOOSE n \in S : \A k \in S : n <= k

\* One directory: every record has its journal, and no number has two owners.
Named(f) ==
    /\ \A e \in Records(f.reg) : e.id \in Begun(f) /\ f.nat[e.id].uid = e.uid
    /\ \A a, b \in Begun(f) : a # b => f.nat[a].uid # f.nat[b].uid
    /\ \A a \in Begun(f) : f.nat[a].uid \notin Others

\* Any two directories of those a power loss may leave: a journal's directory
\* is durable before the journal, and an account's record before its child
\* journal's directory and before the identity u made of it.
Durable(D, u) ==
    /\ \A d \in D : d \in Directories /\ Named(d) /\ u \subseteq Registered(d)
    /\ \A d, g \in D : Begun(d) \subseteq g.dirs /\ d.smbDirs \subseteq Registered(g)

\* The documents of all of them are those of f.
Certain(f, D) == \A d \in D : d.reg = f.reg /\ d.nat = f.nat /\ d.smb = f.smb

\* The Reserve of a in progress: its account is new, and every other journal
\* is an account's; its journal names the number the registry will.
Reserving(a, step, f, D) ==
    /\ a \notin Registered(f) /\ Free(f.reg, Others) # {}
    /\ step \in {"sync", "journal", "registry"}
    /\ Begun(f) \subseteq Registered(f) \cup (IF step = "registry" THEN {a} ELSE {})
    /\ f.dirs = Registered(f) \cup {a}
    /\ step # "sync" => \A d \in D : d.dirs = f.dirs
    /\ \A b \in Registered(f) : Confirmed(f, b)
    /\ step = "registry" =>
           f.nat[a] = [phase |-> "Reserved", reg |-> f.reg.rev + 1, uid |-> Least(Free(f.reg, Others))]

\* The call c in progress finds what it was admitted with.
CallFits(c, f, D) ==
    /\ c.op = "Reserve" => Reserving(c.account, c.step, f, D)
    /\ c.op = "Step" => /\ c.account \in Registered(f)
                        /\ f.nat[c.account].phase = "Intent" /\ f.nat[c.account].reg = f.reg.rev
    /\ c.op = "Begin" => /\ c.account \in Registered(f) /\ Confirmed(f, c.account)
                         /\ c.step \in {"sync", "journal", "discard"}
    /\ c.op \in Intents => c.account \in Registered(f) \cap f.smbDirs /\ Confirmed(f, c.account)

\* Nothing was cut off or lost: the directories' entries are certain but for those
\* that the call c is making, and a scan finds everything else in order.
Whole(c, f, D) ==
    LET a == c.account
    IN  /\ \A d \in D : Ordered(d)
        /\ c.op # "Reserve" => \A d \in D : d.dirs = f.dirs /\ Registered(d) = d.dirs
        /\ c.op # "Begin" => \A d \in D : d.smbDirs = f.smbDirs /\ Children(d)
        /\ c.op = "Begin" =>
               /\ \A d \in D : /\ d.smbDirs \ {a} = f.smbDirs \ {a}
                               /\ c.step = "journal" => d.smbDirs = f.smbDirs
                               /\ \A b \in d.smbDirs \ {a} : Confirmed(d, b) /\ d.smb[b].phase # "none"
               /\ a \in f.smbDirs <=> c.step # "discard"

\* What the owner and its leases hold.
AuthorityInv ==
    /\ own.st \in {"open", "failed"} => own.lock /\ own.stores /\ own.backend
    /\ own.backend \/ own.stores => own.lock
    /\ (\E l \in Leases : lease[l].st = "held") => own.st \in {"open", "failed"}
    /\ call.op # "-" => own.st = "open"
    /\ \A l \in Leases : lease[l].review => lease[l].st = "held"
    /\ call.lease # "-" => call.op = "DisableIntent"

FilesInv ==
    /\ files \in disk /\ Durable(disk, unix)
    /\ own.st = "open" => Certain(files, disk)
    /\ CallFits(call, files, disk)
    /\ ~torn => Whole(call, files, disk)

IInv == TypeOK /\ AuthorityInv /\ FilesInv

\* No directory is being made: a scan of any of D succeeds.
Settled(f, D) ==
    \A d \in D : /\ Ordered(d) /\ d.dirs = f.dirs /\ Registered(d) = d.dirs
                 /\ d.smbDirs = f.smbDirs /\ Children(d)

\* A change of documents that neither begins a journal nor adds an account, and
\* one that a scan finds in order as well.
Tame(e, d) ==
    /\ d \in Directories /\ Named(d) /\ Begun(d) = Begun(e) /\ Registered(d) = Registered(e)
    /\ d.dirs = e.dirs /\ d.smbDirs = e.smbDirs
Mild(e, d) ==
    /\ Tame(e, d)
    /\ Ordered(e) /\ Children(e) => Ordered(d) /\ Children(d)

\* A value for one of the documents.
Fitting(doc, v) ==
    \/ doc = "reg" /\ v \in Registries
    \/ doc = "nat" /\ v \in [Accounts -> Journals]
    \/ doc = "smb" /\ v \in [Accounts -> SMBs]

SMBPhases == Intents \cup {"Reserved", "Disabled", "Enabled", "ReviewRequired"}

Owners == [st : {"closed", "open", "failed", "quarantined"}, lock : BOOLEAN, stores : BOOLEAN, backend : BOOLEAN]
Tokens == [st : {"free", "held"}, review : BOOLEAN, fp : Prints \cup {"-"}]
Ops == {"-", "Reserve", "Step", "Begin"} \cup Intents
OwnerTypes ==
    /\ own \in Owners /\ call.op \in Ops /\ (call.op # "-" => call.account \in Accounts)
    /\ lease \in [Leases -> Tokens]
WorldTypes ==
    /\ passdb \in [Accounts -> {"absent", "disabled", "enabled"}] /\ unix \subseteq Accounts
    /\ torn \in BOOLEAN

-----------------------------------------------------------------------------
(* Registries and directories.                                             *)

\* A nonempty set of numbers has a smallest element.
LEMMA LeastIsMember ==
    ASSUME NEW S \in SUBSET Nat, S # {}
    PROVE  Least(S) \in S
<1> DEFINE less == OpToRel(<, Nat)
<1>1. \A x, y \in Nat : y < x => <<y, x>> \in less
  BY DEF OpToRel
<1>2. IsWellFoundedOn(less, Nat)
  BY NatLessThanWellFounded, Zenon
<1> HIDE DEF less
<1>3. PICK x \in S : \A y \in S : ~(<<y, x>> \in less)
  BY <1>2, WFMin, Zenon
<1>4. ASSUME NEW y \in S PROVE x <= y
  <2>1. x \in Nat /\ y \in Nat
    OBVIOUS
  <2>2. ~(y < x)
    BY <1>1, <1>3, <2>1, Zenon
  <2> QED BY <2>1, <2>2
<1> QED BY <1>4, Zenon DEF Least

\* Create gives the first free number to a new record at the end.
LEMMA CreateGives ==
    ASSUME NEW r \in Registries, NEW a \in Accounts, NEW reserved, Free(r, reserved) # {},
           NEW s, s = Create(r, a, a, reserved), NEW k, k = Len(r.accounts)
    PROVE  /\ s \in Registries /\ s.rev = r.rev + 1 /\ Len(s.accounts) = k + 1
           /\ Least(Free(r, reserved)) \in Free(r, reserved) /\ Least(Free(r, reserved)) \in Nat
           /\ \A i \in 1..k : s.accounts[i] = r.accounts[i]
           /\ s.accounts[k + 1].id = a /\ s.accounts[k + 1].uid = Least(Free(r, reserved))
           /\ s.accounts[k + 1].state = "disabled"
<1> DEFINE n == Least(Free(r, reserved))
           rec == [id |-> a, name |-> a, uid |-> n, state |-> "disabled"]
<1>1. Free(r, reserved) \in SUBSET Nat
  BY RangeAssumption DEF Free
<1>2. n \in Free(r, reserved) /\ n \in Nat
  BY <1>1, LeastIsMember
<1>3. Create(r, a, a, reserved) = [rev |-> r.rev + 1, accounts |-> Append(r.accounts, rec)]
  BY DEF Create, Least
<1> HIDE DEF n
<1>4. rec \in [id : Accounts, name : Accounts, uid : Nat, state : States]
  BY <1>2 DEF States
<1>5. r.rev \in Nat /\ r.accounts \in Seq([id : Accounts, name : Accounts, uid : Nat, state : States])
  BY DEF Registries
<1> HIDE DEF rec
<1>6. /\ Append(r.accounts, rec) \in Seq([id : Accounts, name : Accounts, uid : Nat, state : States])
      /\ Len(Append(r.accounts, rec)) = Len(r.accounts) + 1
      /\ \A i \in 1..Len(r.accounts) : Append(r.accounts, rec)[i] = r.accounts[i]
      /\ Append(r.accounts, rec)[Len(r.accounts) + 1] = rec
  BY <1>4, <1>5
<1>7. Create(r, a, a, reserved) \in Registries
  BY <1>3, <1>5, <1>6 DEF Registries
<1>8. rec.id = a /\ rec.uid = n /\ rec.state = "disabled"
  BY DEF rec
<1> QED BY <1>2, <1>3, <1>6, <1>7, <1>8 DEF n

\* Another revision of the same accounts.
Restated(r, s, state) ==
    /\ s \in Registries /\ s.rev = r.rev + 1 /\ Len(s.accounts) = Len(r.accounts)
    /\ \A i \in 1..Len(r.accounts) :
           /\ s.accounts[i].id = r.accounts[i].id /\ s.accounts[i].uid = r.accounts[i].uid
           /\ s.accounts[i].state \in {r.accounts[i].state, state}

\* SetState gives no number and takes none.
LEMMA SetStateKeeps ==
    ASSUME NEW r \in Registries, NEW a \in Accounts, NEW state \in {"enabled", "disabled"},
           NEW s, s = SetState(r, a, state)
    PROVE  Restated(r, s, state)
<1> DEFINE T == [id : Accounts, name : Accounts, uid : Nat, state : States]
           k == Len(r.accounts)
           q == [i \in 1..k |-> IF r.accounts[i].id = a THEN [r.accounts[i] EXCEPT !.state = state]
                                                          ELSE r.accounts[i]]
<1>1. r.rev \in Nat /\ r.accounts \in Seq(T) /\ k \in Nat /\ DOMAIN r.accounts = 1..k
  BY DEF Registries
<1>2. ASSUME NEW i \in 1..k PROVE r.accounts[i] \in T
  <2> HIDE DEF T
  <2> QED BY <1>1
<1>3. \A i \in 1..k : /\ q[i] \in T /\ q[i].id = r.accounts[i].id /\ q[i].uid = r.accounts[i].uid
                      /\ q[i].state \in {r.accounts[i].state, state}
  BY <1>2, SMTT(30) DEF States
<1>4. SetState(r, a, state) = [rev |-> r.rev + 1, accounts |-> q]
  BY <1>1 DEF SetState
<1>5. DOMAIN q = 1..k /\ q = [i \in 1..k |-> q[i]]
  OBVIOUS
<1> HIDE DEF q, T
<1>6. q \in Seq(T) /\ Len(q) = k
  <2>1. q \in [1..k -> T]
    BY <1>3, <1>5
  <2>2. q \in Seq(T)
    <3> HIDE DEF k
    <3> QED BY <1>1, <2>1
  <2> QED BY <1>1, <1>5, <2>2
<1> QED BY <1>1, <1>3, <1>4, <1>6 DEF Registries, T, Restated

\* The accounts of a registry, by position.
LEMMA IdsAre ==
    ASSUME NEW r \in Registries
    PROVE  /\ r.rev \in Nat /\ Len(r.accounts) \in Nat /\ DOMAIN r.accounts = 1..Len(r.accounts)
           /\ \A i \in 1..Len(r.accounts) : /\ r.accounts[i] \in Records(r)
                                            /\ r.accounts[i].id \in Ids(r) /\ r.accounts[i].id \in Accounts
           /\ \A e \in Records(r) : \E i \in 1..Len(r.accounts) : e = r.accounts[i]
           /\ Ids(r) \subseteq Accounts
<1> DEFINE T == [id : Accounts, name : Accounts, uid : Nat, state : States]
<1>1. r.rev \in Nat /\ r.accounts \in Seq(T)
  BY DEF Registries
<1> HIDE DEF T
<1>2. Len(r.accounts) \in Nat /\ DOMAIN r.accounts = 1..Len(r.accounts)
  BY <1>1
<1>3. ASSUME NEW i \in 1..Len(r.accounts) PROVE r.accounts[i].id \in Accounts
  <2>1. r.accounts[i] \in T
    BY <1>1
  <2> QED BY <2>1 DEF T
<1> QED BY <1>1, <1>2, <1>3 DEF Records, Ids

\* The accounts after a Create and after a SetState.
LEMMA CreatedIds ==
    ASSUME NEW r \in Registries, NEW a \in Accounts, NEW reserved, Free(r, reserved) # {}
    PROVE  /\ Ids(Create(r, a, a, reserved)) = Ids(r) \cup {a}
           /\ \A e \in Records(Create(r, a, a, reserved)) :
                  e \in Records(r) \/ (e.id = a /\ e.uid = Least(Free(r, reserved)))
<1>1. PICK s \in Registries : s = Create(r, a, a, reserved)
  BY CreateGives, Zenon
<1>2. PICK k \in Nat : k = Len(r.accounts)
  BY IdsAre
<1>3. /\ Len(s.accounts) = k + 1 /\ \A i \in 1..k : s.accounts[i] = r.accounts[i]
      /\ s.accounts[k + 1].id = a /\ s.accounts[k + 1].uid = Least(Free(r, reserved))
  BY <1>1, <1>2, CreateGives
<1>4. DOMAIN s.accounts = 1..(k + 1) /\ DOMAIN r.accounts = 1..k
  BY <1>2, <1>3, IdsAre
<1>5. Records(s) = Records(r) \cup {s.accounts[k + 1]}
  BY <1>2, <1>3, <1>4, SMTT(30) DEF Records
<1> QED BY <1>1, <1>3, <1>5 DEF Ids

\* A new desired state changes no identity.
LEMMA SetStateIds ==
    ASSUME NEW r \in Registries, NEW a \in Accounts, NEW state \in {"enabled", "disabled"}
    PROVE  /\ Ids(SetState(r, a, state)) = Ids(r)
           /\ \A e \in Records(SetState(r, a, state)) : \E g \in Records(r) : g.id = e.id /\ g.uid = e.uid
<1>1. PICK s : s = SetState(r, a, state) /\ Restated(r, s, state)
  BY SetStateKeeps
<1>2. PICK k \in Nat : k = Len(r.accounts)
  BY IdsAre
<1>3. Len(s.accounts) = k /\ \A i \in 1..k : s.accounts[i].id = r.accounts[i].id /\ s.accounts[i].uid = r.accounts[i].uid
  BY <1>1, <1>2 DEF Restated
<1>4. DOMAIN s.accounts = 1..k /\ DOMAIN r.accounts = 1..k
  BY <1>1, <1>2, <1>3, IdsAre DEF Restated
<1> QED BY <1>1, <1>3, <1>4 DEF Records, Ids

\* Numbers of registered identities are not free in any case, so it does not
\* matter which of them are observed.
LEMMA FreeSame ==
    ASSUME NEW f \in Directories, Named(f), NEW u, u \subseteq Registered(f)
    PROVE  Free(f.reg, Others \cup {f.nat[b].uid : b \in u}) = Free(f.reg, Others)
<1>1. ASSUME NEW b \in u PROVE \E e \in Records(f.reg) : e.uid = f.nat[b].uid
  BY DEF Named, Registered, Ids
<1> QED BY <1>1 DEF Free

-----------------------------------------------------------------------------
(* A change that leaves a directory in order.                              *)

\* A native journal moves on and the Samba journals change.
LEMMA OrderedStays ==
    ASSUME NEW f \in Directories, NEW g \in Directories, Ordered(f), g.reg = f.reg,
           \A b \in Registered(f) : /\ g.nat[b].reg = f.nat[b].reg /\ g.nat[b].uid = f.nat[b].uid
                                    /\ g.nat[b].phase # "none" /\ (Confirmed(f, b) => Confirmed(g, b))
    PROVE  Ordered(g)
<1>1. PICK n \in Nat : n = Len(f.reg.accounts) /\ f.reg \in Registries
  BY IdsAre DEF Directories
<1>2. \A i \in 1..n : f.reg.accounts[i].id \in Registered(f)
  BY <1>1, IdsAre DEF Registered
<1>3. \A i \in 1..n : /\ Journal(g, i).reg = Journal(f, i).reg /\ Journal(g, i).uid = Journal(f, i).uid
                      /\ Journal(g, i).phase # "none"
                      /\ Journal(f, i).phase = "UnixConfirmed" => Journal(g, i).phase = "UnixConfirmed"
  BY <1>2 DEF Journal, Confirmed
<1>4. Unfinished(g) \subseteq Unfinished(f) /\ Unfinished(f) \subseteq 1..n
  BY <1>1, <1>3 DEF Unfinished
<1>5. \A i, k \in Unfinished(g) : i = k
  BY <1>4 DEF Ordered
<1>6. \A i \in 1..n : i > 1 => i - 1 \in 1..n
  OBVIOUS
<1>7. ASSUME NEW i \in 1..n PROVE InPlace(g, i)
  <2>1. InPlace(f, i)
    BY <1>1 DEF Ordered
  <2> QED BY <1>3, <1>6, <2>1 DEF InPlace
<1>8. \A i \in Unfinished(g) : Journal(g, i).reg = g.reg.rev
  BY <1>3, <1>4 DEF Ordered
<1> QED BY <1>1, <1>5, <1>7, <1>8 DEF Ordered

\* The journals in place, their revisions numbers.
LEMMA PlacesTyped ==
    ASSUME NEW f \in Directories, NEW i \in 1..Len(f.reg.accounts)
    PROVE  Journal(f, i).reg \in Nat /\ f.reg.rev \in Nat
<1>1. f.reg \in Registries /\ f.nat \in [Accounts -> Journals]
  BY DEF Directories
<1>2. f.reg.accounts[i].id \in Accounts /\ f.reg.rev \in Nat
  BY <1>1, IdsAre, Zenon
<1> QED BY <1>1, <1>2 DEF Journal, Journals

\* The newest account's journal goes back to unfinished: it is the only one, as
\* the others' revisions are older.
LEMMA OrderedReview ==
    ASSUME NEW f \in Directories, NEW g \in Directories, Ordered(f), g.reg = f.reg, NEW a,
           f.nat[a].reg = f.reg.rev, g.nat[a].phase # "none",
           \A b \in Registered(f) : /\ g.nat[b].reg = f.nat[b].reg /\ g.nat[b].uid = f.nat[b].uid
                                    /\ b # a => g.nat[b].phase = f.nat[b].phase
    PROVE  Ordered(g)
<1>1. PICK n \in Nat : n = Len(f.reg.accounts) /\ f.reg \in Registries
  BY IdsAre DEF Directories
<1>2. \A i \in 1..n : f.reg.accounts[i].id \in Registered(f)
  BY <1>1, IdsAre DEF Registered
<1>3. \A i \in 1..n : /\ Journal(g, i).reg = Journal(f, i).reg /\ Journal(g, i).uid = Journal(f, i).uid
                      /\ f.reg.accounts[i].id # a => Journal(g, i).phase = Journal(f, i).phase
                      /\ f.reg.accounts[i].id = a => Journal(g, i).phase # "none" /\ Journal(g, i).reg = g.reg.rev
  BY <1>2 DEF Journal
<1>4. \A i \in 1..n : InPlace(f, i) /\ Journal(f, i).reg \in Nat /\ f.reg.rev \in Nat
  BY <1>1, PlacesTyped DEF Ordered
<1>5. \A i \in 1..n : i > 1 => i - 1 \in 1..n
  OBVIOUS
<1>6. ASSUME NEW i \in 1..n PROVE InPlace(g, i)
  BY <1>3, <1>4, <1>5 DEF InPlace
<1>7. ASSUME NEW i \in Unfinished(g) PROVE i \in 1..n /\ Journal(g, i).reg = g.reg.rev
  <2>1. i \in 1..n /\ Journal(g, i).phase # "UnixConfirmed"
    BY <1>1 DEF Unfinished
  <2>2. CASE f.reg.accounts[i].id # a
    BY <1>1, <1>3, <2>1, <2>2 DEF Ordered, Unfinished
  <2> QED BY <1>3, <2>1, <2>2
<1>8. ASSUME NEW i \in 1..n, Journal(g, i).reg = g.reg.rev PROVE i = n
  <2>1. CASE i < n
    <3>1. i + 1 \in 1..n /\ i + 1 > 1 /\ (i + 1) - 1 = i
      BY <2>1
    <3>2. Journal(f, i + 1).reg > Journal(f, i).reg /\ Journal(f, i + 1).reg <= f.reg.rev
      BY <1>4, <3>1 DEF InPlace
    <3> QED BY <1>3, <1>4, <1>8, <3>1, <3>2
  <2> QED BY <2>1
<1>9. \A i, k \in Unfinished(g) : i = k
  BY <1>7, <1>8
<1> QED BY <1>1, <1>6, <1>7, <1>9 DEF Ordered

\* The registry goes to its next revision around an account in place.
LEMMA InPlaceStays ==
    ASSUME NEW f \in Directories, NEW g, NEW i \in 1..Len(f.reg.accounts), InPlace(f, i),
           g.nat = f.nat, g.reg.rev = f.reg.rev + 1,
           \A k \in 1..Len(f.reg.accounts) :
               /\ g.reg.accounts[k].id = f.reg.accounts[k].id /\ g.reg.accounts[k].uid = f.reg.accounts[k].uid
               /\ g.reg.accounts[k].state \in {f.reg.accounts[k].state, "enabled", "disabled"}
    PROVE  InPlace(g, i)
<1>1. PICK n \in Nat : n = Len(f.reg.accounts)
  BY IdsAre, Zenon DEF Directories
<1>2. \A k \in 1..n : Journal(g, k) = Journal(f, k)
  BY <1>1, Zenon DEF Journal
<1>3. i > 1 => i - 1 \in 1..n
  BY <1>1
<1>4. PICK m \in Nat : m = Journal(f, i).reg
  BY PlacesTyped, Zenon
<1>5. m <= g.reg.rev
  BY <1>4, PlacesTyped DEF InPlace
<1>6. Journal(g, i) = Journal(f, i) /\ (i > 1 => Journal(g, i - 1) = Journal(f, i - 1))
  BY <1>1, <1>2, <1>3
<1> QED BY <1>4, <1>5, <1>6, Zenon DEF InPlace

\* A desired state changes with every creation finished.
LEMMA OrderedSetState ==
    ASSUME NEW f \in Directories, NEW g \in Directories, Ordered(f), g.nat = f.nat,
           NEW a \in Accounts, NEW state \in {"enabled", "disabled"}, g.reg = SetState(f.reg, a, state),
           \A b \in Registered(f) : Confirmed(f, b)
    PROVE  Ordered(g)
<1>1. PICK n \in Nat : n = Len(f.reg.accounts) /\ f.reg \in Registries /\ f.reg.rev \in Nat
  BY IdsAre DEF Directories
<1>2. /\ g.reg.rev = f.reg.rev + 1 /\ Len(g.reg.accounts) = n
      /\ \A i \in 1..n : /\ g.reg.accounts[i].id = f.reg.accounts[i].id
                         /\ g.reg.accounts[i].uid = f.reg.accounts[i].uid
                         /\ g.reg.accounts[i].state \in {f.reg.accounts[i].state, state}
  <2>1. Restated(f.reg, g.reg, state)
    BY <1>1, SetStateKeeps
  <2> QED BY <1>1, <2>1 DEF Restated
<1>3. \A i \in 1..n : Journal(g, i).phase = "UnixConfirmed"
  <2>1. \A i \in 1..n : f.reg.accounts[i].id \in Registered(f)
    BY <1>1, IdsAre DEF Registered
  <2> QED BY <1>2, <2>1 DEF Confirmed, Journal
<1>4. Unfinished(g) = {}
  BY <1>2, <1>3 DEF Unfinished
<1>6. ASSUME NEW i \in 1..n PROVE InPlace(g, i)
  <2>1. InPlace(f, i)
    BY <1>1 DEF Ordered
  <2> QED BY <1>1, <1>2, <2>1, InPlaceStays, Zenon
<1>7. g.reg.rev >= n + 1
  <2>1. f.reg.rev >= n + 1
    BY <1>1 DEF Ordered
  <2> QED BY <1>1, <1>2, <2>1
<1> QED BY <1>2, <1>4, <1>6, <1>7 DEF Ordered

\* A record is added for a journal of the next revision, every other creation
\* finished.
LEMMA OrderedCreate ==
    ASSUME NEW f \in Directories, NEW g \in Directories, Ordered(f), g.nat = f.nat,
           NEW a \in Accounts, NEW reserved, Free(f.reg, reserved) # {}, g.reg = Create(f.reg, a, a, reserved),
           f.nat[a].phase = "Reserved", f.nat[a].reg = f.reg.rev + 1, f.nat[a].uid = Least(Free(f.reg, reserved)),
           \A b \in Registered(f) : Confirmed(f, b)
    PROVE  Ordered(g)
<1>1. PICK n \in Nat : n = Len(f.reg.accounts) /\ f.reg \in Registries /\ f.reg.rev \in Nat
  BY IdsAre, Zenon DEF Directories
<1>2. /\ g.reg.rev = f.reg.rev + 1 /\ Len(g.reg.accounts) = n + 1
      /\ \A i \in 1..n : g.reg.accounts[i] = f.reg.accounts[i]
      /\ g.reg.accounts[n + 1].id = a /\ g.reg.accounts[n + 1].state = "disabled"
      /\ g.reg.accounts[n + 1].uid = f.nat[a].uid
  <2>1. PICK r \in Registries : r = f.reg /\ Free(r, reserved) # {}
    BY <1>1
  <2>2. PICK s : s = g.reg /\ s = Create(r, a, a, reserved) /\ n = Len(r.accounts)
    BY <1>1, <2>1, Zenon
  <2>3. /\ s.rev = r.rev + 1 /\ Len(s.accounts) = n + 1
        /\ \A i \in 1..n : s.accounts[i] = r.accounts[i]
        /\ s.accounts[n + 1].id = a /\ s.accounts[n + 1].state = "disabled"
        /\ s.accounts[n + 1].uid = Least(Free(r, reserved))
    BY <2>1, <2>2, CreateGives, SMTT(30)
  <2> QED BY <2>1, <2>2, <2>3
<1>3. \A i \in 1..n : Journal(g, i) = Journal(f, i) /\ Journal(f, i).phase = "UnixConfirmed"
  BY <1>1, <1>2, IdsAre, Zenon DEF Registered, Confirmed, Journal
<1>4. Journal(g, n + 1) = f.nat[a]
  BY <1>2 DEF Journal
<1>5. \A i \in 1..(n + 1) : (i \in 1..n \/ i = n + 1) /\ (i > 1 => i - 1 \in 1..n)
  OBVIOUS
<1>6. Unfinished(g) = {n + 1}
  <2>1. Unfinished(g) = {i \in 1..(n + 1) : Journal(g, i).phase # "UnixConfirmed"}
    BY <1>2 DEF Unfinished
  <2>2. n + 1 \in 1..(n + 1)
    OBVIOUS
  <2> QED BY <1>3, <1>4, <1>5, <2>1, <2>2
<1>8. f.reg.rev >= n + 1
  BY <1>1 DEF Ordered
<1>9. ASSUME NEW i \in 1..n PROVE InPlace(g, i)
  <2>1. InPlace(f, i)
    BY <1>1 DEF Ordered
  <2> QED BY <1>1, <1>2, <2>1, InPlaceStays, Zenon
<1>10. InPlace(g, n + 1)
  <2>1. f.nat[a].reg >= n + 1 + 1 /\ f.nat[a].reg <= g.reg.rev
    BY <1>1, <1>2, <1>8
  <2>2. ASSUME n + 1 > 1 PROVE f.nat[a].reg > Journal(g, n + 1 - 1).reg
    <3>1. n + 1 - 1 = n /\ n \in 1..n
      BY <2>2
    <3>2. PICK m \in Nat : m = Journal(f, n).reg
      BY <1>1, <3>1, PlacesTyped
    <3>3. m <= f.reg.rev
      BY <1>1, <3>1, <3>2 DEF Ordered, InPlace
    <3>4. f.nat[a].reg > m
      BY <1>1, <3>2, <3>3
    <3> QED BY <1>3, <3>1, <3>2, <3>4
  <2> QED BY <1>2, <1>4, <2>1, <2>2 DEF InPlace
<1>11. g.reg.rev >= n + 1 + 1
  BY <1>1, <1>2, <1>8
<1>12. Journal(g, n + 1).reg = g.reg.rev
  BY <1>2, <1>4
<1> QED BY <1>2, <1>5, <1>6, <1>9, <1>10, <1>11, <1>12 DEF Ordered

-----------------------------------------------------------------------------
(* The owner, its call and its leases.                                     *)

\* A call of an open owner moves on, returns, or fails the owner.
LEMMA WorkKeeps ==
    ASSUME OwnerTypes, AuthorityInv, own.st = "open", UNCHANGED lease,
           \/ /\ UNCHANGED own
              /\ \/ Returns
                 \/ UNCHANGED call
                 \/ call'.op \in Ops \ {"-"} /\ call'.account \in Accounts /\ call'.lease = "-"
           \/ Fails /\ (Returns \/ (UNCHANGED call /\ call.op = "-"))
    PROVE  OwnerTypes' /\ AuthorityInv'
<1>1. /\ call'.op \in Ops /\ (call'.op # "-" => call'.account \in Accounts)
      /\ call'.lease # "-" => call'.op = "DisableIntent"
      /\ call'.op # "-" => UNCHANGED own
  BY DEF OwnerTypes, AuthorityInv, Returns, Idle, Goto, Ops
<1>2. CASE UNCHANGED own
  BY <1>1, <1>2 DEF OwnerTypes, AuthorityInv
<1>3. CASE Fails
  <2>1. own' \in Owners /\ own'.st = "failed" /\ own'.lock = own.lock /\ own'.stores = own.stores /\ own'.backend = own.backend
    BY <1>3 DEF OwnerTypes, Owners, Fails
  <2>2. call'.op = "-"
    BY <1>1, <1>3, <2>1
  <2>3. own.lock /\ own.stores /\ own.backend
    BY DEF AuthorityInv
  <2> QED BY <1>1, <2>1, <2>2, <2>3 DEF OwnerTypes, AuthorityInv
<1> QED BY <1>2, <1>3

-----------------------------------------------------------------------------
(* Publishing.                                                             *)

\* A directory with another registry.
LEMMA PutReg ==
    ASSUME NEW d \in Directories, NEW v \in Registries
    PROVE  /\ Put(d, "reg", v) \in Directories /\ Put(d, "reg", v).reg = v
           /\ Put(d, "reg", v).nat = d.nat /\ Put(d, "reg", v).smb = d.smb
           /\ Put(d, "reg", v).dirs = d.dirs /\ Put(d, "reg", v).smbDirs = d.smbDirs
BY DEF Put, Directories

\* ... with other native journals.
LEMMA PutNat ==
    ASSUME NEW d \in Directories, NEW v \in [Accounts -> Journals]
    PROVE  /\ Put(d, "nat", v) \in Directories /\ Put(d, "nat", v).reg = d.reg
           /\ Put(d, "nat", v).nat = v /\ Put(d, "nat", v).smb = d.smb
           /\ Put(d, "nat", v).dirs = d.dirs /\ Put(d, "nat", v).smbDirs = d.smbDirs
BY DEF Put, Directories

\* ... with other Samba journals.
LEMMA PutSMB ==
    ASSUME NEW d \in Directories, NEW v \in [Accounts -> SMBs]
    PROVE  /\ Put(d, "smb", v) \in Directories /\ Put(d, "smb", v).reg = d.reg
           /\ Put(d, "smb", v).nat = d.nat /\ Put(d, "smb", v).smb = v
           /\ Put(d, "smb", v).dirs = d.dirs /\ Put(d, "smb", v).smbDirs = d.smbDirs
BY DEF Put, Directories

\* ... with other entries of native journals.
LEMMA PutDirs ==
    ASSUME NEW d \in Directories, NEW v \in SUBSET Accounts
    PROVE  /\ Put(d, "dirs", v) \in Directories /\ Put(d, "dirs", v).reg = d.reg
           /\ Put(d, "dirs", v).nat = d.nat /\ Put(d, "dirs", v).smb = d.smb
           /\ Put(d, "dirs", v).dirs = v /\ Put(d, "dirs", v).smbDirs = d.smbDirs
BY DEF Put, Directories

\* ... with other entries of Samba journals.
LEMMA PutEntries ==
    ASSUME NEW d \in Directories, NEW v \in SUBSET Accounts
    PROVE  /\ Put(d, "smbDirs", v) \in Directories /\ Put(d, "smbDirs", v).reg = d.reg
           /\ Put(d, "smbDirs", v).nat = d.nat /\ Put(d, "smbDirs", v).smb = d.smb
           /\ Put(d, "smbDirs", v).dirs = d.dirs /\ Put(d, "smbDirs", v).smbDirs = v
BY DEF Put, Directories

\* What a publication, certain or not, leaves in the directory.
LEMMA PublishLeaves ==
    ASSUME files \in disk, NEW doc, NEW v, Commits(doc, v) \/ CommitFails(doc, v) \/ Makes(doc, v)
    PROVE  /\ files' \in disk' /\ files' \in {files, Put(files, doc, v)}
           /\ \A d \in disk' : \E e \in disk : d = e \/ d = Put(e, doc, v)
           /\ Commits(doc, v) => /\ files' = Put(files, doc, v)
                                 /\ \A d \in disk' : \E e \in disk : d = Put(e, doc, v)
           /\ Makes(doc, v) => files' = Put(files, doc, v)
<1>1. CASE Commits(doc, v)
  BY <1>1 DEF Commits, Makes
<1>2. CASE CommitFails(doc, v)
  <2>1. \A d \in disk' : \E e \in disk : d = e \/ d = Put(e, doc, v)
    BY <1>2 DEF CommitFails
  <2>2. files' \in disk' /\ files' \in {files, Put(files, doc, v)}
    BY <1>2 DEF CommitFails
  <2> QED BY <2>1, <2>2 DEF Commits, Makes
<1>3. CASE Makes(doc, v)
  BY <1>3 DEF Commits, Makes
<1> QED BY <1>1, <1>2, <1>3

-----------------------------------------------------------------------------
(* Calls that publish one document.                                        *)

\* The invariant in parts.
LEMMA Parts ==
    ASSUME IInv
    PROVE  /\ OwnerTypes /\ WorldTypes /\ AuthorityInv /\ files \in disk /\ Durable(disk, unix)
           /\ files \in Directories /\ Named(files) /\ unix \subseteq Registered(files)
           /\ Registered(files) \subseteq Begun(files) /\ Registered(files) \subseteq Accounts
           /\ own.st = "open" => Certain(files, disk)
           /\ CallFits(call, files, disk) /\ (~torn => Whole(call, files, disk))
<1>1. /\ OwnerTypes /\ WorldTypes /\ AuthorityInv /\ files \in disk /\ Durable(disk, unix)
  BY DEF IInv, TypeOK, OwnerTypes, WorldTypes, FilesInv, Owners, Tokens, Ops
<1>2. files \in Directories /\ Named(files) /\ unix \subseteq Registered(files)
  BY <1>1 DEF Durable
<1>3. Registered(files) \subseteq Begun(files) /\ Registered(files) \subseteq Accounts
  BY <1>2, IdsAre DEF Named, Registered, Ids, Directories
<1> QED BY <1>1, <1>2, <1>3 DEF IInv, FilesInv

\* ... and together again.
LEMMA Assemble ==
    ASSUME OwnerTypes', WorldTypes', AuthorityInv', files' \in disk', Durable(disk', unix'),
           own'.st = "open" => Certain(files', disk'), CallFits(call', files', disk'),
           ~torn' => Whole(call', files', disk')
    PROVE  IInv'
<1>1. TypeOK'
  BY DEF TypeOK, OwnerTypes, WorldTypes, Owners, Tokens, Ops, Durable
<1> QED BY <1>1 DEF IInv, FilesInv

\* No directory is being made outside Reserve and Begin.
LEMMA WholeSettled ==
    ASSUME NEW c, c.op \notin {"Reserve", "Begin"}, NEW f, NEW D
    PROVE  Whole(c, f, D) <=> Settled(f, D)
BY DEF Whole, Settled

\* No call, nothing it relies on.
LEMMA IdleFits ==
    ASSUME NEW c, c.op = "-", NEW f, NEW D
    PROVE  CallFits(c, f, D)
BY DEF CallFits, Intents

\* A certain publication leaves every document certain.
LEMMA CommitCertain ==
    ASSUME Certain(files, disk), files \in disk, \A d \in disk : d \in Directories,
           NEW doc, NEW v, Fitting(doc, v), Commits(doc, v)
    PROVE  Certain(files', disk')
<1>1. files' = Put(files, doc, v) /\ \A d \in disk' : \E e \in disk : d = Put(e, doc, v)
  BY PublishLeaves
<1>2. ASSUME NEW d \in disk' PROVE d.reg = files'.reg /\ d.nat = files'.nat /\ d.smb = files'.smb
  <2>1. PICK e \in disk : d = Put(e, doc, v)
    BY <1>1
  <2>2. e.reg = files.reg /\ e.nat = files.nat /\ e.smb = files.smb /\ e \in Directories /\ files \in Directories
    BY DEF Certain
  <2>3. CASE doc = "reg" /\ v \in Registries
    BY <1>1, <2>1, <2>2, <2>3, PutReg
  <2>4. CASE doc = "nat" /\ v \in [Accounts -> Journals]
    BY <1>1, <2>1, <2>2, <2>4, PutNat
  <2>5. CASE doc = "smb" /\ v \in [Accounts -> SMBs]
    BY <1>1, <2>1, <2>2, <2>5, PutSMB
  <2> QED BY <2>3, <2>4, <2>5 DEF Fitting
<1> QED BY <1>2 DEF Certain

\* What a directory's registry and native journals tell.
LEMMA SameDocs ==
    ASSUME NEW e \in Directories, NEW d \in Directories, d.reg = e.reg, d.nat = e.nat
    PROVE  /\ Registered(d) = Registered(e) /\ Begun(d) = Begun(e)
           /\ Named(e) => Named(d)
           /\ Ordered(e) => Ordered(d)
           /\ \A b : Confirmed(d, b) = Confirmed(e, b)
           /\ d.smb = e.smb /\ d.smbDirs = e.smbDirs /\ Children(e) => Children(d)
<1>1. Registered(d) = Registered(e) /\ Begun(d) = Begun(e) /\ (\A b : Confirmed(d, b) = Confirmed(e, b))
  BY DEF Registered, Begun, Confirmed
<1>2. Named(e) => Named(d)
  BY <1>1 DEF Named
<1>3. Ordered(e) => Ordered(d)
  BY Zenon DEF Ordered, InPlace, Unfinished, Journal
<1>4. d.smb = e.smb /\ d.smbDirs = e.smbDirs /\ Children(e) => Children(d)
  BY <1>1 DEF Children
<1> QED BY <1>1, <1>2, <1>3, <1>4

\* A creation is cut off: nothing is certain but what was durable.
LEMMA TornKeeps ==
    ASSUME IInv, own.st = "open", Fails, Returns, torn' = TRUE, UNCHANGED <<lease, passdb, unix, foreign>>,
           files' \in disk', Durable(disk', unix)
    PROVE  IInv'
<1>1. OwnerTypes /\ WorldTypes /\ AuthorityInv
  BY Parts
<1>2. OwnerTypes' /\ AuthorityInv'
  BY <1>1, WorkKeeps
<1>3. WorldTypes' /\ own'.st = "failed" /\ call'.op = "-"
  BY <1>1, Zenon DEF WorldTypes, Fails, OwnerTypes, Owners, Returns, Idle
<1> QED BY <1>2, <1>3, IdleFits, Assemble

-----------------------------------------------------------------------------
(* Reserve.                                                                *)

\* The directory is made: nobody else's, and it is the only entry in doubt.
LEMMA ReserveKeeps ==
    ASSUME IInv, NEW a \in Accounts, Reserve(a)
    PROVE  IInv'
<1>1. /\ OwnerTypes /\ WorldTypes /\ AuthorityInv /\ files \in Directories /\ files \in disk /\ Named(files)
      /\ Durable(disk, unix) /\ Certain(files, disk) /\ (~torn => Settled(files, disk))
      /\ own.st = "open" /\ call.op = "-" /\ Scan(files) /\ \A b \in Registered(files) : Confirmed(files, b)
      /\ UNCHANGED <<lease, passdb, unix, foreign, torn>> /\ unix \subseteq Registered(files)
  BY Parts, WholeSettled DEF Reserve, Entered, world
<1>2. CASE Fails /\ UNCHANGED <<files, disk, call>>
  <2>1. OwnerTypes' /\ AuthorityInv' /\ WorldTypes' /\ own'.st = "failed"
    BY <1>1, <1>2, WorkKeeps DEF WorldTypes, Fails, OwnerTypes, Owners
  <2> QED BY <1>1, <1>2, <2>1, Parts, Assemble
<1>3. CASE Makes("dirs", files.dirs \cup {a}) /\ Goto("Reserve", "sync", a, "-") /\ UNCHANGED own
  <2>1. "Reserve" \in Ops \ {"-"} /\ call'.op = "Reserve" /\ call'.account = a /\ call'.step = "sync"
    BY <1>3, Zenon DEF Ops, Goto
  <2>2. OwnerTypes' /\ AuthorityInv' /\ WorldTypes'
    <3>1. call'.op \in Ops \ {"-"} /\ call'.account \in Accounts /\ call'.lease = "-"
      BY <1>3, <2>1 DEF Goto
    <3> QED BY <1>1, <1>3, <3>1, WorkKeeps DEF WorldTypes
  <2>3. PICK v \in SUBSET Accounts : v = files.dirs \cup {a}
    BY <1>1, Zenon DEF Directories
  <2>4. /\ files' \in disk' /\ files' = Put(files, "dirs", v)
        /\ \A d \in disk' : \E e \in disk : d = e \/ d = Put(e, "dirs", v)
    BY <1>1, <1>3, <2>3, PublishLeaves
  <2>5. ASSUME NEW d \in disk'
        PROVE  /\ d \in Directories /\ d.reg = files.reg /\ d.nat = files.nat /\ d.smb = files.smb
               /\ \E e \in disk : d.smbDirs = e.smbDirs /\ (d.dirs = e.dirs \/ d.dirs = v)
    <3>1. PICK e \in disk : d = e \/ d = Put(e, "dirs", v)
      BY <2>4, Zenon
    <3>2. e \in Directories /\ e.reg = files.reg /\ e.nat = files.nat /\ e.smb = files.smb
      BY <1>1, Zenon DEF Durable, Certain
    <3> QED BY <2>3, <3>1, <3>2, PutDirs
  <2>6. /\ files'.reg = files.reg /\ files'.nat = files.nat /\ files'.smb = files.smb
        /\ files'.dirs = v /\ files'.smbDirs = files.smbDirs
    BY <1>1, <2>3, <2>4, PutDirs, Zenon
  <2>7. ASSUME NEW d \in disk' PROVE Registered(d) = Registered(files) /\ Begun(d) = Begun(files) /\ Named(d)
    BY <1>1, <2>5 DEF Registered, Begun, Named
  <2>8. /\ \A e \in disk : Begun(files) \subseteq e.dirs /\ e.smbDirs \subseteq Registered(files)
        /\ Begun(files) \subseteq v
    BY <1>1, <2>3, Zenon DEF Durable
  <2>9. Durable(disk', unix')
    BY <1>1, <2>5, <2>7, <2>8 DEF Durable
  <2>10. Certain(files', disk')
    BY <2>5, <2>6, Zenon DEF Certain
  <2>11. CreateError(files.reg, files.reg.rev, a, a, Reserved, {}) = "nil"
    BY DEF Reserve
  <2>12. a \notin Registered(files) /\ Free(files.reg, Reserved) # {}
    <3>1. ~(\E e \in Records(files.reg) : e.id = a \/ e.name = a) /\ Free(files.reg, Reserved) # {}
      BY <2>11 DEF CreateError
    <3> QED BY <3>1 DEF Registered, Ids
  <2>13. Free(files.reg, Others) # {}
    BY <1>1, <2>12, FreeSame, Zenon DEF Reserved
  <2>14. Registered(files) = files.dirs /\ Begun(files) \subseteq Registered(files)
    BY <1>1, <2>8 DEF Scan
  <2>15. \A b \in Registered(files') : Confirmed(files', b)
    BY <1>1, <2>6 DEF Registered, Confirmed
  <2>16. Registered(files') = Registered(files) /\ Begun(files') = Begun(files)
    BY <2>6, Zenon DEF Registered, Begun
  <2>17. Reserving(a, "sync", files', disk')
    BY <2>3, <2>6, <2>12, <2>13, <2>14, <2>15, <2>16, Zenon DEF Reserving
  <2>18. CallFits(call', files', disk')
    BY <2>1, <2>17, Zenon DEF CallFits, Intents
  <2>19. ASSUME ~torn' PROVE Whole(call', files', disk')
    <3>1. Settled(files, disk)
      BY <1>1, <2>19
    <3>2. ASSUME NEW d \in disk'
          PROVE  Ordered(d) /\ d.smbDirs = files'.smbDirs /\ Children(d)
      <4>1. Ordered(files) /\ Children(files) /\ d.smbDirs = files.smbDirs
        BY <1>1, <2>5, <3>1 DEF Settled
      <4>2. Ordered(d)
        BY <2>5, <4>1, Zenon DEF Ordered, InPlace, Unfinished, Journal
      <4>3. Children(d)
        BY <2>5, <2>7, <4>1, Zenon DEF Children, Confirmed
      <4> QED BY <2>6, <4>1, <4>2, <4>3
    <3> QED BY <2>1, <3>2 DEF Whole
  <2> QED BY <2>2, <2>4, <2>9, <2>10, <2>18, <2>19, Assemble
<1> QED BY <1>2, <1>3 DEF Reserve

\* What a Reserve in progress knows.
LEMMA ReserveParts ==
    ASSUME IInv, call.op = "Reserve"
    PROVE  /\ OwnerTypes /\ WorldTypes /\ AuthorityInv /\ files \in Directories /\ files \in disk /\ Named(files)
           /\ own.st = "open" /\ Durable(disk, unix) /\ Certain(files, disk) /\ call.account \in Accounts
           /\ Reserving(call.account, call.step, files, disk) /\ (~torn => Whole(call, files, disk))
           /\ \A e \in disk : /\ e \in Directories /\ Named(e) /\ Registered(e) = Registered(files)
                              /\ Begun(e) = Begun(files) /\ Begun(files) \subseteq e.dirs
                              /\ e.smbDirs \subseteq Registered(files)
           /\ unix \subseteq Registered(files) /\ Registered(files) \subseteq Begun(files)
           /\ Free(files.reg, Reserved) = Free(files.reg, Others)
<1>1. /\ OwnerTypes /\ WorldTypes /\ AuthorityInv /\ files \in Directories /\ files \in disk /\ Named(files)
      /\ own.st = "open" /\ Durable(disk, unix) /\ Certain(files, disk)
      /\ CallFits(call, files, disk) /\ (~torn => Whole(call, files, disk))
      /\ unix \subseteq Registered(files) /\ Registered(files) \subseteq Begun(files)
  BY Parts, Zenon DEF AuthorityInv
<1>2. call.account \in Accounts /\ Reserving(call.account, call.step, files, disk)
  BY <1>1, Zenon DEF CallFits, OwnerTypes
<1>3. ASSUME NEW e \in disk
      PROVE  /\ e \in Directories /\ Named(e) /\ Registered(e) = Registered(files)
             /\ Begun(e) = Begun(files) /\ Begun(files) \subseteq e.dirs /\ e.smbDirs \subseteq Registered(files)
  BY <1>1 DEF Durable, Certain, Registered, Begun
<1>4. Free(files.reg, Reserved) = Free(files.reg, Others)
  BY <1>1, FreeSame, Zenon DEF Reserved
<1> QED BY <1>1, <1>2, <1>3, <1>4, Zenon

\* The directory's entry is durable.
LEMMA ReserveSyncKeeps ==
    ASSUME IInv, ReserveSync
    PROVE  IInv'
<1>1. call.op = "Reserve" /\ call.step = "sync" /\ UNCHANGED <<lease, passdb, unix, foreign>>
  BY DEF ReserveSync, world
<1>2. CASE Fails /\ Returns /\ torn' = TRUE /\ UNCHANGED <<files, disk>>
  BY <1>1, <1>2, ReserveParts, TornKeeps
<1>3. CASE Syncs("dirs") /\ Goto("Reserve", "journal", call.account, "-") /\ UNCHANGED <<own, torn>>
  <2>1. PICK a \in Accounts : a = call.account
    BY <1>1, ReserveParts
  <2>2. call'.op = "Reserve" /\ call'.account = a /\ call'.step = "journal" /\ call'.lease = "-" /\ "Reserve" \in Ops \ {"-"}
    BY <1>3, <2>1, Zenon DEF Goto, Ops
  <2>3. OwnerTypes' /\ AuthorityInv' /\ WorldTypes'
    BY <1>1, <1>3, <2>2, ReserveParts, WorkKeeps DEF WorldTypes
  <2>4. PICK v \in SUBSET Accounts : v = files.dirs
    BY <1>1, ReserveParts DEF Directories
  <2>5. files' = files /\ \A d \in disk' : \E e \in disk : d = Put(e, "dirs", v)
    BY <1>3, <2>4, Zenon DEF Syncs
  <2>6. ASSUME NEW d \in disk'
        PROVE  /\ d \in Directories /\ d.reg = files.reg /\ d.nat = files.nat /\ d.smb = files.smb /\ d.dirs = v
               /\ \E e \in disk : d.smbDirs = e.smbDirs
    BY <1>1, <2>5, ReserveParts, PutDirs DEF Certain
  <2>7. ASSUME NEW d \in disk' PROVE Registered(d) = Registered(files) /\ Begun(d) = Begun(files) /\ Named(d)
    BY <1>1, <2>6, ReserveParts, SameDocs
  <2>8. files' \in disk'
    <3>1. Put(files, "dirs", files.dirs) = files
      BY <1>1, ReserveParts DEF Put, Directories
    <3> QED BY <1>1, <1>3, <3>1, ReserveParts DEF Syncs
  <2>9. Durable(disk', unix')
    <3>1. unix' = unix /\ unix \subseteq Registered(files) /\ Begun(files) \subseteq v
      BY <1>1, <2>4, ReserveParts, Zenon
    <3>2. \A d \in disk' : d.smbDirs \subseteq Registered(files)
      BY <1>1, <2>6, ReserveParts
    <3> QED BY <2>6, <2>7, <3>1, <3>2, Zenon DEF Durable
  <2>10. Certain(files', disk')
    BY <2>5, <2>6, Zenon DEF Certain
  <2>11. CallFits(call', files', disk')
    <3>1. Reserving(a, "sync", files, disk)
      BY <1>1, <2>1, ReserveParts
    <3>2. Reserving(a, "journal", files', disk')
      BY <2>4, <2>5, <2>6, <3>1 DEF Reserving
    <3> QED BY <2>2, <3>2, Zenon DEF CallFits, Intents
  <2>12. ASSUME ~torn' PROVE Whole(call', files', disk')
    <3>1. Whole(call, files, disk) /\ torn' = torn
      BY <1>1, <1>3, <2>12, ReserveParts, Zenon
    <3>2. Ordered(files) /\ Children(files) /\ \A e \in disk : e.smbDirs = files.smbDirs
      BY <1>1, <3>1, ReserveParts, Zenon DEF Whole
    <3>3. ASSUME NEW d \in disk' PROVE Ordered(d) /\ d.smbDirs = files'.smbDirs /\ Children(d)
      BY <1>1, <2>5, <2>6, <3>2, ReserveParts, SameDocs, Zenon
    <3> QED BY <2>2, <3>3, Zenon DEF Whole
  <2> QED BY <2>3, <2>8, <2>9, <2>10, <2>11, <2>12, Assemble
<1> QED BY <1>2, <1>3, Zenon DEF ReserveSync

\* The journal to be published: a number that is nobody's.
LEMMA ReservationIs ==
    ASSUME IInv, call.op = "Reserve"
    PROVE  LET n == Least(Free(files.reg, Others))
           IN  /\ Reservation = [phase |-> "Reserved", reg |-> files.reg.rev + 1, uid |-> n]
               /\ Reservation \in Journals /\ n \in Free(files.reg, Others)
<1>1. PICK r \in Registries : r = files.reg
  BY ReserveParts, Zenon DEF Directories
<1>2. Free(r, Others) # {} /\ Free(r, Reserved) = Free(r, Others) /\ call.account \in Accounts
  BY <1>1, ReserveParts DEF Reserving
<1>3. PICK k \in Nat : k = Len(r.accounts)
  BY <1>1, IdsAre
<1>10. PICK R : R = Reserved
  OBVIOUS
<1>11. PICK a \in Accounts : a = call.account
  BY <1>2
<1>12. PICK s : s = Planned
  OBVIOUS
<1>4. s = Create(r, a, a, R)
  BY <1>1, <1>10, <1>11, <1>12 DEF Planned
<1>8. Free(r, R) # {}
  BY <1>2, <1>10, Zenon
<1>9. /\ s.accounts[k + 1].uid = Least(Free(r, R)) /\ Len(s.accounts) = k + 1
      /\ Least(Free(r, R)) \in Free(r, R) /\ Least(Free(r, R)) \in Nat
  BY <1>3, <1>4, <1>8, CreateGives
<1>5. /\ Planned.accounts[k + 1].uid = Least(Free(r, Others)) /\ Len(Planned.accounts) = k + 1
      /\ Least(Free(r, Others)) \in Free(r, Others) /\ Least(Free(r, Others)) \in Nat
  BY <1>2, <1>10, <1>12, <1>9
<1>6. r.rev \in Nat
  BY <1>1, IdsAre, Zenon
<1>7. Reservation = [phase |-> "Reserved", reg |-> r.rev + 1, uid |-> Least(Free(r, Others))]
  BY <1>1, <1>5 DEF Reservation
<1> QED BY <1>1, <1>5, <1>6, <1>7 DEF Journals

\* The journal is published before the registry: its number is not a record's,
\* another journal's or anyone else's.
LEMMA ReserveJournalKeeps ==
    ASSUME IInv, ReserveJournal
    PROVE  IInv'
<1>1. call.op = "Reserve" /\ call.step = "journal" /\ UNCHANGED <<lease, passdb, unix, foreign>>
  BY Zenon DEF ReserveJournal, world
<1>2. PICK a \in Accounts : a = call.account
  BY <1>1, ReserveParts
<1>3. PICK n : n = Least(Free(files.reg, Others))
  OBVIOUS
<1>4. PICK j \in Journals : j = Reservation
  BY <1>1, ReservationIs, Zenon
<1>5. j = [phase |-> "Reserved", reg |-> files.reg.rev + 1, uid |-> n] /\ n \in Free(files.reg, Others)
  BY <1>1, <1>3, <1>4, ReservationIs
<1>6. PICK v \in [Accounts -> Journals] : v = [files.nat EXCEPT ![a] = j]
  BY <1>1, ReserveParts, Zenon DEF Directories
<1>7. Reserving(a, "journal", files, disk) /\ a \notin Registered(files) /\ Begun(files) \subseteq Registered(files)
      /\ \A e \in disk : a \in e.dirs
  <2>1. Reserving(a, "journal", files, disk)
    BY <1>1, <1>2, ReserveParts, Zenon
  <2> QED BY <2>1, Zenon DEF Reserving
<1>8. v[a] = j /\ \A b \in Accounts \ {a} : v[b] = files.nat[b]
  BY <1>1, <1>6, ReserveParts, Zenon DEF Directories
<1>9. j.phase # "none" /\ j.uid = n /\ n \notin Others /\ \A r \in Records(files.reg) : r.uid # n
  BY <1>5, Zenon DEF Free
<1>10. ASSUME NEW d \in Directories, d.reg = files.reg, d.nat = v
       PROVE  Begun(d) = Begun(files) \cup {a} /\ Registered(d) = Registered(files) /\ Named(d)
  <2>1. Begun(d) = Begun(files) \cup {a} /\ Registered(d) = Registered(files)
    BY <1>8, <1>9, <1>10 DEF Begun, Registered
  <2>2. \A r \in Records(files.reg) : r.id \in Registered(files)
    BY Zenon DEF Registered, Ids
  <2>3. ASSUME NEW r \in Records(d.reg) PROVE r.id \in Begun(d) /\ d.nat[r.id].uid = r.uid
    <3>1. r \in Records(files.reg) /\ r.id # a
      BY <1>7, <1>10, <2>2
    <3>2. r.id \in Begun(files) /\ files.nat[r.id].uid = r.uid
      BY <1>1, <3>1, ReserveParts, Zenon DEF Named
    <3> QED BY <1>8, <1>10, <2>1, <3>1, <3>2, Zenon DEF Begun
  <2>4. ASSUME NEW b \in Begun(files) PROVE b # a /\ d.nat[b].uid # n /\ d.nat[b].uid = files.nat[b].uid
    <3>1. b \in Registered(files) /\ b # a /\ b \in Accounts
      BY <1>7 DEF Begun
    <3>2. \E r \in Records(files.reg) : r.id = b
      BY <3>1 DEF Registered, Ids
    <3>3. \E r \in Records(files.reg) : r.uid = files.nat[b].uid
      BY <1>1, <3>2, ReserveParts, Zenon DEF Named
    <3> QED BY <1>8, <1>9, <1>10, <3>1, <3>3
  <2>5. ASSUME NEW b \in Begun(files), NEW c \in Begun(files), b # c PROVE files.nat[b].uid # files.nat[c].uid
    BY <1>1, <2>5, ReserveParts, Zenon DEF Named
  <2>6. ASSUME NEW b \in Begun(files) PROVE files.nat[b].uid \notin Others
    BY <1>1, ReserveParts DEF Named
  <2>7. d.nat[a].uid = n
    BY <1>8, <1>9, <1>10, Zenon
  <2> QED BY <1>9, <2>1, <2>3, <2>4, <2>5, <2>6, <2>7 DEF Named
<1>11. ASSUME NEW e \in disk, NEW d, d = Put(e, "nat", v)
       PROVE  /\ d \in Directories /\ d.reg = files.reg /\ d.nat = v /\ d.smb = files.smb /\ d.dirs = e.dirs
              /\ d.smbDirs = e.smbDirs
              /\ Begun(d) = Begun(files) \cup {a} /\ Registered(d) = Registered(files) /\ Named(d)
  <2>1. e \in Directories /\ e.reg = files.reg /\ e.smb = files.smb
    BY <1>1, ReserveParts, Zenon DEF Certain
  <2>2. /\ d \in Directories /\ d.reg = files.reg /\ d.nat = v /\ d.smb = files.smb /\ d.dirs = e.dirs
        /\ d.smbDirs = e.smbDirs
    BY <1>11, <2>1, PutNat, Zenon
  <2> QED BY <1>10, <2>2, Zenon
<1>12. ASSUME NEW D, \A d \in D : \E e \in disk : d = e \/ d = Put(e, "nat", v)
       PROVE  Durable(D, unix)
  <2>1. ASSUME NEW d \in D
        PROVE  /\ d \in Directories /\ Named(d) /\ Registered(d) = Registered(files)
               /\ Begun(d) \subseteq Begun(files) \cup {a} /\ Begun(files) \cup {a} \subseteq d.dirs
               /\ d.smbDirs \subseteq Registered(files)
    <3>1. PICK e \in disk : d = e \/ d = Put(e, "nat", v)
      BY <1>12, Zenon
    <3>2. /\ e \in Directories /\ Named(e) /\ Registered(e) = Registered(files)
          /\ Begun(e) = Begun(files) /\ Begun(files) \cup {a} \subseteq e.dirs /\ e.smbDirs \subseteq Registered(files)
      BY <1>1, <1>7, ReserveParts
    <3> QED BY <1>11, <3>1, <3>2
  <2>2. unix \subseteq Registered(files)
    BY <1>1, ReserveParts
  <2> QED BY <2>1, <2>2 DEF Durable
<1>13. CASE CommitFails("nat", v) /\ Fails /\ Returns /\ torn' = TRUE
  <2>1. files' \in disk' /\ \A d \in disk' : \E e \in disk : d = e \/ d = Put(e, "nat", v)
    BY <1>1, <1>13, ReserveParts DEF CommitFails
  <2>2. Durable(disk', unix)
    BY <1>12, <2>1
  <2>3. own.st = "open"
    BY <1>1, ReserveParts, Zenon
  <2> QED BY <1>1, <1>13, <2>1, <2>2, <2>3, TornKeeps
<1>14. CASE Commits("nat", v) /\ Goto("Reserve", "registry", a, "-") /\ UNCHANGED <<own, torn>>
  <2>1. call'.op = "Reserve" /\ call'.account = a /\ call'.step = "registry" /\ call'.lease = "-" /\ "Reserve" \in Ops \ {"-"}
    BY <1>14 DEF Goto, Ops
  <2>2. OwnerTypes' /\ AuthorityInv' /\ WorldTypes'
    BY <1>1, <1>14, <2>1, ReserveParts, WorkKeeps, Zenon DEF WorldTypes
  <2>3. files' = Put(files, "nat", v) /\ files' \in disk' /\ \A d \in disk' : \E e \in disk : d = Put(e, "nat", v)
    BY <1>1, <1>14, ReserveParts DEF Commits
  <2>4. Durable(disk', unix')
    BY <1>1, <1>12, <2>3
  <2>5. ASSUME NEW d \in disk' PROVE d.reg = files'.reg /\ d.nat = v /\ files'.nat = v /\ d.smb = files'.smb
    BY <1>1, <1>11, <2>3, ReserveParts, Zenon
  <2>6. Certain(files', disk')
    BY <2>3, <2>5, Zenon DEF Certain
  <2>7. /\ files' \in Directories /\ files'.reg = files.reg /\ files'.nat = v /\ files'.dirs = files.dirs
        /\ Begun(files') = Begun(files) \cup {a} /\ Registered(files') = Registered(files)
        /\ files'.smbDirs = files.smbDirs
    BY <1>1, <1>11, <2>3, ReserveParts, Zenon
  <2>8. CallFits(call', files', disk')
    <3>1. \A b \in Registered(files) : Confirmed(files', b)
      <4>1. ASSUME NEW b \in Registered(files) PROVE b \in Accounts \ {a} /\ Confirmed(files, b)
        BY <1>1, <1>7, ReserveParts, Zenon DEF Reserving, Begun
      <4> QED BY <1>8, <2>7, <4>1 DEF Confirmed
    <3>2. \A d \in disk' : d.dirs = files'.dirs
      <4>1. \A e \in disk : e.dirs = files.dirs
        BY <1>7, Zenon DEF Reserving
      <4> QED BY <1>11, <2>3, <2>7, <4>1
    <3>3. files'.nat[a] = [phase |-> "Reserved", reg |-> files'.reg.rev + 1, uid |-> Least(Free(files'.reg, Others))]
      BY <1>3, <1>5, <1>8, <2>7, Zenon
    <3>4. /\ a \notin Registered(files') /\ Free(files'.reg, Others) # {}
          /\ Begun(files') \subseteq Registered(files') \cup {a} /\ files'.dirs = Registered(files') \cup {a}
      BY <1>7, <2>7 DEF Reserving
    <3>5. Reserving(a, "registry", files', disk')
      BY <2>7, <3>1, <3>2, <3>3, <3>4, Zenon DEF Reserving
    <3> QED BY <2>1, <3>5 DEF CallFits, Intents
  <2>9. ASSUME ~torn' PROVE Whole(call', files', disk')
    <3>1. Whole(call, files, disk)
      BY <1>1, <1>14, <2>9, ReserveParts, Zenon
    <3>2. \A e \in disk : Ordered(e) /\ Children(e) /\ e.smbDirs = files.smbDirs
      BY <1>1, <3>1, Zenon DEF Whole
    <3>3. ASSUME NEW d \in disk' PROVE Ordered(d) /\ d.smbDirs = files'.smbDirs /\ Children(d)
      <4>1. PICK e \in disk : d = Put(e, "nat", v)
        BY <2>3
      <4>2. /\ e \in Directories /\ d \in Directories /\ d.reg = e.reg /\ d.smb = e.smb /\ d.smbDirs = e.smbDirs
            /\ e.nat = files.nat /\ d.nat = v /\ Registered(e) = Registered(files) /\ Registered(d) = Registered(e)
        BY <1>1, <1>11, <4>1, ReserveParts, Zenon DEF Certain
      <4>3. ASSUME NEW b \in Registered(e) PROVE b \in Accounts \ {a} /\ e.nat[b].phase # "none"
        BY <1>1, <1>7, <4>2, ReserveParts, Zenon DEF Begun
      <4>4. \A b \in Registered(e) : d.nat[b] = e.nat[b]
        BY <1>8, <4>2, <4>3, Zenon
      <4>5. Ordered(d)
        BY <3>2, <4>2, <4>3, <4>4, OrderedStays DEF Confirmed
      <4>6. Children(d)
        BY <3>2, <4>2, <4>4 DEF Children, Confirmed
      <4> QED BY <2>7, <3>2, <4>2, <4>5, <4>6
    <3> QED BY <2>1, <3>3 DEF Whole
  <2> QED BY <2>2, <2>3, <2>4, <2>6, <2>8, <2>9, Assemble
<1> QED BY <1>2, <1>4, <1>6, <1>13, <1>14, Zenon DEF ReserveJournal

\* The registry is published: its new record names the number the journal
\* reserved, although Create computes it a second time.
LEMMA ReserveRegistryKeeps ==
    ASSUME IInv, ReserveRegistry
    PROVE  IInv'
<1>1. call.op = "Reserve" /\ call.step = "registry" /\ Returns /\ UNCHANGED <<lease, passdb, unix, foreign>>
  BY Zenon DEF ReserveRegistry, world
<1>2. PICK a \in Accounts : a = call.account
  BY <1>1, ReserveParts, Zenon
<1>3. PICK r \in Registries : r = files.reg
  BY <1>1, ReserveParts DEF Directories
<1>4. PICK R : R = Reserved
  OBVIOUS
<1>5. Reserving(a, "registry", files, disk) /\ Free(r, R) = Free(r, Others) /\ Free(r, R) # {}
  <2>1. Reserving(a, "registry", files, disk) /\ Free(r, R) = Free(r, Others)
    BY <1>1, <1>2, <1>3, <1>4, ReserveParts
  <2> QED BY <1>3, <2>1, Zenon DEF Reserving
<1>6. PICK v \in Registries : v = Create(r, a, a, R) /\ v = Planned
  <2>1. Create(r, a, a, R) \in Registries
    BY <1>5, CreateGives, Zenon
  <2> QED BY <1>2, <1>3, <1>4, <2>1, Zenon DEF Planned
<1>7. /\ a \notin Registered(files) /\ files.dirs = Registered(files) \cup {a} /\ \A e \in disk : e.dirs = files.dirs
      /\ \A b \in Registered(files) : Confirmed(files, b)
      /\ files.nat[a].phase = "Reserved" /\ files.nat[a].reg = r.rev + 1 /\ files.nat[a].uid = Least(Free(r, R))
  BY <1>3, <1>5 DEF Reserving
<1>8. /\ Ids(v) = Registered(files) \cup {a}
      /\ \A e \in Records(v) : e \in Records(r) \/ (e.id = a /\ e.uid = files.nat[a].uid)
  <2>1. /\ Ids(Create(r, a, a, R)) = Ids(r) \cup {a}
        /\ \A e \in Records(Create(r, a, a, R)) : e \in Records(r) \/ (e.id = a /\ e.uid = Least(Free(r, R)))
    BY <1>5, CreatedIds, Zenon
  <2> QED BY <1>3, <1>6, <1>7, <2>1, Zenon DEF Registered
<1>9. ASSUME NEW e \in disk, NEW d, d = Put(e, "reg", v)
      PROVE  /\ d \in Directories /\ d.reg = v /\ d.nat = files.nat /\ d.smb = files.smb /\ d.dirs = files.dirs
             /\ d.smbDirs = e.smbDirs /\ e.nat = files.nat /\ e.reg = r /\ e.smb = files.smb
             /\ Begun(d) = Begun(files) /\ Registered(d) = Registered(files) \cup {a} /\ Named(d)
  <2>1. e \in Directories /\ e.reg = r /\ e.nat = files.nat /\ e.smb = files.smb /\ Named(e) /\ e.dirs = files.dirs
    BY <1>1, <1>3, <1>7, ReserveParts, Zenon DEF Certain
  <2>2. /\ d \in Directories /\ d.reg = v /\ d.nat = files.nat /\ d.smb = files.smb /\ d.dirs = files.dirs
        /\ d.smbDirs = e.smbDirs
    BY <1>9, <2>1, PutReg, Zenon
  <2>3. Begun(d) = Begun(files) /\ Begun(e) = Begun(files) /\ Registered(d) = Registered(files) \cup {a}
    BY <1>8, <2>1, <2>2, Zenon DEF Begun, Registered
  <2>4. a \in Begun(d)
    BY <1>7, <2>3, Zenon DEF Begun
  <2>5. ASSUME NEW x \in Records(d.reg) PROVE x.id \in Begun(d) /\ d.nat[x.id].uid = x.uid
    <3>1. CASE x \in Records(r)
      BY <2>1, <2>2, <2>3, <3>1, Zenon DEF Named
    <3>2. CASE x.id = a /\ x.uid = files.nat[a].uid
      BY <2>2, <2>4, <3>2, Zenon
    <3> QED BY <1>8, <2>2, <3>1, <3>2, Zenon
  <2>6. Named(d)
    BY <2>1, <2>2, <2>3, <2>5 DEF Named
  <2> QED BY <2>1, <2>2, <2>3, <2>6
<1>10. ASSUME NEW D, \A d \in D : \E e \in disk : d = e \/ d = Put(e, "reg", v)
       PROVE  Durable(D, unix)
  <2>1. ASSUME NEW d \in D
        PROVE  /\ d \in Directories /\ Named(d) /\ Registered(files) \subseteq Registered(d)
               /\ Begun(d) = Begun(files) /\ Begun(files) \subseteq d.dirs /\ d.smbDirs \subseteq Registered(files)
    <3>1. PICK e \in disk : d = e \/ d = Put(e, "reg", v)
      BY <1>10
    <3>2. /\ e \in Directories /\ Named(e) /\ Registered(e) = Registered(files) /\ e.dirs = files.dirs
          /\ Begun(e) = Begun(files) /\ Begun(files) \subseteq e.dirs /\ e.smbDirs \subseteq Registered(files)
      BY <1>1, <1>7, ReserveParts, Zenon
    <3> QED BY <1>9, <3>1, <3>2
  <2>2. unix \subseteq Registered(files)
    BY <1>1, ReserveParts, Zenon
  <2> QED BY <2>1, <2>2, Zenon DEF Durable
<1>11. CASE CommitFails("reg", v) /\ Fails /\ torn' = TRUE
  <2>1. files' \in disk' /\ \A d \in disk' : \E e \in disk : d = e \/ d = Put(e, "reg", v)
    BY <1>1, <1>11, ReserveParts DEF CommitFails
  <2>2. Durable(disk', unix)
    BY <1>10, <2>1, Zenon
  <2>3. own.st = "open"
    BY <1>1, ReserveParts
  <2> QED BY <1>1, <1>11, <2>1, <2>2, <2>3, TornKeeps, Zenon
<1>12. CASE Commits("reg", v) /\ UNCHANGED <<own, torn>>
  <2>2. OwnerTypes' /\ AuthorityInv' /\ WorldTypes'
    BY <1>1, <1>12, ReserveParts, WorkKeeps, Zenon DEF WorldTypes
  <2>3. files' = Put(files, "reg", v) /\ files' \in disk' /\ \A d \in disk' : \E e \in disk : d = Put(e, "reg", v)
    BY <1>1, <1>12, ReserveParts DEF Commits
  <2>4. Durable(disk', unix')
    BY <1>1, <1>10, <2>3
  <2>5. ASSUME NEW d \in disk' PROVE d.reg = files'.reg /\ d.nat = files'.nat /\ d.smb = files'.smb
    <3>1. d.reg = v /\ d.nat = files.nat /\ d.smb = files.smb
      BY <1>9, <2>3, Zenon
    <3>2. files'.reg = v /\ files'.nat = files.nat /\ files'.smb = files.smb
      BY <1>1, <1>9, <2>3, ReserveParts, Zenon
    <3> QED BY <3>1, <3>2
  <2>6. Certain(files', disk')
    BY <2>5, Zenon DEF Certain
  <2>7. call'.op = "-" /\ CallFits(call', files', disk')
    BY <1>1, IdleFits DEF Returns, Idle
  <2>8. ASSUME ~torn' PROVE Whole(call', files', disk')
    <3>1. Whole(call, files, disk)
      BY <1>1, <1>12, <2>8, ReserveParts, Zenon
    <3>2. \A e \in disk : Ordered(e) /\ Children(e) /\ e.smbDirs = files.smbDirs
      BY <1>1, <3>1, Zenon DEF Whole
    <3>3. files'.dirs = files.dirs /\ files'.smbDirs = files.smbDirs
      BY <1>1, <1>9, <2>3, ReserveParts, Zenon
    <3>4. ASSUME NEW d \in disk'
          PROVE  Ordered(d) /\ d.smbDirs = files'.smbDirs /\ Children(d) /\ d.dirs = files'.dirs /\ Registered(d) = d.dirs
      <4>1. PICK e \in disk : d = Put(e, "reg", v)
        BY <2>3, Zenon
      <4>2. /\ e \in Directories /\ Registered(e) = Registered(files) /\ e.smbDirs \subseteq Registered(files)
        BY <1>1, ReserveParts, Zenon
      <4>3. /\ d \in Directories /\ d.reg = v /\ d.nat = e.nat /\ d.smb = e.smb /\ d.smbDirs = e.smbDirs
            /\ d.dirs = files.dirs /\ e.nat = files.nat /\ e.reg = r /\ Registered(d) = Registered(files) \cup {a}
        BY <1>9, <4>1, Zenon
      <4>4. \A b \in Registered(e) : Confirmed(e, b)
        BY <1>7, <4>2, <4>3, Zenon DEF Confirmed
      <4>5. Ordered(e) /\ Children(e) /\ e.smbDirs = files.smbDirs
        BY <3>2
      <4>6. Ordered(d)
        BY <1>5, <1>6, <1>7, <4>2, <4>3, <4>4, <4>5, OrderedCreate, Zenon
      <4>7. Children(d)
        BY <1>7, <4>2, <4>3, <4>5 DEF Children, Confirmed
      <4> QED BY <1>7, <3>3, <4>3, <4>5, <4>6, <4>7, Zenon
    <3> QED BY <2>7, <3>4, Zenon DEF Whole
  <2> QED BY <2>2, <2>3, <2>4, <2>6, <2>7, <2>8, Assemble
<1> QED BY <1>6, <1>11, <1>12, Zenon DEF ReserveRegistry

-----------------------------------------------------------------------------
(* Begin.                                                                  *)

\* What a Samba Begin in progress knows.
LEMMA BeginParts ==
    ASSUME IInv, call.op = "Begin"
    PROVE  /\ OwnerTypes /\ WorldTypes /\ AuthorityInv /\ files \in Directories /\ files \in disk
           /\ own.st = "open" /\ Durable(disk, unix) /\ Certain(files, disk) /\ call.account \in Accounts
           /\ call.account \in Registered(files) /\ Confirmed(files, call.account)
           /\ call.step \in {"sync", "journal", "discard"} /\ (~torn => Whole(call, files, disk))
           /\ \A e \in disk : /\ e \in Directories /\ Named(e) /\ Registered(e) = Registered(files)
                              /\ Begun(e) = Begun(files) /\ Begun(files) \subseteq e.dirs
                              /\ e.smbDirs \subseteq Registered(files)
           /\ unix \subseteq Registered(files)
<1>1. /\ OwnerTypes /\ WorldTypes /\ AuthorityInv /\ files \in Directories /\ files \in disk
      /\ own.st = "open" /\ Durable(disk, unix) /\ Certain(files, disk)
      /\ CallFits(call, files, disk) /\ (~torn => Whole(call, files, disk))
      /\ unix \subseteq Registered(files)
  BY Parts, Zenon DEF AuthorityInv
<1>2. /\ call.account \in Accounts /\ call.account \in Registered(files) /\ Confirmed(files, call.account)
      /\ call.step \in {"sync", "journal", "discard"}
  BY <1>1, Zenon DEF CallFits, OwnerTypes
<1>3. ASSUME NEW e \in disk
      PROVE  /\ e \in Directories /\ Named(e) /\ Registered(e) = Registered(files)
             /\ Begun(e) = Begun(files) /\ Begun(files) \subseteq e.dirs /\ e.smbDirs \subseteq Registered(files)
  BY <1>1, Zenon DEF Durable, Certain, Registered, Begun
<1> QED BY <1>1, <1>2, <1>3, Zenon

\* The entries of Samba journals change, among the accounts, and no document:
\* the directories E come of D, which has f ...
Relisted(D, E, f) == \A d \in E : \E e \in D : \E s \in SUBSET Registered(f) : d = Put(e, "smbDirs", s)

\* ... and differ in nothing else.
SameBut(D, E, f) ==
    \A d \in E : /\ d \in Directories /\ d.reg = f.reg /\ d.nat = f.nat /\ d.smb = f.smb
                 /\ Registered(d) = Registered(f) /\ Begun(d) = Begun(f)
                 /\ (\E e \in D : d.dirs = e.dirs /\ (Ordered(e) => Ordered(d)))

\* New entries of Samba journals keep what is durable.
LEMMA EntriesKeep ==
    ASSUME NEW D, NEW E, NEW u, NEW f, f \in D, Durable(D, u), Certain(f, D),
           NEW g \in E, Relisted(D, E, f)
    PROVE  Durable(E, u) /\ Certain(g, E) /\ SameBut(D, E, f)
<1>1. ASSUME NEW d \in E
      PROVE  /\ d \in Directories /\ d.reg = f.reg /\ d.nat = f.nat /\ d.smb = f.smb /\ Named(d)
             /\ Registered(d) = Registered(f) /\ Begun(d) = Begun(f) /\ d.smbDirs \subseteq Registered(f)
             /\ Begun(f) \subseteq d.dirs
             /\ (\E e \in D : d.dirs = e.dirs /\ (Ordered(e) => Ordered(d)))
  <2>1. PICK e \in D, s \in SUBSET Registered(f) : d = Put(e, "smbDirs", s)
    BY Zenon DEF Relisted
  <2>2. e \in Directories /\ f \in Directories /\ Named(e) /\ e.reg = f.reg /\ e.nat = f.nat /\ e.smb = f.smb
        /\ Begun(f) \subseteq e.dirs
    BY DEF Durable, Certain
  <2>3. s \in SUBSET Accounts
    BY <2>2, IdsAre DEF Registered, Directories
  <2>4. /\ d \in Directories /\ d.reg = e.reg /\ d.nat = e.nat /\ d.smb = e.smb /\ d.dirs = e.dirs /\ d.smbDirs = s
    BY <2>1, <2>2, <2>3, PutEntries, Zenon
  <2>5. /\ Registered(d) = Registered(f) /\ Begun(d) = Begun(f) /\ Named(d) /\ (Ordered(e) => Ordered(d))
    BY <2>2, <2>4, SameDocs, Zenon DEF Registered, Begun
  <2> QED BY <2>1, <2>2, <2>4, <2>5, Zenon
<1>2. u \subseteq Registered(f)
  BY Zenon DEF Durable
<1>3. Durable(E, u)
  BY <1>1, <1>2, Zenon DEF Durable
<1>4. Certain(g, E)
  BY <1>1, Zenon DEF Certain
<1> QED BY <1>1, <1>3, <1>4 DEF SameBut

\* What stays whole while the entry of a is made or taken away.
LEMMA BeginWhole ==
    ASSUME NEW D, NEW E, NEW f \in D, NEW g \in E, NEW a, Certain(f, D), SameBut(D, E, f),
           \A d \in E : d.smbDirs \ {a} = f.smbDirs \ {a},
           \A e \in D : Ordered(e) /\ e.dirs = f.dirs /\ Registered(e) = e.dirs,
           \A b \in f.smbDirs \ {a} : Confirmed(f, b) /\ f.smb[b].phase # "none",
           NEW c, \/ /\ c.op = "Begin" /\ c.account = a /\ (a \in g.smbDirs <=> c.step # "discard")
                     /\ c.step = "journal" => \A d \in E : d.smbDirs = g.smbDirs
                  \/ c.op = "-" /\ \A d \in E : d.smbDirs = g.smbDirs /\ a \notin d.smbDirs
    PROVE  Whole(c, g, E)
<1>1. ASSUME NEW d \in E
      PROVE  /\ Ordered(d) /\ d.dirs = g.dirs /\ Registered(d) = d.dirs /\ d.smbDirs \ {a} = g.smbDirs \ {a}
             /\ \A b \in d.smbDirs \ {a} : Confirmed(d, b) /\ d.smb[b].phase # "none"
  <2>1. Ordered(d) /\ d.dirs = f.dirs /\ Registered(d) = f.dirs /\ g.dirs = f.dirs
    BY DEF SameBut
  <2>2. \A b \in d.smbDirs \ {a} : Confirmed(d, b) /\ d.smb[b].phase # "none"
    BY DEF Confirmed, SameBut
  <2> QED BY <2>1, <2>2, Zenon
<1>2. CASE c.op = "Begin"
  BY <1>1, <1>2, Zenon DEF Whole
<1>3. CASE c.op = "-"
  <2>1. ASSUME NEW d \in E PROVE d.smbDirs = g.smbDirs /\ Children(d)
    BY <1>1, <1>3 DEF Children
  <2> QED BY <1>1, <1>3, <2>1, Zenon DEF Whole
<1> QED BY <1>2, <1>3, Zenon

\* A directory whose entries are put as they are.
LEMMA PutSame ==
    ASSUME NEW d \in Directories
    PROVE  d = Put(d, "smbDirs", d.smbDirs)
BY DEF Put, Directories

\* The entries are synced: they are the directory's everywhere.
SyncedEntries ==
    /\ Durable(disk', unix) /\ Certain(files, disk') /\ SameBut(disk, disk', files)
    /\ files \in disk' /\ \A d \in disk' : d.smbDirs = files.smbDirs

\* ... which the sync of Begin or of discardFreshSMB achieves.
LEMMA SyncGives ==
    ASSUME IInv, call.op = "Begin", Syncs("smbDirs")
    PROVE  SyncedEntries
<1>1. PICK E : E = disk'
  OBVIOUS
<1>2. PICK s \in SUBSET Accounts : s = files.smbDirs /\ s \subseteq Registered(files)
  BY BeginParts, Zenon DEF Directories
<1>3. E = {Put(e, "smbDirs", s) : e \in disk}
  BY <1>1, <1>2, Zenon DEF Syncs
<1>4. Relisted(disk, E, files) /\ files \in E
  BY <1>2, <1>3, BeginParts, PutSame DEF Relisted
<1>5. \A d \in E : d.smbDirs = files.smbDirs
  BY <1>2, <1>3, BeginParts, PutEntries
<1>6. files \in disk /\ Durable(disk, unix) /\ Certain(files, disk)
  BY BeginParts, Zenon
<1>7. Durable(E, unix) /\ Certain(files, E) /\ SameBut(disk, E, files)
  BY <1>4, <1>6, EntriesKeep
<1> QED BY <1>1, <1>4, <1>5, <1>7 DEF SyncedEntries

\* The child journal's directory is made.
LEMMA SMBBeginKeeps ==
    ASSUME IInv, NEW a \in Accounts, SMBBegin(a)
    PROVE  IInv'
<1>1. /\ own.st = "open" /\ call.op = "-" /\ a \in Registered(files) /\ Confirmed(files, a)
      /\ Makes("smbDirs", files.smbDirs \cup {a}) /\ Goto("Begin", "sync", a, "-")
      /\ UNCHANGED <<own, lease, passdb, unix, foreign, torn>>
  BY Zenon DEF SMBBegin, Entered, world
<1>2. /\ OwnerTypes /\ WorldTypes /\ AuthorityInv /\ files \in Directories /\ files \in disk
      /\ Durable(disk, unix) /\ Certain(files, disk) /\ (~torn => Settled(files, disk))
  BY <1>1, Parts, WholeSettled, Zenon
<1>3. call'.op = "Begin" /\ call'.account = a /\ call'.step = "sync" /\ call'.lease = "-" /\ "Begin" \in Ops \ {"-"}
  BY <1>1, Zenon DEF Goto, Ops
<1>4. OwnerTypes' /\ AuthorityInv' /\ WorldTypes'
  BY <1>1, <1>2, <1>3, WorkKeeps, Zenon DEF WorldTypes
<1>5. PICK s \in SUBSET Registered(files) : s = files.smbDirs \cup {a}
  BY <1>1, <1>2, Zenon DEF Durable
<1>6. files' = Put(files, "smbDirs", s) /\ files' \in disk' /\ \A d \in disk' : \E e \in disk : d = e \/ d = Put(e, "smbDirs", s)
  BY <1>1, <1>2, <1>5, Zenon DEF Makes
<1>7. \A d \in disk' : \E e \in disk : \E t \in SUBSET Registered(files) :
          d = Put(e, "smbDirs", t) /\ t \in {s, e.smbDirs}
  <2>1. ASSUME NEW e \in disk PROVE e.smbDirs \in SUBSET Registered(files) /\ e = Put(e, "smbDirs", e.smbDirs)
    BY <1>2, PutSame DEF Durable
  <2> QED BY <1>6, <2>1
<1>11. PICK E, g : E = disk' /\ g = files'
  OBVIOUS
<1>12. g \in E /\ Relisted(disk, E, files)
  BY <1>6, <1>7, <1>11 DEF Relisted
<1>8. Durable(E, unix) /\ Certain(g, E) /\ SameBut(disk, E, files)
  BY <1>2, <1>12, EntriesKeep, Zenon
<1>9. CallFits(call', files', disk')
  <2>1. Registered(files') = Registered(files) /\ Confirmed(files', a)
    BY <1>1, <1>6, <1>8, <1>11, Zenon DEF Confirmed, SameBut
  <2> QED BY <1>1, <1>3, <2>1 DEF CallFits, Intents
<1>10. ASSUME ~torn' PROVE Whole(call', files', disk')
  <2>1. Settled(files, disk)
    BY <1>1, <1>2, <1>10, Zenon
  <2>2. \A b \in files.smbDirs \ {a} : Confirmed(files, b) /\ files.smb[b].phase # "none"
    <3>1. files.smbDirs \subseteq Registered(files) /\ Children(files)
      BY <1>2, <2>1, Zenon DEF Durable, Settled
    <3> QED BY <3>1 DEF Children
  <2>3. ASSUME NEW d \in E PROVE d.smbDirs \ {a} = files.smbDirs \ {a}
    <3>1. PICK e \in disk, t \in SUBSET Registered(files) : d = Put(e, "smbDirs", t) /\ t \in {s, e.smbDirs}
      BY <1>7, <1>11
    <3>2. e \in Directories /\ e.smbDirs = files.smbDirs /\ Registered(files) \subseteq Accounts
      BY <1>2, <2>1, Parts, Zenon DEF Durable, Settled
    <3>3. d.smbDirs = t
      BY <3>1, <3>2, PutEntries
    <3> QED BY <1>5, <3>1, <3>2, <3>3
  <2>4. a \in g.smbDirs
    <3>1. s \in SUBSET Accounts
      BY <1>2, <1>5, IdsAre DEF Registered, Directories
    <3>2. Put(files, "smbDirs", s).smbDirs = s
      BY <1>2, <3>1, PutEntries
    <3> QED BY <1>5, <1>6, <1>11, <3>2
  <2>5. \A e \in disk : Ordered(e) /\ e.dirs = files.dirs /\ Registered(e) = e.dirs
    BY <2>1, Zenon DEF Settled
  <2>6. PICK c : c = call'
    OBVIOUS
  <2>7. c.op = "Begin" /\ c.account = a /\ c.step = "sync"
    BY <1>3, <2>6
  <2>8. Whole(c, g, E)
    <3>1. /\ c.op = "Begin" /\ c.account = a /\ (a \in g.smbDirs <=> c.step # "discard")
          /\ c.step = "journal" => \A d \in E : d.smbDirs = g.smbDirs
      BY <2>4, <2>7
    <3>2. files \in disk /\ g \in E /\ Certain(files, disk) /\ SameBut(disk, E, files)
      BY <1>2, <1>8, <1>12
    <3>3. \A d \in E : d.smbDirs \ {a} = files.smbDirs \ {a}
      BY <2>3, Zenon
    <3>4. \/ /\ c.op = "Begin" /\ c.account = a /\ (a \in g.smbDirs <=> c.step # "discard")
             /\ c.step = "journal" => \A d \in E : d.smbDirs = g.smbDirs
          \/ c.op = "-" /\ \A d \in E : d.smbDirs = g.smbDirs /\ a \notin d.smbDirs
      BY <3>1, Zenon
    <3> QED BY <2>2, <2>5, <3>2, <3>3, <3>4, BeginWhole
  <2> QED BY <1>11, <2>6, <2>8
<1>13. Durable(disk', unix') /\ Certain(files', disk')
  BY <1>1, <1>8, <1>11, Zenon
<1> QED BY <1>1, <1>4, <1>6, <1>9, <1>10, <1>13, Assemble, Zenon

\* The entry is durable.
LEMMA SMBBeginSyncKeeps ==
    ASSUME IInv, SMBBeginSync
    PROVE  IInv'
<1>1. call.op = "Begin" /\ call.step = "sync" /\ UNCHANGED <<lease, passdb, unix, foreign>>
  BY DEF SMBBeginSync, world
<1>2. CASE Fails /\ Returns /\ torn' = TRUE /\ UNCHANGED <<files, disk>>
  BY <1>1, <1>2, BeginParts, TornKeeps, Zenon
<1>3. CASE Syncs("smbDirs") /\ Goto("Begin", "journal", call.account, "-") /\ UNCHANGED <<own, torn>>
  <2>1. PICK a \in Accounts : a = call.account
    BY <1>1, BeginParts, Zenon
  <2>2. call'.op = "Begin" /\ call'.account = a /\ call'.step = "journal" /\ call'.lease = "-" /\ "Begin" \in Ops \ {"-"}
    BY <1>3, <2>1 DEF Goto, Ops
  <2>3. OwnerTypes' /\ AuthorityInv' /\ WorldTypes'
    BY <1>1, <1>3, <2>2, BeginParts, WorkKeeps, Zenon DEF WorldTypes
  <2>4. SyncedEntries
    BY <1>1, <1>3, SyncGives
  <2>5. Durable(disk', unix') /\ Certain(files', disk') /\ files' \in disk' /\ files' = files
    BY <1>1, <1>3, <2>4 DEF Syncs, SyncedEntries
  <2>6. CallFits(call', files', disk')
    BY <1>1, <2>1, <2>2, <2>5, BeginParts, Zenon DEF CallFits, Intents
  <2>7. ASSUME ~torn' PROVE Whole(call', files', disk')
    <3>1. Whole(call, files, disk)
      BY <1>1, <1>3, <2>7, BeginParts, Zenon
    <3>2. /\ \A e \in disk : Ordered(e) /\ e.dirs = files.dirs /\ Registered(e) = e.dirs
          /\ \A b \in files.smbDirs \ {a} : Confirmed(files, b) /\ files.smb[b].phase # "none"
          /\ a \in files.smbDirs
      BY <1>1, <2>1, <3>1, BeginParts, Zenon DEF Whole
    <3>3. PICK c, E : c = call' /\ E = disk'
      OBVIOUS
    <3>4. c.op = "Begin" /\ c.account = a /\ c.step = "journal"
      BY <2>2, <3>3
    <3>5. files \in E /\ SameBut(disk, E, files) /\ \A d \in E : d.smbDirs = files.smbDirs
      BY <2>4, <2>5, <3>3 DEF SyncedEntries
    <3>6. Whole(c, files, E)
      BY <1>1, <3>2, <3>4, <3>5, BeginParts, BeginWhole, Zenon
    <3> QED BY <2>5, <3>3, <3>6
  <2> QED BY <2>3, <2>5, <2>6, <2>7, Assemble, Zenon
<1> QED BY <1>2, <1>3, Zenon DEF SMBBeginSync

\* The directory is gone again, and nothing else has changed.
LEMMA SMBDiscardSyncKeeps ==
    ASSUME IInv, SMBDiscardSync
    PROVE  IInv'
<1>1. call.op = "Begin" /\ call.step = "discard" /\ Returns /\ UNCHANGED <<lease, passdb, unix, foreign>>
  BY DEF SMBDiscardSync, world
<1>2. CASE Fails /\ torn' = TRUE /\ UNCHANGED <<files, disk>>
  BY <1>1, <1>2, BeginParts, TornKeeps, Zenon
<1>3. CASE Syncs("smbDirs") /\ UNCHANGED <<own, torn>>
  <2>1. PICK a \in Accounts : a = call.account
    BY <1>1, BeginParts
  <2>2. call'.op = "-" /\ CallFits(call', files', disk')
    BY <1>1, IdleFits DEF Returns, Idle
  <2>3. OwnerTypes' /\ AuthorityInv' /\ WorldTypes'
    BY <1>1, <1>3, BeginParts, WorkKeeps, Zenon DEF WorldTypes
  <2>4. SyncedEntries
    BY <1>1, <1>3, SyncGives
  <2>5. Durable(disk', unix') /\ Certain(files', disk') /\ files' \in disk' /\ files' = files
    BY <1>1, <1>3, <2>4, Zenon DEF Syncs, SyncedEntries
  <2>7. ASSUME ~torn' PROVE Whole(call', files', disk')
    <3>1. Whole(call, files, disk)
      BY <1>1, <1>3, <2>7, BeginParts
    <3>2. /\ \A e \in disk : Ordered(e) /\ e.dirs = files.dirs /\ Registered(e) = e.dirs
          /\ \A b \in files.smbDirs \ {a} : Confirmed(files, b) /\ files.smb[b].phase # "none"
          /\ a \notin files.smbDirs
      BY <1>1, <2>1, <3>1, BeginParts, Zenon DEF Whole
    <3>3. PICK c, E : c = call' /\ E = disk'
      OBVIOUS
    <3>5. files \in E /\ SameBut(disk, E, files) /\ \A d \in E : d.smbDirs = files.smbDirs
      BY <2>4, <2>5, <3>3 DEF SyncedEntries
    <3>6. Whole(c, files, E)
      <4>1. files \in disk /\ Certain(files, disk)
        BY <1>1, BeginParts
      <4>2. \A d \in E : d.smbDirs \ {a} = files.smbDirs \ {a} /\ a \notin d.smbDirs
        BY <3>2, <3>5
      <4>3. c.op = "-"
        BY <2>2, <3>3
      <4> QED BY <3>2, <3>5, <4>1, <4>2, <4>3, BeginWhole, Zenon
    <3> QED BY <2>5, <3>3, <3>6
  <2> QED BY <2>2, <2>3, <2>5, <2>7, Assemble, Zenon
<1> QED BY <1>2, <1>3, Zenon DEF SMBDiscardSync

\* Another Samba document changes nothing that is durable.
LEMMA SMBDurable ==
    ASSUME NEW D, NEW E, NEW u, Durable(D, u), NEW v \in [Accounts -> SMBs],
           \A d \in E : \E e \in D : d = e \/ d = Put(e, "smb", v)
    PROVE  Durable(E, u)
<1>1. ASSUME NEW d \in E
      PROVE  \E e \in D : /\ d \in Directories /\ Named(d) /\ Registered(d) = Registered(e) /\ Begun(d) = Begun(e)
                          /\ d.dirs = e.dirs /\ d.smbDirs = e.smbDirs
  <2>1. PICK e \in D : d = e \/ d = Put(e, "smb", v)
    OBVIOUS
  <2>2. e \in Directories /\ Named(e)
    BY Zenon DEF Durable
  <2>3. CASE d = Put(e, "smb", v)
    <3>1. d \in Directories /\ d.reg = e.reg /\ d.nat = e.nat /\ d.dirs = e.dirs /\ d.smbDirs = e.smbDirs
      BY <2>2, <2>3, PutSMB, Zenon
    <3> QED BY <2>2, <3>1, SameDocs, Zenon
  <2> QED BY <2>1, <2>2, <2>3, Zenon
<1>2. \A d \in E : d \in Directories /\ Named(d) /\ u \subseteq Registered(d)
  <2> SUFFICES ASSUME NEW d \in E PROVE d \in Directories /\ Named(d) /\ u \subseteq Registered(d)
    OBVIOUS
  <2>1. PICK e \in D : d \in Directories /\ Named(d) /\ Registered(d) = Registered(e)
    BY <1>1, Zenon
  <2>2. u \subseteq Registered(e)
    BY Zenon DEF Durable
  <2> QED BY <2>1, <2>2, Zenon
<1>3. \A d, g \in E : Begun(d) \subseteq g.dirs /\ d.smbDirs \subseteq Registered(g)
  <2> SUFFICES ASSUME NEW d \in E, NEW g \in E PROVE Begun(d) \subseteq g.dirs /\ d.smbDirs \subseteq Registered(g)
    OBVIOUS
  <2>1. PICK e \in D : Begun(d) = Begun(e) /\ d.smbDirs = e.smbDirs
    BY <1>1, Zenon
  <2>2. PICK h \in D : g.dirs = h.dirs /\ Registered(g) = Registered(h)
    BY <1>1, Zenon
  <2>3. Begun(e) \subseteq h.dirs /\ e.smbDirs \subseteq Registered(h)
    BY Zenon DEF Durable
  <2> QED BY <2>1, <2>2, <2>3, Zenon
<1> QED BY <1>2, <1>3, Zenon DEF Durable

\* The child journal is reserved, or its directory taken away again.
LEMMA SMBBeginJournalKeeps ==
    ASSUME IInv, SMBBeginJournal
    PROVE  IInv'
<1>1. call.op = "Begin" /\ call.step = "journal" /\ UNCHANGED <<lease, passdb, unix, foreign>>
  BY Zenon DEF SMBBeginJournal, world
<1>2. PICK a \in Accounts : a = call.account
  BY <1>1, BeginParts
<1>3. PICK v \in [Accounts -> SMBs] : v = [files.smb EXCEPT ![a] = [phase |-> "Reserved", rev |-> 1]]
  BY <1>1, BeginParts, Zenon DEF Directories, SMBs
<1>4. v[a].phase = "Reserved" /\ \A b \in Accounts \ {a} : v[b] = files.smb[b]
  BY <1>1, <1>3, BeginParts, Zenon DEF Directories
<1>5. own.st = "open" /\ files \in disk /\ Durable(disk, unix) /\ Certain(files, disk)
      /\ a \in Registered(files) /\ Confirmed(files, a) /\ \A e \in disk : e \in Directories
  BY <1>1, <1>2, BeginParts, Zenon
<1>6. ASSUME ~torn
      PROVE  /\ \A e \in disk : Ordered(e) /\ e.dirs = files.dirs /\ Registered(e) = e.dirs /\ e.smbDirs = files.smbDirs
             /\ \A b \in files.smbDirs \ {a} : Confirmed(files, b) /\ files.smb[b].phase # "none"
  BY <1>1, <1>2, <1>6, BeginParts, Zenon DEF Whole
<1>7. CASE Fails /\ Returns /\ torn' = TRUE /\ UNCHANGED <<files, disk>>
  BY <1>1, <1>5, <1>7, TornKeeps, Zenon
<1>8. CASE CommitFails("smb", v) /\ Fails /\ Returns /\ torn' = TRUE
  <2>1. files' \in disk' /\ \A d \in disk' : \E e \in disk : d = e \/ d = Put(e, "smb", v)
    BY <1>5, <1>8 DEF CommitFails
  <2>2. Durable(disk', unix)
    BY <1>5, <2>1, SMBDurable, Zenon
  <2> QED BY <1>1, <1>5, <1>8, <2>1, <2>2, TornKeeps, Zenon
<1>9. CASE Commits("smb", v) /\ Returns /\ UNCHANGED <<own, torn>>
  <2>1. files' = Put(files, "smb", v) /\ files' \in disk' /\ \A d \in disk' : \E e \in disk : d = Put(e, "smb", v)
    BY <1>5, <1>9, Zenon DEF Commits
  <2>2. Durable(disk', unix')
    BY <1>1, <1>5, <2>1, SMBDurable
  <2>3. Certain(files', disk')
    BY <1>5, <1>9, CommitCertain, Zenon DEF Fitting
  <2>4. call'.op = "-" /\ CallFits(call', files', disk')
    BY <1>9, IdleFits DEF Returns, Idle
  <2>5. OwnerTypes' /\ AuthorityInv' /\ WorldTypes'
    BY <1>1, <1>9, BeginParts, WorkKeeps, Zenon DEF WorldTypes
  <2>6. ASSUME ~torn' PROVE Whole(call', files', disk')
    <3>1. ~torn /\ files'.dirs = files.dirs /\ files'.smbDirs = files.smbDirs
      BY <1>5, <1>9, <2>1, <2>6, PutSMB, Zenon
    <3>2. ASSUME NEW d \in disk'
          PROVE  Ordered(d) /\ d.dirs = files'.dirs /\ Registered(d) = d.dirs /\ d.smbDirs = files'.smbDirs /\ Children(d)
      <4>1. PICK e \in disk : d = Put(e, "smb", v)
        BY <2>1
      <4>2. /\ e \in Directories /\ d \in Directories /\ d.reg = e.reg /\ d.nat = e.nat /\ d.smb = v /\ d.dirs = e.dirs
            /\ d.smbDirs = e.smbDirs /\ e.nat = files.nat /\ e.smbDirs = files.smbDirs /\ Ordered(e)
            /\ e.dirs = files.dirs /\ Registered(e) = e.dirs
        BY <1>5, <1>6, <3>1, <4>1, PutSMB, Zenon DEF Certain
      <4>3. Ordered(d) /\ Registered(d) = Registered(e)
        BY <4>2, SameDocs, Zenon
      <4>4. ASSUME NEW b \in d.smbDirs PROVE Confirmed(d, b) /\ d.smb[b].phase # "none"
        <5>1. b \in Accounts /\ d.nat = files.nat
          BY <4>2, Zenon DEF Directories
        <5>2. CASE b = a
          BY <1>4, <1>5, <4>2, <5>1, <5>2, Zenon DEF Confirmed
        <5>3. CASE b # a
          BY <1>4, <1>6, <3>1, <4>2, <5>1, <5>3, Zenon DEF Confirmed
        <5> QED BY <5>2, <5>3, Zenon
      <4>5. Children(d)
        BY <4>4, Zenon DEF Children
      <4> QED BY <3>1, <4>2, <4>3, <4>5, Zenon
    <3> QED BY <2>4, <3>2 DEF Whole
  <2> QED BY <2>1, <2>2, <2>3, <2>4, <2>5, <2>6, Assemble, Zenon
<1>10. CASE /\ files' = Put(files, "smbDirs", files.smbDirs \ {a})
            /\ disk' = disk \cup {Put(d, "smbDirs", d.smbDirs \ {a}) : d \in disk}
            /\ Goto("Begin", "discard", a, "-") /\ UNCHANGED <<own, torn>>
  <2>1. call'.op = "Begin" /\ call'.account = a /\ call'.step = "discard" /\ call'.lease = "-" /\ "Begin" \in Ops \ {"-"}
    BY <1>10 DEF Goto, Ops
  <2>2. OwnerTypes' /\ AuthorityInv' /\ WorldTypes'
    BY <1>1, <1>10, <2>1, BeginParts, WorkKeeps, Zenon DEF WorldTypes
  <2>3. PICK E, g, c : E = disk' /\ g = files' /\ c = call'
    OBVIOUS
  <2>4. g \in E /\ \A d \in E : \E e \in disk : \E t \in SUBSET Registered(files) :
            d = Put(e, "smbDirs", t) /\ t \in {e.smbDirs, e.smbDirs \ {a}}
    <3>1. ASSUME NEW e \in disk
          PROVE e.smbDirs \in SUBSET Registered(files) /\ e.smbDirs \ {a} \in SUBSET Registered(files)
                /\ e = Put(e, "smbDirs", e.smbDirs)
      BY <1>5, PutSame, Zenon DEF Durable
    <3> QED BY <1>5, <1>10, <2>3, <3>1, Zenon
  <2>5. Relisted(disk, E, files)
    BY <2>4 DEF Relisted
  <2>6. Durable(E, unix) /\ Certain(g, E) /\ SameBut(disk, E, files)
    BY <1>5, <2>4, <2>5, EntriesKeep, Zenon
  <2>7. CallFits(c, g, E)
    <3>1. Registered(g) = Registered(files) /\ Confirmed(g, a)
      BY <1>5, <2>4, <2>6, Zenon DEF Confirmed, SameBut
    <3> QED BY <1>5, <2>1, <2>3, <3>1, Zenon DEF CallFits, Intents
  <2>8. ASSUME ~torn PROVE Whole(c, g, E)
    <3>1. \A e \in disk : Ordered(e) /\ e.dirs = files.dirs /\ Registered(e) = e.dirs
      BY <1>6, <2>8, Zenon
    <3>2. ASSUME NEW d \in E PROVE d.smbDirs \ {a} = files.smbDirs \ {a}
      <4>1. PICK e \in disk, t \in SUBSET Registered(files) :
                d = Put(e, "smbDirs", t) /\ t \in {e.smbDirs, e.smbDirs \ {a}}
        BY <2>4
      <4>2. e.smbDirs = files.smbDirs /\ e \in Directories /\ t \in SUBSET Accounts
        BY <1>5, <1>6, <2>8, Parts, Zenon
      <4>3. d.smbDirs = t
        BY <4>1, <4>2, PutEntries, Zenon
      <4> QED BY <4>1, <4>2, <4>3, Zenon
    <3>3. a \notin g.smbDirs
      <4>1. files.smbDirs \ {a} \in SUBSET Accounts
        BY <1>5 DEF Directories
      <4> QED BY <1>5, <1>10, <2>3, <4>1, PutEntries
    <3>4. c.op = "Begin" /\ c.account = a /\ c.step = "discard"
      BY <2>1, <2>3, Zenon
    <3>5. \A b \in files.smbDirs \ {a} : Confirmed(files, b) /\ files.smb[b].phase # "none"
      BY <1>6, <2>8
    <3> QED BY <1>5, <2>4, <2>6, <3>1, <3>2, <3>3, <3>4, <3>5, BeginWhole, Zenon
  <2>9. Durable(disk', unix') /\ Certain(files', disk') /\ files' \in disk' /\ CallFits(call', files', disk')
        /\ (~torn' => Whole(call', files', disk'))
    BY <1>1, <1>10, <2>3, <2>4, <2>6, <2>7, <2>8, Zenon
  <2> QED BY <2>2, <2>9, Assemble, Zenon
<1> QED BY <1>2, <1>3, <1>7, <1>8, <1>9, <1>10, Zenon DEF SMBBeginJournal

=============================================================================
